------------------------- MODULE HookrRegistryProofs --------------------------
(* Proofs about HookrRegistry for every set of accounts, roots, launchers,   *)
(* factories, assets and modules, every delay and every grace period.        *)
EXTENDS HookrRegistryProperties, TLAPS

-----------------------------------------------------------------------------
(* Type correctness.                                                         *)

\* A consumed operation leaves a well-formed table of ready times.
LEMMA ConsumeType ==
  ASSUME NEW op, NEW brakeAt, readyAt \in [Operations -> Nat], ConsumeAfter(op, brakeAt)
  PROVE  readyAt' \in [Operations -> Nat]
  BY DEF ConsumeAfter

\* What one account does to the timelock keeps its type.
LEMMA GovernanceType ==
  ASSUME TimelockTypeOK(Operations), NEW caller \in Accounts, Governance(caller)
  PROVE  TimelockTypeOK(Operations)'
  <1>1. ASSUME NEW next \in Accounts, TransferOwnership(caller, next)
        PROVE  TimelockTypeOK(Operations)'
    BY <1>1, ConsumeType DEF TransferOwnership, TimelockTypeOK, Consume, roleVars
  <1>2. CASE CancelOwnershipTransfer(caller)
    BY <1>2 DEF CancelOwnershipTransfer, TimelockTypeOK
  <1>3. CASE AcceptOwnership(caller)
    BY <1>3 DEF AcceptOwnership, TimelockTypeOK
  <1>4. ASSUME NEW next \in Accounts \cup {NoOne}, SetGuardian(caller, next)
        PROVE  TimelockTypeOK(Operations)'
    BY <1>4, ConsumeType DEF SetGuardian, TimelockTypeOK, Consume, roleVars
  <1>5. CASE RemoveGuardian(caller)
    BY <1>5 DEF RemoveGuardian, TimelockTypeOK
  <1> QED
    BY <1>1, <1>2, <1>3, <1>4, <1>5 DEF Governance

\* The clock is a positive number.
LEMMA ClockType ==
  ASSUME now \in 1..MaxTime
  PROVE  now \in Nat \ {0}
  BY MaxTimeAssumption

\* Noting a brake keeps the type of the history variable.
LEMMA HoldType ==
  ASSUME now \in 1..MaxTime, heldSince \in [UntimedSwitches -> Nat], NEW s, Hold(s)
  PROVE  heldSince' \in [UntimedSwitches -> Nat]
  BY ClockType DEF Hold

\* What one account does to the markets keeps their type and the timelock's.
LEMMA MarketType ==
  ASSUME TimelockTypeOK(Operations), MarketTypeOK, NEW caller \in Accounts, MarketAction(caller)
  PROVE  TimelockTypeOK(Operations)' /\ MarketTypeOK'
  <1> USE DEF TimelockTypeOK, MarketTypeOK, roleVars, RootState, Unregistered
  <1>1. ASSUME NEW l \in Launchers, NEW on \in BOOLEAN, SetLauncher(caller, l, on)
        PROVE  TimelockTypeOK(Operations)' /\ MarketTypeOK'
    BY <1>1, ConsumeType DEF SetLauncher, Consume
  <1>2. ASSUME NEW l \in Launchers, DeactivateLauncher(caller, l)
        PROVE  TimelockTypeOK(Operations)' /\ MarketTypeOK'
    BY <1>2, HoldType DEF DeactivateLauncher
  <1>3. ASSUME NEW r \in Roots, RegisterRoot(caller, r)
        PROVE  TimelockTypeOK(Operations)' /\ MarketTypeOK'
    BY <1>3, ConsumeType DEF RegisterRoot, Consume
  <1>4. ASSUME NEW r \in Roots, RetireRoot(caller, r)
        PROVE  TimelockTypeOK(Operations)' /\ MarketTypeOK'
    BY <1>4, ConsumeType DEF RetireRoot, Consume
  <1>5. ASSUME NEW r \in Roots, FreezeRoot(caller, r)
        PROVE  TimelockTypeOK(Operations)' /\ MarketTypeOK'
    BY <1>5 DEF FreezeRoot
  <1>6. ASSUME NEW r \in Roots, CloseRoot(caller, r)
        PROVE  TimelockTypeOK(Operations)' /\ MarketTypeOK'
    BY <1>6, HoldType DEF CloseRoot
  <1>7. ASSUME NEW r \in Roots, ReopenRoot(caller, r)
        PROVE  TimelockTypeOK(Operations)' /\ MarketTypeOK'
    BY <1>7, ConsumeType DEF ReopenRoot, Consume
  <1>8. ASSUME NEW f \in Factories, NEW on \in BOOLEAN, SetRootFactory(caller, f, on)
        PROVE  TimelockTypeOK(Operations)' /\ MarketTypeOK'
    BY <1>8, ConsumeType DEF SetRootFactory, Consume
  <1>9. ASSUME NEW f \in Factories, DeactivateRootFactory(caller, f)
        PROVE  TimelockTypeOK(Operations)' /\ MarketTypeOK'
    BY <1>9, HoldType DEF DeactivateRootFactory
  <1>10. CASE PauseNewMarkets(caller)
    BY <1>10, HoldType DEF PauseNewMarkets
  <1>11. CASE ResumeNewMarkets(caller)
    BY <1>11, ConsumeType DEF ResumeNewMarkets, Consume
  <1>12. ASSUME NEW h \in Hooks, SetExternalHook(caller, h)
        PROVE  TimelockTypeOK(Operations)' /\ MarketTypeOK'
    BY <1>12, ConsumeType DEF SetExternalHook
  <1>13. ASSUME NEW h \in Hooks, DropExternalHookRecord(caller, h)
        PROVE  TimelockTypeOK(Operations)' /\ MarketTypeOK'
    BY <1>13 DEF DropExternalHookRecord
  <1> QED
    BY <1>1, <1>2, <1>3, <1>4, <1>5, <1>6, <1>7, <1>8, <1>9, <1>10, <1>11, <1>12, <1>13
    DEF MarketAction

\* A factory's registration of a pair root keeps them too.
LEMMA FactoryRootType ==
  ASSUME TimelockTypeOK(Operations), MarketTypeOK, NEW f \in Factories, NEW r \in PairRoots,
         RegisterFactoryRoot(f, r)
  PROVE  TimelockTypeOK(Operations)' /\ MarketTypeOK'
  BY DEF RegisterFactoryRoot, TimelockTypeOK, MarketTypeOK, roleVars, RootState, Unregistered, Roots

\* So does what one account does to the lanes.
LEMMA LaneType ==
  ASSUME TimelockTypeOK(Operations), LaneTypeOK, NEW caller \in Accounts, LaneAction(caller)
  PROVE  TimelockTypeOK(Operations)' /\ LaneTypeOK'
  <1> USE DEF TimelockTypeOK, LaneTypeOK, roleVars
  <1>1. ASSUME NEW r \in Roots, NEW lane \in LaneState, lanes' = [lanes EXCEPT ![r] = lane]
        PROVE  lanes' \in [Roots -> LaneState]
    BY <1>1
  <1>2. ASSUME NEW r \in Roots, NEW e \in Executors, NEW switch \in SwitchState,
               switches' = [switches EXCEPT ![r][e] = switch]
        PROVE  switches' \in [Roots -> [Executors -> SwitchState]]
    BY <1>2
  <1>3. ASSUME NEW r \in Roots, CloseLane(caller, r)
        PROVE  TimelockTypeOK(Operations)' /\ LaneTypeOK'
    BY <1>1, <1>3, ClockType DEF CloseLane, LaneState
  <1>4. ASSUME NEW r \in Roots, NEW e \in Executors, StopExecutor(caller, r, e)
        PROVE  TimelockTypeOK(Operations)' /\ LaneTypeOK'
    BY <1>2, <1>4, ClockType DEF StopExecutor, SwitchState
  <1>5. ASSUME NEW r \in Roots, NEW e \in Executors, NEW g \in GasCaps, OpenLane(caller, r, e, g)
        PROVE  TimelockTypeOK(Operations)' /\ LaneTypeOK'
    <2>1. lanes' \in [Roots -> LaneState]
      BY <1>1, <1>5 DEF OpenLane, LaneState
    <2>2. switches' \in [Roots -> [Executors -> SwitchState]]
      BY <1>2, <1>5 DEF OpenLane, SwitchState
    <2> QED
      BY <1>5, <2>1, <2>2, ConsumeType DEF OpenLane
  <1>6. ASSUME NEW r \in Roots, NEW e \in Executors, NEW g \in GasCaps, TuneExecutor(caller, r, e, g)
        PROVE  TimelockTypeOK(Operations)' /\ LaneTypeOK'
    BY <1>2, <1>6, ClockType DEF TuneExecutor, SwitchState
  <1>7. ASSUME NEW r \in Roots, NEW e \in Executors, NEW g \in GasCaps, StartExecutor(caller, r, e, g)
        PROVE  TimelockTypeOK(Operations)' /\ LaneTypeOK'
    <2>1. switches' \in [Roots -> [Executors -> SwitchState]]
      BY <1>2, <1>7 DEF StartExecutor, SwitchState
    <2> QED
      BY <1>7, <2>1, ConsumeType DEF StartExecutor, Consume
  <1> QED
    BY <1>3, <1>4, <1>5, <1>6, <1>7 DEF LaneAction

\* And what one account does to the admissions.
LEMMA AdmissionType ==
  ASSUME TimelockTypeOK(Operations), AdmissionTypeOK, NEW caller \in Accounts, AdmissionAction(caller)
  PROVE  TimelockTypeOK(Operations)' /\ AdmissionTypeOK'
  <1> USE DEF TimelockTypeOK, AdmissionTypeOK, roleVars
  <1>1. ASSUME NEW s \in Scopes, NEW ms \in SUBSET Modules, Revoke(s, ms)
        PROVE  TimelockTypeOK(Operations)' /\ AdmissionTypeOK'
    BY <1>1 DEF Revoke
  <1>2. ASSUME NEW s \in Scopes, NEW m \in Modules, NEW k \in Kinds, Admit(caller, s, m, k)
        PROVE  TimelockTypeOK(Operations)' /\ AdmissionTypeOK'
    BY <1>2, ConsumeType, AdmissionAssumption DEF Admit, Consume
  <1>3. ASSUME NEW s \in Scopes, NEW m \in Modules, NEW b \in Bonds, PinModuleBond(caller, s, m, b)
        PROVE  TimelockTypeOK(Operations)' /\ AdmissionTypeOK'
    BY <1>3, ConsumeType DEF PinModuleBond, Consume
  <1>4. ASSUME NEW s \in Scopes, NEW ms \in SUBSET Modules, RevokeFactoryAdmissions(caller, s, ms)
        PROVE  TimelockTypeOK(Operations)' /\ AdmissionTypeOK'
    BY <1>1, <1>4 DEF RevokeFactoryAdmissions
  <1>5. ASSUME NEW s \in Scopes, NEW m \in Modules, RevokeModuleAdmission(caller, s, m)
        PROVE  TimelockTypeOK(Operations)' /\ AdmissionTypeOK'
    <2>1. Revoke(s, {m})
      BY <1>5 DEF RevokeModuleAdmission
    <2> QED
      BY <1>1, <2>1
  <1> QED
    BY <1>2, <1>3, <1>4, <1>5 DEF AdmissionAction

-----------------------------------------------------------------------------
(* The indexed sets.                                                         *)

\* Adding an address that is not a member keeps the array and its index in step.
LEMMA PushAgrees ==
  ASSUME NEW universe, NEW index, IsIndexOf(index, universe), Agrees(index),
         NEW x \in universe, index.position[x] = 0
  PROVE  IsIndexOf(IndexPush(index, x), universe) /\ Agrees(IndexPush(index, x))
  <1> DEFINE after == IndexPush(index, x)
             n == Len(index.list)
  <1> USE DEF IsIndexOf
  <1>1. n \in Nat /\ after.list \in Seq(universe) /\ Len(after.list) = n + 1
    BY DEF IndexPush
  <1>2. after.list[n + 1] = x /\ \A i \in 1..n : after.list[i] = index.list[i]
    BY <1>1 DEF IndexPush
  <1>3. after.position \in [universe -> Nat] /\ after.position[x] = n + 1
    BY <1>1 DEF IndexPush
  <1>4. \A y \in universe \ {x} : after.position[y] = index.position[y]
    BY DEF IndexPush
  <1>5. \A i \in 1..n : index.list[i] \in universe \ {x}
    BY DEF Agrees
  <1> HIDE DEF after
  <1>6. \A i \in 1..Len(after.list) : after.position[after.list[i]] = i
    <2> TAKE i \in 1..Len(after.list)
    <2>1. CASE i = n + 1
      BY <1>2, <1>3, <2>1
    <2>2. CASE i \in 1..n
      BY <1>2, <1>4, <1>5, <2>2 DEF Agrees
    <2> QED
      BY <1>1, <2>1, <2>2
  <1>7. ASSUME NEW y \in universe, after.position[y] # 0
        PROVE  after.position[y] \in 1..Len(after.list) /\ after.list[after.position[y]] = y
    <2>1. CASE y = x
      BY <1>1, <1>2, <1>3, <2>1
    <2>2. CASE y # x
      <3>1. after.position[y] = index.position[y]
        BY <1>4, <2>2
      <3>2. index.position[y] \in 1..n /\ index.list[index.position[y]] = y
        BY <1>7, <3>1 DEF Agrees
      <3> HIDE DEF n
      <3>3. after.list[index.position[y]] = y
        BY <1>2, <3>2
      <3> QED
        BY <1>1, <3>1, <3>2, <3>3
    <2> QED
      BY <2>1, <2>2
  <1> QED
    BY <1>1, <1>3, <1>6, <1>7 DEF Agrees, after

\* Swap and pop keeps them in step too, when x is the last member, the only one
\* or none, and leaves x out.
LEMMA DropAgrees ==
  ASSUME NEW universe, NEW index, IsIndexOf(index, universe), Agrees(index), NEW x \in universe
  PROVE  /\ IsIndexOf(IndexDrop(index, x), universe)
         /\ Agrees(IndexDrop(index, x))
         /\ IndexDrop(index, x).position[x] = 0
         /\ Len(IndexDrop(index, x).list) <= Len(index.list)
  <1> DEFINE after == IndexDrop(index, x)
             n == Len(index.list)
             place == index.position[x]
             last == index.list[n]
  <1> USE DEF IsIndexOf
  <1>1. CASE place = 0
    BY <1>1 DEF IndexDrop
  <1>2. CASE place # 0
    <2>1. n \in Nat /\ place \in 1..n /\ index.list[place] = x /\ n >= 1 /\ last \in universe
      BY <1>2 DEF Agrees
    <2>2. index.position[last] = n
      BY <2>1 DEF Agrees
    <2> DEFINE swapped == [index.list EXCEPT ![place] = last]
    <2>3. swapped \in Seq(universe) /\ Len(swapped) = n
      BY <2>1
    <2>4. after.list = SubSeq(swapped, 1, n - 1)
      BY <1>2 DEF IndexDrop
    <2>5. after.list \in Seq(universe) /\ Len(after.list) = n - 1
      BY <2>1, <2>3, <2>4
    <2>6. \A i \in 1..(n - 1) : after.list[i] = IF i = place THEN last ELSE index.list[i]
      BY <2>1, <2>3, <2>4
    <2>7. after.position = [[index.position EXCEPT ![last] = place] EXCEPT ![x] = 0]
      BY <1>2 DEF IndexDrop
    <2>8. after.position \in [universe -> Nat] /\ after.position[x] = 0
      BY <2>1, <2>7
    <2>9. \A y \in universe \ {x} :
            after.position[y] = IF y = last THEN place ELSE index.position[y]
      BY <2>7
    <2> HIDE DEF after
    <2>10. ASSUME NEW i \in 1..Len(after.list)
           PROVE  after.position[after.list[i]] = i
      <3>1. i \in 1..(n - 1) /\ i \in 1..n
        BY <2>1, <2>5
      <3>2. CASE i = place
        <4>1. after.list[i] = last /\ last # x
          BY <2>1, <2>2, <2>6, <3>1, <3>2
        <4> QED
          BY <2>1, <2>9, <3>2, <4>1
      <3>3. CASE i # place
        <4>1. after.list[i] = index.list[i] /\ index.position[index.list[i]] = i
          BY <2>6, <3>1, <3>3 DEF Agrees
        <4>2. index.list[i] \in universe \ {x, last}
          BY <2>1, <2>2, <3>1, <3>3, <4>1
        <4> QED
          BY <2>9, <4>1, <4>2
      <3> QED
        BY <3>2, <3>3
    <2>11. ASSUME NEW y \in universe, after.position[y] # 0
           PROVE  after.position[y] \in 1..Len(after.list) /\ after.list[after.position[y]] = y
      <3>1. y # x
        BY <2>8, <2>11
      <3>2. CASE y = last
        <4>1. after.position[y] = place /\ place # n
          BY <2>1, <2>9, <3>1, <3>2
        <4> HIDE DEF n, place, last
        <4>2. place \in 1..(n - 1)
          BY <2>1, <4>1
        <4>3. after.list[place] = last
          BY <2>6, <4>2
        <4> QED
          BY <2>5, <3>2, <4>1, <4>2, <4>3
      <3>3. CASE y # last
        <4>1. after.position[y] = index.position[y]
          BY <2>9, <3>1, <3>3
        <4>2. index.position[y] \in 1..n /\ index.list[index.position[y]] = y
          BY <2>11, <4>1 DEF Agrees
        <4>3. index.position[y] # n /\ index.position[y] # place
          BY <2>1, <3>1, <3>3, <4>2
        <4> DEFINE k == index.position[y]
        <4>4. k \in 1..n /\ k # n /\ k # place /\ index.list[k] = y /\ after.position[y] = k
          BY <4>1, <4>2, <4>3
        <4> HIDE DEF n, place, last, k
        <4>5. k \in 1..(n - 1)
          BY <2>1, <4>4
        <4>6. after.list[k] = y
          BY <2>6, <4>4, <4>5
        <4> QED
          BY <2>5, <4>4, <4>5, <4>6
      <3> QED
        BY <3>2, <3>3
    <2> QED
      BY <2>1, <2>5, <2>8, <2>10, <2>11 DEF Agrees, after
  <1> QED
    BY <1>1, <1>2

\* The settlement set's length is a number.
LEMMA SettlementLength ==
  ASSUME QuoteTypeOK
  PROVE  Len(settlement.list) \in Nat /\ MaxSettlement \in Nat
  BY QuoteAssumption DEF QuoteTypeOK, IsIndexOf

\* What one account does to the quotes keeps their type and keeps the three
\* indexed sets in step; dropping is well typed only because they are.
LEMMA QuoteType ==
  ASSUME TimelockTypeOK(Operations), QuoteTypeOK, IndexesAgree,
         NEW caller \in Accounts, QuoteAction(caller)
  PROVE  TimelockTypeOK(Operations)' /\ QuoteTypeOK' /\ IndexesAgree'
  <1> USE DEF TimelockTypeOK, QuoteTypeOK, IndexesAgree, roleVars
  <1>1. ASSUME NEW a \in Assets, NEW on \in BOOLEAN, SetQuote(caller, a, on)
        PROVE  TimelockTypeOK(Operations)' /\ QuoteTypeOK' /\ IndexesAgree'
    <2>1. readyAt' \in [Operations -> Nat]
      BY <1>1, ConsumeType DEF SetQuote
    <2>2. IsIndexOf(catalog', Assets) /\ Agrees(catalog')
      <3>1. IsIndexOf(IndexDrop(catalog, a), Assets) /\ Agrees(IndexDrop(catalog, a))
        BY DropAgrees
      <3>2. catalog.position[a] = 0 =>
              IsIndexOf(IndexPush(catalog, a), Assets) /\ Agrees(IndexPush(catalog, a))
        BY PushAgrees
      <3> QED
        BY <1>1, <3>1, <3>2 DEF SetQuote
    <2> QED
      BY <1>1, <2>1, <2>2 DEF SetQuote
  <1>2. ASSUME NEW a \in Assets, BrakeOneQuote(caller, a)
        PROVE  TimelockTypeOK(Operations)' /\ QuoteTypeOK' /\ IndexesAgree'
    <2>1. catalog' = IndexDrop(catalog, a)
      BY <1>2 DEF BrakeOneQuote
    <2>2. IsIndexOf(catalog', Assets) /\ Agrees(catalog') /\ Len(catalog'.list) <= Len(catalog.list)
      BY <2>1, DropAgrees
    <2> QED
      BY <1>2, <2>2, ClockType, SettlementLength DEF BrakeOneQuote
  <1>3. ASSUME NEW a \in Assets, ReopenSingleQuote(caller, a)
        PROVE  TimelockTypeOK(Operations)' /\ QuoteTypeOK' /\ IndexesAgree'
    BY <1>3, ConsumeType DEF ReopenSingleQuote
  <1>4. ASSUME NEW c \in Classes, InstallQuoteClass(caller, c)
        PROVE  TimelockTypeOK(Operations)' /\ QuoteTypeOK' /\ IndexesAgree'
    <2>1. readyAt' \in [Operations -> Nat]
      BY <1>4, ConsumeType DEF InstallQuoteClass
    <2>2. IsIndexOf(classes', Classes) /\ Agrees(classes')
      BY <1>4, PushAgrees DEF InstallQuoteClass, CheckQuoteClass
    <2> QED
      BY <1>4, <2>1, <2>2 DEF InstallQuoteClass
  <1>5. ASSUME NEW c \in Classes, DropQuoteClass(caller, c)
        PROVE  TimelockTypeOK(Operations)' /\ QuoteTypeOK' /\ IndexesAgree'
    <2>1. classes' = IndexDrop(classes, c)
      BY <1>5 DEF DropQuoteClass
    <2>2. IsIndexOf(classes', Classes) /\ Agrees(classes') /\ Len(classes'.list) <= Len(classes.list)
      BY <2>1, DropAgrees
    <2> QED
      BY <1>5, <2>2, ClockType, SettlementLength DEF DropQuoteClass
  <1>6. CASE AuthorizeAnyQuote(caller)
    BY <1>6, ConsumeType DEF AuthorizeAnyQuote
  <1>7. CASE DismissAnyQuote(caller)
    BY <1>7, ClockType DEF DismissAnyQuote
  <1>8. ASSUME NEW x \in Currencies, AddSettlementCurrency(caller, x)
        PROVE  TimelockTypeOK(Operations)' /\ QuoteTypeOK' /\ IndexesAgree'
    <2>1. readyAt' \in [Operations -> Nat]
      BY <1>8, ConsumeType DEF AddSettlementCurrency
    <2>2. IsIndexOf(settlement', Currencies) /\ Agrees(settlement')
      BY <1>8, PushAgrees DEF AddSettlementCurrency, CheckSettlement
    <2>3. Len(settlement'.list) = Len(settlement.list) + 1
      BY <1>8 DEF AddSettlementCurrency, IndexPush, IsIndexOf
    <2>4. Len(settlement'.list) <= MaxSettlement
      BY <1>8, <2>3, SettlementLength DEF AddSettlementCurrency, CheckSettlement
    <2> QED
      BY <1>8, <2>1, <2>2, <2>4 DEF AddSettlementCurrency
  <1>9. ASSUME NEW x \in Currencies, RemoveSettlementCurrency(caller, x)
        PROVE  TimelockTypeOK(Operations)' /\ QuoteTypeOK' /\ IndexesAgree'
    <2>1. settlement' = IndexDrop(settlement, x)
      BY <1>9 DEF RemoveSettlementCurrency
    <2>2. IsIndexOf(settlement', Currencies) /\ Agrees(settlement') /\ Len(settlement'.list) <= Len(settlement.list)
      BY <2>1, DropAgrees
    <2>3. Len(settlement'.list) \in Nat
      BY <2>2 DEF IsIndexOf
    <2> QED
      BY <1>9, <2>2, <2>3, ClockType, SettlementLength DEF RemoveSettlementCurrency
  <1> QED
    BY <1>1, <1>2, <1>3, <1>4, <1>5, <1>6, <1>7, <1>8, <1>9 DEF QuoteAction

-----------------------------------------------------------------------------
(* The whole registry.                                                       *)

\* An owned root's registration writes well-typed roots, lanes and admissions.
LEMMA OwnedRootType ==
  ASSUME TypeOK, NEW f \in Factories, NEW r \in OwnedRoots, NEW template \in Roots,
         NEW rules \in Modules, NEW companion \in Modules, NEW copies \in SUBSET Modules,
         RegisterOwnedRoot(f, r, template, rules, companion, copies)
  PROVE  MarketTypeOK' /\ LaneTypeOK' /\ AdmissionTypeOK'
  <1> r \in Roots
    BY DEF Roots
  <1>1. MarketTypeOK'
    BY DEF RegisterOwnedRoot, TypeOK, MarketTypeOK, RootState, Unregistered
  <1>2. LaneTypeOK'
    <2>1. now \in Nat
      BY ClockType DEF TypeOK, TimelockTypeOK
    <2>2. CASE ActiveLane(template) = NoOne
      BY <2>2 DEF RegisterOwnedRoot, TypeOK, LaneTypeOK, CopyLane, laneVars
    <2>3. CASE ActiveLane(template) # NoOne
      <3> DEFINE e == ActiveLane(template)
      <3>1. e \in Executors /\ switches[template][e] \in SwitchState
        BY <2>3 DEF ActiveLane, TypeOK, LaneTypeOK, LaneState
      <3>2. lanes' = [lanes EXCEPT ![r] = [executor |-> e, closedAt |-> 0]]
        BY <2>3 DEF RegisterOwnedRoot, CopyLane
      <3>3. switches' = [switches EXCEPT ![r][e] =
                           [on |-> FALSE, gasCap |-> switches[template][e].gasCap, brakedAt |-> now]]
        BY <2>3 DEF RegisterOwnedRoot, CopyLane
      <3>4. [on |-> FALSE, gasCap |-> switches[template][e].gasCap, brakedAt |-> now] \in SwitchState
        BY <2>1, <3>1 DEF SwitchState
      <3> HIDE DEF e
      <3> QED
        BY <3>1, <3>2, <3>3, <3>4 DEF TypeOK, LaneTypeOK, LaneState
    <2> QED
      BY <2>2, <2>3
  <1>3. AdmissionTypeOK'
    <2>1. r \in Scopes /\ template \in Scopes
      BY DEF Scopes
    <2> QED
      BY <2>1 DEF RegisterOwnedRoot, CopyAdmissions, TypeOK, AdmissionTypeOK
  <1> QED
    BY <1>1, <1>2, <1>3

\* Queueing keeps the type.
LEMMA QueueType ==
  ASSUME TypeOK, NEW caller \in Accounts, NEW op \in Agenda, Queue(caller, op)
  PROVE  TimelockTypeOK(Operations)'
  <1>1. now + Delay \in Nat
    BY ClockType, DelayAssumption DEF TypeOK, TimelockTypeOK
  <1> QED
    BY <1>1 DEF Queue, Announce, TypeOK, TimelockTypeOK, roleVars

Typed == TypeOK /\ IndexesAgree

\* A new registry is well typed and its indexes agree.
LEMMA InitTyped ==
  ASSUME Init
  PROVE  Typed
  <1> USE DEF Init
  <1>1. TimelockTypeOK(Operations)
    BY MaxTimeAssumption, AccountAssumption DEF TimelockInit, TimelockTypeOK
  <1>2. MarketTypeOK
    BY DEF MarketInit, MarketTypeOK, RootState, Unregistered
  <1>3. \A universe : IsIndexOf(EmptyIndex(universe), universe) /\ Agrees(EmptyIndex(universe))
                       /\ Len(EmptyIndex(universe).list) = 0
    BY DEF EmptyIndex, IsIndexOf, Agrees
  <1>4. IsIndexOf(settlement, Currencies) /\ Agrees(settlement) /\ Len(settlement.list) <= MaxSettlement
    <2>1. CASE Native \in Currencies
      <3> DEFINE empty == EmptyIndex(Currencies)
      <3>1. settlement = IndexPush(empty, Native)
        BY <2>1 DEF QuoteInit
      <3>2. IsIndexOf(empty, Currencies) /\ Agrees(empty) /\ empty.position[Native] = 0
        BY <1>3, <2>1 DEF EmptyIndex
      <3>3. IsIndexOf(settlement, Currencies) /\ Agrees(settlement)
        BY <2>1, <3>1, <3>2, PushAgrees
      <3>4. Len(settlement.list) = 1
        BY <3>1 DEF IndexPush, EmptyIndex
      <3> QED
        BY <3>3, <3>4, QuoteAssumption
    <2>2. CASE Native \notin Currencies
      BY <1>3, <2>2, QuoteAssumption DEF QuoteInit
    <2> QED
      BY <2>1, <2>2
  <1>5. QuoteTypeOK
    BY <1>3, <1>4 DEF QuoteInit, QuoteTypeOK
  <1>6. LaneTypeOK
    BY DEF LaneInit, LaneTypeOK, LaneState, SwitchState
  <1>7. AdmissionTypeOK
    BY DEF AdmissionInit, AdmissionTypeOK
  <1> QED
    BY <1>1, <1>2, <1>3, <1>4, <1>5, <1>6, <1>7 DEF Typed, TypeOK, IndexesAgree, QuoteInit

\* Every step keeps them so.
LEMMA StepTyped ==
  ASSUME Typed, [Next]_vars
  PROVE  Typed'
  <1> USE DEF Typed, TypeOK
  <1>1. UNCHANGED marketVars => MarketTypeOK'
    BY DEF marketVars, MarketTypeOK
  <1>2. UNCHANGED quoteVars => QuoteTypeOK' /\ IndexesAgree'
    BY DEF quoteVars, QuoteTypeOK, IndexesAgree, IsIndexOf, Agrees
  <1>3. UNCHANGED laneVars => LaneTypeOK'
    BY DEF laneVars, LaneTypeOK
  <1>4. UNCHANGED admissionVars => AdmissionTypeOK'
    BY DEF admissionVars, AdmissionTypeOK
  <1>5. UNCHANGED timelockVars => TimelockTypeOK(Operations)'
    BY DEF timelockVars, TimelockTypeOK
  <1>6. ASSUME NEW caller \in Accounts, By(caller)
        PROVE  Typed'
    <2>1. ASSUME NEW op \in Agenda, Queue(caller, op)
          PROVE  Typed'
      BY <1>1, <1>2, <1>3, <1>4, <2>1, QueueType DEF Queue
    <2>2. ASSUME NEW op \in Operations, Cancel(caller, op)
          PROVE  TimelockTypeOK(Operations)'
      BY <2>2 DEF Cancel, TimelockTypeOK, roleVars
    <2>3. CASE /\ (\E op \in Operations : Cancel(caller, op)) \/ Governance(caller)
               /\ UNCHANGED <<marketVars, quoteVars, laneVars, admissionVars>>
      BY <1>1, <1>2, <1>3, <1>4, <2>2, <2>3, GovernanceType
    <2>4. CASE MarketAction(caller) /\ UNCHANGED <<quoteVars, laneVars, admissionVars>>
      BY <1>2, <1>3, <1>4, <2>4, MarketType
    <2>5. CASE QuoteAction(caller) /\ UNCHANGED <<marketVars, laneVars, admissionVars>>
      BY <1>1, <1>3, <1>4, <2>5, QuoteType
    <2>6. CASE LaneAction(caller) /\ UNCHANGED <<quoteVars, admissionVars>>
      <3>1. UNCHANGED marketVars
        <4> PICK r \in Roots :
              \/ CloseLane(caller, r)
              \/ \E e \in Executors :
                   \/ StopExecutor(caller, r, e)
                   \/ \E g \in GasCaps :
                        OpenLane(caller, r, e, g) \/ TuneExecutor(caller, r, e, g) \/ StartExecutor(caller, r, e, g)
          BY <2>6 DEF LaneAction
        <4>1. CASE CloseLane(caller, r)
          BY <4>1 DEF CloseLane
        <4>2. ASSUME NEW e \in Executors, StopExecutor(caller, r, e)
              PROVE  UNCHANGED marketVars
          BY <4>2 DEF StopExecutor
        <4>3. ASSUME NEW e \in Executors, NEW g \in GasCaps,
                     OpenLane(caller, r, e, g) \/ TuneExecutor(caller, r, e, g) \/ StartExecutor(caller, r, e, g)
              PROVE  UNCHANGED marketVars
          BY <4>3 DEF OpenLane, TuneExecutor, StartExecutor
        <4> QED
          BY <4>1, <4>2, <4>3
      <3> QED
        BY <1>1, <1>2, <1>4, <2>6, <3>1, LaneType
    <2>7. CASE AdmissionAction(caller) /\ UNCHANGED <<quoteVars, laneVars>>
      <3>1. UNCHANGED marketVars
        BY <2>7 DEF AdmissionAction, RevokeFactoryAdmissions, Admit, RevokeModuleAdmission, PinModuleBond, Revoke
      <3> QED
        BY <1>1, <1>2, <1>3, <2>7, <3>1, AdmissionType
    <2> QED
      BY <1>6, <2>1, <2>3, <2>4, <2>5, <2>6, <2>7 DEF By
  <1>7. CASE ByFactory
    <2>1. ASSUME NEW f \in Factories, NEW r \in PairRoots, RegisterFactoryRoot(f, r),
                 UNCHANGED <<quoteVars, laneVars, admissionVars>>
          PROVE  Typed'
      BY <1>2, <1>3, <1>4, <2>1, FactoryRootType
    <2>2. ASSUME NEW f \in Factories, NEW r \in OwnedRoots, NEW template \in Roots,
                 NEW rules \in Modules, NEW companion \in Modules, NEW copies \in SUBSET Modules,
                 RegisterOwnedRoot(f, r, template, rules, companion, copies)
          PROVE  Typed'
      <3>1. UNCHANGED timelockVars /\ UNCHANGED quoteVars
        BY <2>2 DEF RegisterOwnedRoot
      <3> QED
        BY <1>2, <1>5, <2>2, <3>1, OwnedRootType
    <2> QED
      BY <1>7, <2>1, <2>2 DEF ByFactory
  <1>8. CASE Environment
    <2>1. CASE Tick /\ UNCHANGED <<marketVars, quoteVars, laneVars, admissionVars>>
      <3>1. TimelockTypeOK(Operations)'
        BY <2>1, MaxTimeAssumption DEF Tick, TimelockTypeOK, roleVars
      <3> QED
        BY <1>1, <1>2, <1>3, <1>4, <2>1, <3>1
    <2>2. ASSUME NEW b \in Bonds, BondTurns(b), UNCHANGED <<quoteVars, laneVars>>
          PROVE  Typed'
      <3>1. AdmissionTypeOK' /\ TimelockTypeOK(Operations)'
        BY <2>2 DEF BondTurns, AdmissionTypeOK, TimelockTypeOK, roleVars
      <3> QED
        BY <1>1, <1>2, <1>3, <2>2, <3>1 DEF BondTurns
    <2> QED
      BY <1>8, <2>1, <2>2 DEF Environment
  <1>9. CASE UNCHANGED vars
    BY <1>1, <1>2, <1>3, <1>4, <1>5, <1>9 DEF vars
  <1> QED
    BY <1>6, <1>7, <1>8, <1>9 DEF Next

\* Every state the registry reaches is well typed.
THEOREM TypeCorrect == Spec => []TypeOK
  <1>1. Typed => TypeOK
    BY DEF Typed
  <1> QED
    BY <1>1, InitTyped, StepTyped, PTL DEF Spec

\* The catalog, the quote classes and the settlement set never fall out of step
\* with their position indexes, and the settlement set never outgrows its cap.
THEOREM IndexesStayInStep == Spec => []IndexesAgree
  <1>1. Typed => IndexesAgree
    BY DEF Typed
  <1> QED
    BY <1>1, InitTyped, StepTyped, PTL DEF Spec

-----------------------------------------------------------------------------
(* The brakes without a timestamp.  A step of the registry is, for them, one *)
(* of four: it announces, it lifts one, it brakes one, or it is quiet.       *)

\* The four kinds of untimed brake, with the lift of each.
LEMMA SwitchForms ==
  ASSUME NEW s \in UntimedSwitches
  PROVE  \/ s = <<Markets>> /\ LiftOf(s) = <<"RESUME_NEW_MARKETS">>
         \/ \E l \in Launchers : s = <<"launcher", l>> /\ LiftOf(s) = <<"SET_LAUNCHER", l, TRUE>>
         \/ \E f \in Factories : s = <<"factory", f>> /\ LiftOf(s) = <<"SET_ROOT_FACTORY", f, TRUE>>
         \/ \E r \in Roots : s = <<"root", r>> /\ LiftOf(s) = <<"REOPEN_ROOT", r>>
  <1>1. CASE s = <<Markets>>
    BY <1>1 DEF LiftOf, Markets
  <1>2. ASSUME NEW l \in Launchers, s = <<"launcher", l>>
        PROVE  LiftOf(s) = <<"SET_LAUNCHER", l, TRUE>>
    BY <1>2 DEF LiftOf, Markets
  <1>3. ASSUME NEW f \in Factories, s = <<"factory", f>>
        PROVE  LiftOf(s) = <<"SET_ROOT_FACTORY", f, TRUE>>
    BY <1>3 DEF LiftOf, Markets
  <1>4. ASSUME NEW r \in Roots, s = <<"root", r>>
        PROVE  LiftOf(s) = <<"REOPEN_ROOT", r>>
    BY <1>4 DEF LiftOf, Markets
  <1> QED
    BY <1>1, <1>2, <1>3, <1>4 DEF UntimedSwitches

\* When each is withdrawn, before and after a step.
LEMMA SwitchWithdrawn ==
  /\ Withdrawn(<<Markets>>) <=> paused
  /\ Withdrawn(<<Markets>>)' <=> paused'
  /\ \A l \in Launchers : /\ Withdrawn(<<"launcher", l>>) <=> l \notin launchers
                          /\ Withdrawn(<<"launcher", l>>)' <=> l \notin launchers'
  /\ \A f \in Factories : /\ Withdrawn(<<"factory", f>>) <=> f \notin rootFactories
                          /\ Withdrawn(<<"factory", f>>)' <=> f \notin rootFactories'
  /\ \A r \in Roots : /\ Withdrawn(<<"root", r>>) <=> roots[r].closed
                      /\ Withdrawn(<<"root", r>>)' <=> roots'[r].closed
  BY DEF Withdrawn, Markets

\* What lifts an untimed switch is an operation the owner can queue.
LEMMA LiftIsOperation ==
  ASSUME NEW s \in UntimedSwitches
  PROVE  LiftOf(s) \in Operations
  <1>1. <<"RESUME_NEW_MARKETS">> \in MarketOperations
    BY DEF MarketOperations
  <1>2. ASSUME NEW l \in Launchers, NEW on \in BOOLEAN
        PROVE  <<"SET_LAUNCHER", l, on>> \in MarketOperations
    BY DEF MarketOperations
  <1>3. ASSUME NEW f \in Factories, NEW on \in BOOLEAN
        PROVE  <<"SET_ROOT_FACTORY", f, on>> \in MarketOperations
    BY DEF MarketOperations
  <1>4. ASSUME NEW r \in Roots
        PROVE  <<"REOPEN_ROOT", r>> \in MarketOperations
    BY DEF MarketOperations
  <1>5. LiftOf(s) \in MarketOperations
    BY <1>1, <1>2, <1>3, <1>4, SwitchForms
  <1> QED
    BY <1>5 DEF Operations

\* What names a lift: its kind, and its subject unless it is the global pause's.
LEMMA LiftParts ==
  ASSUME NEW s \in UntimedSwitches
  PROVE  \/ s = <<Markets>> /\ LiftOf(s)[1] = "RESUME_NEW_MARKETS"
         \/ s = <<"launcher", LiftOf(s)[2]>> /\ LiftOf(s)[1] = "SET_LAUNCHER"
         \/ s = <<"factory", LiftOf(s)[2]>> /\ LiftOf(s)[1] = "SET_ROOT_FACTORY"
         \/ s = <<"root", LiftOf(s)[2]>> /\ LiftOf(s)[1] = "REOPEN_ROOT"
  <1>1. CASE s = <<Markets>> /\ LiftOf(s) = <<"RESUME_NEW_MARKETS">>
    BY <1>1
  <1>2. ASSUME NEW l \in Launchers, s = <<"launcher", l>>, LiftOf(s) = <<"SET_LAUNCHER", l, TRUE>>
        PROVE  s = <<"launcher", LiftOf(s)[2]>> /\ LiftOf(s)[1] = "SET_LAUNCHER"
    BY <1>2
  <1>3. ASSUME NEW f \in Factories, s = <<"factory", f>>, LiftOf(s) = <<"SET_ROOT_FACTORY", f, TRUE>>
        PROVE  s = <<"factory", LiftOf(s)[2]>> /\ LiftOf(s)[1] = "SET_ROOT_FACTORY"
    BY <1>3
  <1>4. ASSUME NEW r \in Roots, s = <<"root", r>>, LiftOf(s) = <<"REOPEN_ROOT", r>>
        PROVE  s = <<"root", LiftOf(s)[2]>> /\ LiftOf(s)[1] = "REOPEN_ROOT"
    BY <1>4
  <1> QED
    BY <1>1, <1>2, <1>3, <1>4, SwitchForms, Zenon

\* No operation lifts two switches.
LEMMA LiftInjective ==
  ASSUME NEW s \in UntimedSwitches, NEW t \in UntimedSwitches, LiftOf(s) = LiftOf(t)
  PROVE  s = t
  BY LiftParts

Quiet ==
  /\ now' >= now
  /\ heldSince' = heldSince
  /\ \A s \in UntimedSwitches :
       /\ Withdrawn(s) => Withdrawn(s)'
       /\ readyAt'[LiftOf(s)] \in {readyAt[LiftOf(s)], 0}

Announcing ==
  \E op \in Operations :
    /\ \A s \in UntimedSwitches : LiftOf(s) = op => Withdrawn(s)
    /\ readyAt' = [readyAt EXCEPT ![op] = now + Delay]
    /\ UNCHANGED <<now, heldSince>>
    /\ \A s \in UntimedSwitches : Withdrawn(s) => Withdrawn(s)'

Lifting ==
  \E t \in UntimedSwitches :
    /\ readyAt[LiftOf(t)] # 0
    /\ now >= readyAt[LiftOf(t)]
    /\ readyAt' = [readyAt EXCEPT ![LiftOf(t)] = 0]
    /\ UNCHANGED <<now, heldSince>>
    /\ \A s \in UntimedSwitches \ {t} : Withdrawn(s) => Withdrawn(s)'

Braking ==
  \E t \in UntimedSwitches :
    /\ ~Withdrawn(t)
    /\ Withdrawn(t)'
    /\ heldSince' = [heldSince EXCEPT ![t] = now]
    /\ UNCHANGED <<now, readyAt>>
    /\ \A s \in UntimedSwitches : Withdrawn(s) => Withdrawn(s)'

\* The strengthening: UntimedBrakesHold alone is not inductive, since it says
\* nothing of the operations that wait, and NoLiftAheadOfBrake needs to know
\* that no brake lies in the future and that only a registered root is closed.
BrakeInvariant ==
  /\ Typed
  /\ NoLiftAheadOfBrake
  /\ UntimedBrakesHold
  /\ \A s \in UntimedSwitches : heldSince[s] <= now
  /\ \A r \in Roots : roots[r].closed => roots[r].registered

HeldAfter ==
  /\ NoLiftAheadOfBrake
  /\ UntimedBrakesHold
  /\ \A s \in UntimedSwitches : heldSince[s] <= now

\* Each of the four preserves what the invariant says of the brakes.
LEMMA BrakesPreserved ==
  ASSUME BrakeInvariant, Typed', Quiet \/ Announcing \/ Lifting \/ Braking
  PROVE  HeldAfter'
  <1>1. /\ now \in Nat /\ now' \in Nat /\ Delay \in Nat \ {0}
        /\ \A s \in UntimedSwitches : heldSince[s] \in Nat /\ heldSince'[s] \in Nat
        /\ \A op \in Operations : readyAt[op] \in Nat /\ readyAt'[op] \in Nat
        /\ DOMAIN readyAt = Operations /\ DOMAIN heldSince = UntimedSwitches
    BY MaxTimeAssumption, DelayAssumption DEF BrakeInvariant, Typed, TypeOK, TimelockTypeOK, MarketTypeOK
  <1>2. \A s \in UntimedSwitches :
          /\ readyAt[LiftOf(s)] # 0 => Withdrawn(s) /\ readyAt[LiftOf(s)] >= heldSince[s] + Delay
          /\ heldSince[s] # 0 /\ now < heldSince[s] + Delay => Withdrawn(s)
          /\ heldSince[s] <= now
    BY DEF BrakeInvariant, NoLiftAheadOfBrake, UntimedBrakesHold
  <1> SUFFICES ASSUME NEW s \in UntimedSwitches
               PROVE  /\ readyAt'[LiftOf(s)] # 0 =>
                            Withdrawn(s)' /\ readyAt'[LiftOf(s)] >= heldSince'[s] + Delay
                      /\ heldSince'[s] # 0 /\ now' < heldSince'[s] + Delay => Withdrawn(s)'
                      /\ heldSince'[s] <= now'
    BY DEF HeldAfter, NoLiftAheadOfBrake, UntimedBrakesHold
  <1>3. LiftOf(s) \in Operations
    BY LiftIsOperation
  <1>4. CASE Quiet
    BY <1>1, <1>2, <1>3, <1>4 DEF Quiet
  <1>5. CASE Announcing
    <2> PICK op \in Operations :
          /\ \A t \in UntimedSwitches : LiftOf(t) = op => Withdrawn(t)
          /\ readyAt' = [readyAt EXCEPT ![op] = now + Delay]
          /\ UNCHANGED <<now, heldSince>>
          /\ \A t \in UntimedSwitches : Withdrawn(t) => Withdrawn(t)'
      BY <1>5 DEF Announcing
    <2>1. CASE LiftOf(s) = op
      BY <1>1, <1>2, <1>3, <2>1
    <2>2. CASE LiftOf(s) # op
      BY <1>1, <1>2, <1>3, <2>2
    <2> QED
      BY <2>1, <2>2
  <1>6. CASE Lifting
    <2> PICK t \in UntimedSwitches :
          /\ readyAt[LiftOf(t)] # 0
          /\ now >= readyAt[LiftOf(t)]
          /\ readyAt' = [readyAt EXCEPT ![LiftOf(t)] = 0]
          /\ UNCHANGED <<now, heldSince>>
          /\ \A u \in UntimedSwitches \ {t} : Withdrawn(u) => Withdrawn(u)'
      BY <1>6 DEF Lifting
    <2>1. CASE s = t
      <3>1. readyAt'[LiftOf(s)] = 0
        BY <1>1, <1>3, <2>1
      <3>2. now >= heldSince[s] + Delay
        BY <1>1, <1>2, <1>3, <2>1
      <3> QED
        BY <1>1, <1>2, <3>1, <3>2
    <2>2. CASE s # t
      <3>1. readyAt'[LiftOf(s)] = readyAt[LiftOf(s)]
        BY <1>1, <1>3, <2>2, LiftInjective
      <3> QED
        BY <1>1, <1>2, <2>2, <3>1
    <2> QED
      BY <2>1, <2>2
  <1>7. CASE Braking
    <2> PICK t \in UntimedSwitches :
          /\ ~Withdrawn(t)
          /\ Withdrawn(t)'
          /\ heldSince' = [heldSince EXCEPT ![t] = now]
          /\ UNCHANGED <<now, readyAt>>
          /\ \A u \in UntimedSwitches : Withdrawn(u) => Withdrawn(u)'
      BY <1>7 DEF Braking
    <2>1. CASE s = t
      BY <1>1, <1>2, <1>3, <2>1
    <2>2. CASE s # t
      BY <1>1, <1>2, <1>3, <2>2
    <2> QED
      BY <2>1, <2>2
  <1> QED
    BY <1>4, <1>5, <1>6, <1>7

Lowered == \A op \in Operations : readyAt'[op] \in {readyAt[op], 0}

Kept ==
  /\ paused => paused'
  /\ launchers' \subseteq launchers
  /\ rootFactories' \subseteq rootFactories
  /\ \A r \in Roots : roots[r].closed => roots'[r].closed

\* A step that keeps the permissions withdrawn keeps each switch withdrawn.
LEMMA KeptWithdrawn ==
  ASSUME Kept, NEW s \in UntimedSwitches, Withdrawn(s)
  PROVE  Withdrawn(s)'
  BY SwitchForms, SwitchWithdrawn DEF Kept

\* A step that moves no untimed switch and announces none is quiet.
LEMMA KeptQuiet ==
  ASSUME Kept, Lowered, now' >= now, heldSince' = heldSince
  PROVE  Quiet
  BY KeptWithdrawn, LiftIsOperation DEF Quiet, Lowered

\* Consuming or cancelling only lowers ready times.
LEMMA ConsumeLowers ==
  ASSUME Typed, NEW op, NEW brakeAt, ConsumeAfter(op, brakeAt)
  PROVE  Lowered
  BY DEF ConsumeAfter, Lowered, Typed, TypeOK, TimelockTypeOK

\* A step that leaves the markets alone, and announces nothing, is quiet.
LEMMA ElsewhereQuiet ==
  ASSUME Typed, UNCHANGED <<now, marketVars>>, Lowered
  PROVE  Quiet
  <1>1. Kept
    BY DEF Kept, marketVars
  <1>2. now' >= now
    BY ClockType DEF Typed, TypeOK, TimelockTypeOK
  <1> QED
    BY <1>1, <1>2, KeptQuiet DEF marketVars

\* checkQueued lets a lift be queued only while its brake holds.
LEMMA QueueAnnounces ==
  ASSUME Typed, NEW caller \in Accounts, NEW op \in Operations, Queue(caller, op)
  PROVE  Announcing
  <1>1. CheckMarketOperation(op)
    BY DEF Queue, CheckQueued
  <1>2. ASSUME NEW s \in UntimedSwitches, LiftOf(s) = op
        PROVE  Withdrawn(s)
    <2>1. CASE s = <<Markets>> /\ op = <<"RESUME_NEW_MARKETS">>
      <3>1. paused
        BY <1>1, <2>1 DEF CheckMarketOperation
      <3> QED
        BY <2>1, <3>1, SwitchWithdrawn
    <2>2. ASSUME NEW l \in Launchers, s = <<"launcher", l>>, op = <<"SET_LAUNCHER", l, TRUE>>
          PROVE  Withdrawn(s)
      <3>1. l \notin launchers
        BY <1>1, <2>2 DEF CheckMarketOperation, CheckAdmitLauncher
      <3> QED
        BY <2>2, <3>1, SwitchWithdrawn
    <2>3. ASSUME NEW f \in Factories, s = <<"factory", f>>, op = <<"SET_ROOT_FACTORY", f, TRUE>>
          PROVE  Withdrawn(s)
      <3>1. f \notin rootFactories
        BY <1>1, <2>3 DEF CheckMarketOperation, CheckRootFactory
      <3> QED
        BY <2>3, <3>1, SwitchWithdrawn
    <2>4. ASSUME NEW r \in Roots, s = <<"root", r>>, op = <<"REOPEN_ROOT", r>>
          PROVE  Withdrawn(s)
      <3>1. roots[r].closed
        BY <1>1, <2>4 DEF CheckMarketOperation, CheckReopen
      <3> QED
        BY <2>4, <3>1, SwitchWithdrawn
    <2> QED
      BY <1>2, <2>1, <2>2, <2>3, <2>4, SwitchForms
  <1>3. Kept
    BY DEF Queue, Kept, marketVars
  <1> QED
    BY <1>2, <1>3, KeptWithdrawn DEF Announcing, Queue, Announce, marketVars

Registration == \A r \in Roots : roots[r].closed => roots[r].registered

\* What one account does to the markets lifts one switch, brakes one or is quiet.
LEMMA MarketBrakes ==
  ASSUME Typed, Registration, NEW caller \in Accounts, MarketAction(caller)
  PROVE  (Quiet \/ Lifting \/ Braking) /\ Registration'
  <1> USE DEF Registration
  <1> DEFINE Goal == (Quiet \/ Lifting \/ Braking) /\ Registration'
  <1>1. now \in Nat /\ roots \in [Roots -> RootState] /\ heldSince \in [UntimedSwitches -> Nat]
    BY ClockType DEF Typed, TypeOK, TimelockTypeOK, MarketTypeOK
  <1>2. /\ <<Markets>> \in UntimedSwitches
        /\ \A l \in Launchers : <<"launcher", l>> \in UntimedSwitches
        /\ \A f \in Factories : <<"factory", f>> \in UntimedSwitches
        /\ \A r \in Roots : <<"root", r>> \in UntimedSwitches
    BY DEF UntimedSwitches
  <1>3. ASSUME Kept, Lowered, UNCHANGED <<now, heldSince>>, Registration'
        PROVE  Goal
    BY <1>1, <1>3, KeptQuiet
  <1>4. ASSUME NEW t \in UntimedSwitches, ~Withdrawn(t), Withdrawn(t)', Hold(t),
               UNCHANGED <<now, readyAt>>, Kept, Registration'
        PROVE  Goal
    BY <1>4, KeptWithdrawn DEF Braking, Hold
  <1>5. ASSUME NEW t \in UntimedSwitches, Consume(LiftOf(t)), UNCHANGED <<now, heldSince>>,
               \A s \in UntimedSwitches \ {t} : Withdrawn(s) => Withdrawn(s)', Registration'
        PROVE  Goal
    BY <1>5 DEF Lifting, Consume, ConsumeAfter
  <1>6. ASSUME NEW l \in Launchers, NEW on \in BOOLEAN, SetLauncher(caller, l, on)
        PROVE  Goal
    <2>1. Registration'
      BY <1>6 DEF SetLauncher
    <2>2. CASE on
      <3>1. LiftOf(<<"launcher", l>>) = <<"SET_LAUNCHER", l, on>>
        BY <2>2 DEF LiftOf, Markets
      <3>2. \A s \in UntimedSwitches \ {<<"launcher", l>>} : Withdrawn(s) => Withdrawn(s)'
        BY <1>6, SwitchForms, SwitchWithdrawn DEF SetLauncher
      <3> QED
        BY <1>2, <1>5, <1>6, <2>1, <3>1, <3>2 DEF SetLauncher
    <2>3. CASE ~on
      BY <1>3, <1>6, <2>1, <2>3, ConsumeLowers DEF SetLauncher, Consume, Kept
    <2> QED
      BY <2>2, <2>3
  <1>7. ASSUME NEW l \in Launchers, DeactivateLauncher(caller, l)
        PROVE  Goal
    <2>1. ~Withdrawn(<<"launcher", l>>) /\ Withdrawn(<<"launcher", l>>)'
      BY <1>7, <1>1, SwitchWithdrawn DEF DeactivateLauncher
    <2>2. Kept /\ Registration'
      BY <1>7, <1>1 DEF DeactivateLauncher, Kept
    <2> QED
      BY <1>7, <1>2, <1>4, <2>1, <2>2 DEF DeactivateLauncher
  <1>8. ASSUME NEW r \in Roots, RegisterRoot(caller, r)
        PROVE  Goal
    <2>1. ~roots[r].closed
      BY <1>1, <1>8 DEF RegisterRoot, CheckRoot, RootState
    <2>2. Kept /\ Registration'
      BY <1>1, <1>8, <2>1 DEF RegisterRoot, Kept, RootState, Unregistered
    <2> QED
      BY <1>3, <1>8, <2>2, ConsumeLowers DEF RegisterRoot, Consume
  <1>9. ASSUME NEW r \in Roots, RetireRoot(caller, r)
        PROVE  Goal
    <2>1. Kept /\ Registration'
      BY <1>1, <1>9 DEF RetireRoot, Kept, RootState
    <2> QED
      BY <1>3, <1>9, <2>1, ConsumeLowers DEF RetireRoot, Consume
  <1>10. ASSUME NEW r \in Roots, FreezeRoot(caller, r)
         PROVE  Goal
    <2>1. Kept /\ Registration'
      BY <1>1, <1>10 DEF FreezeRoot, Kept, RootState
    <2>2. Lowered
      BY <1>10 DEF FreezeRoot, Lowered
    <2> QED
      BY <1>3, <1>10, <2>1, <2>2 DEF FreezeRoot
  <1>11. ASSUME NEW r \in Roots, CloseRoot(caller, r)
        PROVE  Goal
    <2>1. ~Withdrawn(<<"root", r>>) /\ Withdrawn(<<"root", r>>)'
      BY <1>11, <1>1, SwitchWithdrawn DEF CloseRoot, RootState
    <2>2. Kept /\ Registration'
      BY <1>11, <1>1 DEF CloseRoot, Kept, RootState
    <2> QED
      BY <1>11, <1>2, <1>4, <2>1, <2>2 DEF CloseRoot
  <1>12. ASSUME NEW r \in Roots, ReopenRoot(caller, r)
         PROVE  Goal
    <2>1. LiftOf(<<"root", r>>) = <<"REOPEN_ROOT", r>>
      BY DEF LiftOf, Markets
    <2>2. \A q \in Roots \ {r} : roots'[q] = roots[q]
      BY <1>1, <1>12 DEF ReopenRoot
    <2>3. \A s \in UntimedSwitches \ {<<"root", r>>} : Withdrawn(s) => Withdrawn(s)'
      BY <1>12, <2>2, SwitchForms, SwitchWithdrawn DEF ReopenRoot
    <2>4. Registration'
      BY <1>1, <1>12, <2>2 DEF ReopenRoot, RootState
    <2> QED
      BY <1>2, <1>5, <1>12, <2>1, <2>3, <2>4 DEF ReopenRoot
  <1>13. ASSUME NEW f \in Factories, NEW on \in BOOLEAN, SetRootFactory(caller, f, on)
         PROVE  Goal
    <2>1. Registration'
      BY <1>13 DEF SetRootFactory
    <2>2. CASE on
      <3>1. LiftOf(<<"factory", f>>) = <<"SET_ROOT_FACTORY", f, on>>
        BY <2>2 DEF LiftOf, Markets
      <3>2. \A s \in UntimedSwitches \ {<<"factory", f>>} : Withdrawn(s) => Withdrawn(s)'
        BY <1>13, SwitchForms, SwitchWithdrawn DEF SetRootFactory
      <3> QED
        BY <1>2, <1>5, <1>13, <2>1, <3>1, <3>2 DEF SetRootFactory
    <2>3. CASE ~on
      BY <1>3, <1>13, <2>1, <2>3, ConsumeLowers DEF SetRootFactory, Consume, Kept
    <2> QED
      BY <2>2, <2>3
  <1>14. ASSUME NEW f \in Factories, DeactivateRootFactory(caller, f)
        PROVE  Goal
    <2>1. ~Withdrawn(<<"factory", f>>) /\ Withdrawn(<<"factory", f>>)'
      BY <1>14, <1>1, SwitchWithdrawn DEF DeactivateRootFactory
    <2>2. Kept /\ Registration'
      BY <1>14, <1>1 DEF DeactivateRootFactory, Kept
    <2> QED
      BY <1>14, <1>2, <1>4, <2>1, <2>2 DEF DeactivateRootFactory
  <1>15. CASE PauseNewMarkets(caller)
    <2>1. ~Withdrawn(<<Markets>>) /\ Withdrawn(<<Markets>>)'
      BY <1>15, <1>1, SwitchWithdrawn DEF PauseNewMarkets
    <2>2. Kept /\ Registration'
      BY <1>15, <1>1 DEF PauseNewMarkets, Kept
    <2> QED
      BY <1>15, <1>2, <1>4, <2>1, <2>2 DEF PauseNewMarkets
  <1>16. CASE ResumeNewMarkets(caller)
    <2>1. LiftOf(<<Markets>>) = <<"RESUME_NEW_MARKETS">>
      BY DEF LiftOf, Markets
    <2>2. \A s \in UntimedSwitches \ {<<Markets>>} : Withdrawn(s) => Withdrawn(s)'
      BY <1>16, SwitchForms, SwitchWithdrawn DEF ResumeNewMarkets
    <2>3. Registration'
      BY <1>16 DEF ResumeNewMarkets
    <2> QED
      BY <1>2, <1>5, <1>16, <2>1, <2>2, <2>3 DEF ResumeNewMarkets
  <1>17. ASSUME NEW h \in Hooks, SetExternalHook(caller, h)
         PROVE  Goal
    BY <1>3, <1>17, ConsumeLowers DEF SetExternalHook, Kept
  <1>18. ASSUME NEW h \in Hooks, DropExternalHookRecord(caller, h)
         PROVE  Goal
    BY <1>3, <1>18 DEF DropExternalHookRecord, Kept, Lowered
  <1> QED
    BY <1>6, <1>7, <1>8, <1>9, <1>10, <1>11, <1>12, <1>13, <1>14, <1>15, <1>16, <1>17, <1>18
    DEF MarketAction

\* Only a registered root is ever closed, and every step is one of the four.
LEMMA StepBrakes ==
  ASSUME Typed, Registration, Next
  PROVE  (Quiet \/ Announcing \/ Lifting \/ Braking) /\ Registration'
  <1>1. UNCHANGED marketVars => Registration'
    BY DEF Registration, marketVars
  <1>2. ASSUME NEW caller \in Accounts, By(caller)
        PROVE  (Quiet \/ Announcing \/ Lifting \/ Braking) /\ Registration'
    <2>1. ASSUME NEW op \in Agenda, Queue(caller, op)
          PROVE  Announcing /\ Registration'
      BY <1>1, <2>1, QueueAnnounces, AgendaAssumption DEF Queue
    <2>2. ASSUME NEW op \in Operations, Cancel(caller, op)
          PROVE  UNCHANGED now /\ Lowered
      BY <2>2 DEF Cancel, Lowered, Typed, TypeOK, TimelockTypeOK
    <2>3. ASSUME Governance(caller)
          PROVE  UNCHANGED now /\ Lowered
      <3>1. ASSUME NEW next \in Accounts \cup {NoOne},
                   TransferOwnership(caller, next) \/ SetGuardian(caller, next)
            PROVE  UNCHANGED now /\ Lowered
        BY <3>1, ConsumeLowers DEF TransferOwnership, SetGuardian, Consume
      <3>2. CASE CancelOwnershipTransfer(caller) \/ AcceptOwnership(caller) \/ RemoveGuardian(caller)
        BY <3>2 DEF CancelOwnershipTransfer, AcceptOwnership, RemoveGuardian, Lowered
      <3> QED
        BY <2>3, <3>1, <3>2 DEF Governance
    <2>4. CASE /\ (\E op \in Operations : Cancel(caller, op)) \/ Governance(caller)
               /\ UNCHANGED <<marketVars, quoteVars, laneVars, admissionVars>>
      BY <1>1, <2>2, <2>3, <2>4, ElsewhereQuiet
    <2>5. CASE MarketAction(caller)
      BY <2>5, MarketBrakes
    <2>6. CASE QuoteAction(caller) /\ UNCHANGED <<marketVars, laneVars, admissionVars>>
      <3>1. UNCHANGED now /\ Lowered
        BY <2>6, ConsumeLowers
        DEF QuoteAction, SetQuote, BrakeOneQuote, ReopenSingleQuote, InstallQuoteClass, DropQuoteClass,
            AuthorizeAnyQuote, DismissAnyQuote, AddSettlementCurrency, RemoveSettlementCurrency, Lowered
      <3> QED
        BY <1>1, <2>6, <3>1, ElsewhereQuiet
    <2>7. ASSUME NEW r \in Roots, NEW e \in Executors, NEW g \in GasCaps,
                 CloseLane(caller, r) \/ StopExecutor(caller, r, e) \/ OpenLane(caller, r, e, g)
                   \/ TuneExecutor(caller, r, e, g) \/ StartExecutor(caller, r, e, g)
          PROVE  UNCHANGED <<now, marketVars>> /\ Lowered
      BY <2>7, ConsumeLowers DEF CloseLane, StopExecutor, OpenLane, TuneExecutor, StartExecutor, Lowered
    <2>8. CASE LaneAction(caller)
      <3>1. ASSUME NEW r \in Roots, CloseLane(caller, r)
            PROVE  UNCHANGED <<now, marketVars>> /\ Lowered
        BY <3>1 DEF CloseLane, Lowered
      <3>2. ASSUME NEW r \in Roots, NEW e \in Executors, StopExecutor(caller, r, e)
            PROVE  UNCHANGED <<now, marketVars>> /\ Lowered
        BY <3>2 DEF StopExecutor, Lowered
      <3> QED
        BY <1>1, <2>7, <2>8, <3>1, <3>2, ElsewhereQuiet DEF LaneAction
    <2>9. CASE AdmissionAction(caller)
      <3>1. ASSUME NEW s \in Scopes, NEW ms \in SUBSET Modules, Revoke(s, ms)
            PROVE  UNCHANGED <<now, marketVars>> /\ Lowered
        BY <3>1 DEF Revoke, Lowered
      <3>2. ASSUME NEW s \in Scopes, NEW m \in Modules, NEW k \in Kinds, Admit(caller, s, m, k)
            PROVE  UNCHANGED <<now, marketVars>> /\ Lowered
        BY <3>2, ConsumeLowers DEF Admit, Consume
      <3>3. ASSUME NEW s \in Scopes, NEW m \in Modules, NEW b \in Bonds, PinModuleBond(caller, s, m, b)
            PROVE  UNCHANGED <<now, marketVars>> /\ Lowered
        BY <3>3, ConsumeLowers DEF PinModuleBond, Consume
      <3>4. ASSUME NEW s \in Scopes, NEW ms \in SUBSET Modules, RevokeFactoryAdmissions(caller, s, ms)
            PROVE  UNCHANGED <<now, marketVars>> /\ Lowered
        BY <3>1, <3>4 DEF RevokeFactoryAdmissions
      <3>5. ASSUME NEW s \in Scopes, NEW m \in Modules, RevokeModuleAdmission(caller, s, m)
            PROVE  UNCHANGED <<now, marketVars>> /\ Lowered
        <4>1. Revoke(s, {m})
          BY <3>5 DEF RevokeModuleAdmission
        <4> QED
          BY <3>1, <4>1
      <3> QED
        BY <1>1, <2>9, <3>2, <3>3, <3>4, <3>5, ElsewhereQuiet DEF AdmissionAction
    <2> QED
      BY <1>2, <2>1, <2>4, <2>5, <2>6, <2>8, <2>9 DEF By
  <1>3. now \in Nat /\ roots \in [Roots -> RootState]
    BY ClockType DEF Typed, TypeOK, TimelockTypeOK, MarketTypeOK
  <1>4. ASSUME NEW r \in Roots, ~roots[r].registered, NEW root \in RootState, root.registered,
               roots' = [roots EXCEPT ![r] = root], readyAt' = readyAt, now' = now,
               paused' = paused, launchers' = launchers, rootFactories' = rootFactories,
               heldSince' = heldSince
        PROVE  Quiet /\ Registration'
    <2>1. ~roots[r].closed
      BY <1>4 DEF Registration
    <2>2. Kept /\ Registration'
      BY <1>3, <1>4, <2>1 DEF Kept, Registration
    <2>3. Lowered
      BY <1>4 DEF Lowered
    <2> QED
      BY <1>3, <1>4, <2>2, <2>3, KeptQuiet
  <1>5. CASE ByFactory
    <2>1. ASSUME NEW f \in Factories, NEW r \in PairRoots, RegisterFactoryRoot(f, r)
          PROVE  Quiet /\ Registration'
      <3>1. [Unregistered EXCEPT !.registered = TRUE, !.active = TRUE, !.factory = f] \in RootState
        BY DEF Unregistered, RootState
      <3>2. [Unregistered EXCEPT !.registered = TRUE, !.active = TRUE, !.factory = f].registered
        BY DEF Unregistered
      <3> QED
        BY <1>4, <2>1, <3>1, <3>2 DEF RegisterFactoryRoot, Roots
    <2>2. ASSUME NEW f \in Factories, NEW r \in OwnedRoots, NEW template \in Roots,
                 NEW rules \in Modules, NEW companion \in Modules, NEW copies \in SUBSET Modules,
                 RegisterOwnedRoot(f, r, template, rules, companion, copies)
          PROVE  Quiet /\ Registration'
      <3>1. [Unregistered EXCEPT !.registered = TRUE, !.active = TRUE, !.frozen = TRUE] \in RootState
        BY DEF Unregistered, RootState
      <3>2. [Unregistered EXCEPT !.registered = TRUE, !.active = TRUE, !.frozen = TRUE].registered
        BY DEF Unregistered
      <3> QED
        BY <1>4, <2>2, <3>1, <3>2 DEF RegisterOwnedRoot, Roots, timelockVars
    <2> QED
      BY <1>5, <2>1, <2>2 DEF ByFactory
  <1>6. CASE Environment
    <2>1. CASE Tick /\ UNCHANGED <<marketVars, quoteVars, laneVars, admissionVars>>
      <3>1. Kept /\ Lowered /\ now' >= now /\ heldSince' = heldSince
        BY <1>3, <2>1 DEF Tick, Kept, Lowered, marketVars
      <3> QED
        BY <1>1, <2>1, <3>1, KeptQuiet
    <2>2. ASSUME NEW b \in Bonds, BondTurns(b)
          PROVE  Quiet /\ Registration'
      <3>1. UNCHANGED <<now, marketVars>> /\ Lowered
        BY <2>2 DEF BondTurns, Lowered
      <3> QED
        BY <1>1, <3>1, ElsewhereQuiet
    <2> QED
      BY <1>6, <2>1, <2>2 DEF Environment
  <1> QED
    BY <1>2, <1>5, <1>6 DEF Next

\* The strengthening holds in every reachable state.
LEMMA BrakeInvariantHolds == Spec => []BrakeInvariant
  <1>1. Init => BrakeInvariant
    <2> SUFFICES ASSUME Init
                 PROVE  BrakeInvariant
      OBVIOUS
    <2>1. Typed
      BY InitTyped
    <2>2. \A s \in UntimedSwitches : heldSince[s] = 0 /\ readyAt[LiftOf(s)] = 0
      BY LiftIsOperation DEF Init, TimelockInit, MarketInit
    <2>3. now = 1 /\ \A r \in Roots : ~roots[r].closed
      BY DEF Init, TimelockInit, MarketInit, Unregistered
    <2> QED
      BY <2>1, <2>2, <2>3 DEF BrakeInvariant, NoLiftAheadOfBrake, UntimedBrakesHold
  <1>2. BrakeInvariant /\ [Next]_vars => BrakeInvariant'
    <2> SUFFICES ASSUME BrakeInvariant, [Next]_vars
                 PROVE  BrakeInvariant'
      OBVIOUS
    <2>1. Typed /\ Typed'
      BY StepTyped DEF BrakeInvariant
    <2>2. CASE Next
      <3>1. (Quiet \/ Announcing \/ Lifting \/ Braking) /\ Registration'
        BY <2>1, <2>2, StepBrakes DEF BrakeInvariant, Registration
      <3>2. HeldAfter'
        BY <2>1, <3>1, BrakesPreserved
      <3> QED
        BY <2>1, <3>1, <3>2 DEF BrakeInvariant, HeldAfter, Registration
    <2>3. CASE UNCHANGED vars
      <3>1. Quiet
        <4>1. UNCHANGED <<now, marketVars>> /\ Lowered
          BY <2>3 DEF vars, timelockVars, Lowered
        <4> QED
          BY <2>1, <4>1, ElsewhereQuiet
      <3>2. HeldAfter' /\ Registration'
        BY <2>1, <2>3, <3>1, BrakesPreserved DEF BrakeInvariant, Registration, vars, marketVars
      <3> QED
        BY <2>1, <3>2 DEF BrakeInvariant, HeldAfter, Registration
    <2> QED
      BY <2>2, <2>3
  <1> QED
    BY <1>1, <1>2, PTL DEF Spec

\* No operation that undoes pauseNewMarkets, deactivateLauncher,
\* deactivateRootFactory or closeRoot ever waits while the permission is in
\* force: the checks of queue() leave no such sequence of calls.
THEOREM NoLiftWaits == Spec => []NoLiftAheadOfBrake
  <1>1. BrakeInvariant => NoLiftAheadOfBrake
    BY DEF BrakeInvariant
  <1> QED
    BY <1>1, BrakeInvariantHolds, PTL

\* Each of the four brakes that leave no timestamp holds for a full delay.
THEOREM BrakesHoldFullDelay == Spec => []UntimedBrakesHold
  <1>1. BrakeInvariant => UntimedBrakesHold
    BY DEF BrakeInvariant
  <1> QED
    BY <1>1, BrakeInvariantHolds, PTL

-----------------------------------------------------------------------------
(* Roots and admissions.  For them a step of the registry admits, revokes,   *)
(* attaches a bond, registers an owned root, or touches no admission.        *)

\* A root that was never registered holds nothing.
Pristine(r) ==
  /\ ~roots[r].active
  /\ ~roots[r].frozen
  /\ \A m \in Modules : admissions[r][m] = None /\ bondOf[r][m] = NoOne /\ <<r, m>> \notin revoked

\* The strengthening: that an admission never returns needs a revoked pair to
\* be empty, and registering a root to overwrite nothing; that the guardian
\* takes nothing from a frozen root's parts needs a Rules module to admit
\* nothing but Rules.
AdmissionInvariant ==
  /\ Typed
  /\ LaneClosed
  /\ \A r \in Roots : ~roots[r].registered => Pristine(r)
  /\ \A s \in Scopes, m \in Modules : <<s, m>> \in revoked => admissions[s][m] = None
  /\ \A p, m \in Modules : admissions[p][m] \in {None, Rules}

\* A root's registration and its freeze are for good, and nothing but its
\* registration writes to a root that was never registered.
RootsAdvance ==
  \A r \in Roots :
    /\ roots[r].registered => roots'[r].registered
    /\ roots[r].frozen => roots'[r].frozen
    /\ ~roots'[r].registered => roots'[r] = roots[r]

\* Writing one root so that it stays registered, and as frozen as it was.
LEMMA OneRootAdvances ==
  ASSUME Typed, NEW r \in Roots, NEW root, root.registered, roots[r].frozen => root.frozen,
         roots' = [roots EXCEPT ![r] = root]
  PROVE  RootsAdvance
  BY DEF RootsAdvance, Typed, TypeOK, MarketTypeOK

\* What one account does to the markets advances the roots.
LEMMA MarketRoots ==
  ASSUME Typed, \A r \in Roots : ~roots[r].registered => ~roots[r].active /\ ~roots[r].frozen,
         NEW caller \in Accounts, MarketAction(caller)
  PROVE  RootsAdvance
  <1>1. roots \in [Roots -> RootState]
    BY DEF Typed, TypeOK, MarketTypeOK
  <1>2. UNCHANGED roots => RootsAdvance
    BY DEF RootsAdvance
  <1>3. ASSUME NEW r \in Roots, RegisterRoot(caller, r)
        PROVE  RootsAdvance
    <2>1. ~roots[r].registered
      BY <1>3 DEF RegisterRoot, CheckRoot
    <2> DEFINE root == [Unregistered EXCEPT !.registered = TRUE, !.active = TRUE]
    <2>2. root.registered /\ roots' = [roots EXCEPT ![r] = root]
      BY <1>3 DEF RegisterRoot, Unregistered
    <2> HIDE DEF root
    <2> QED
      BY <2>1, <2>2, OneRootAdvances
  <1>4. ASSUME NEW r \in Roots, RetireRoot(caller, r)
        PROVE  RootsAdvance
    BY <1>1, <1>4 DEF RetireRoot, RootsAdvance, RootState
  <1>5. ASSUME NEW r \in Roots, FreezeRoot(caller, r)
        PROVE  RootsAdvance
    BY <1>1, <1>5 DEF FreezeRoot, RootsAdvance, RootState
  <1>6. ASSUME NEW r \in Roots, CloseRoot(caller, r)
        PROVE  RootsAdvance
    BY <1>1, <1>6 DEF CloseRoot, RootsAdvance, RootState
  <1>7. ASSUME NEW r \in Roots, ReopenRoot(caller, r)
        PROVE  RootsAdvance
    <2>1. roots[r].registered
      BY <1>7 DEF ReopenRoot, CheckReopen
    <2> QED
      BY <1>1, <1>7, <2>1 DEF ReopenRoot, RootsAdvance, RootState
  <1>8. ASSUME NEW l \in Launchers, NEW on \in BOOLEAN,
               SetLauncher(caller, l, on) \/ DeactivateLauncher(caller, l)
        PROVE  UNCHANGED roots
    BY <1>8 DEF SetLauncher, DeactivateLauncher
  <1>9. ASSUME NEW f \in Factories, NEW on \in BOOLEAN,
               SetRootFactory(caller, f, on) \/ DeactivateRootFactory(caller, f)
        PROVE  UNCHANGED roots
    BY <1>9 DEF SetRootFactory, DeactivateRootFactory
  <1>10. ASSUME NEW h \in Hooks, SetExternalHook(caller, h) \/ DropExternalHookRecord(caller, h)
         PROVE  UNCHANGED roots
    BY <1>10 DEF SetExternalHook, DropExternalHookRecord
  <1>11. CASE PauseNewMarkets(caller) \/ ResumeNewMarkets(caller)
    BY <1>2, <1>11 DEF PauseNewMarkets, ResumeNewMarkets
  <1> QED
    BY <1>2, <1>3, <1>4, <1>5, <1>6, <1>7, <1>8, <1>9, <1>10, <1>11 DEF MarketAction

\* Which operations write admissions, revocations or bonds.
AdmissionsQuiet == UNCHANGED <<admissions, revoked, bondOf>> /\ RootsAdvance

Admitting ==
  \E s \in Scopes, m \in Modules, k \in Kinds :
    /\ CheckAdmission(s, m, k)
    /\ admissions' = [admissions EXCEPT ![s][m] = k]
    /\ UNCHANGED <<roots, revoked, bondOf>>

Revoking ==
  \E s \in Scopes, ms \in SUBSET Modules : Revoke(s, ms)

Bonding ==
  \E s \in Scopes, m \in Modules, b \in Bonds :
    /\ admissions[s][m] # None
    /\ bondOf[s][m] = NoOne
    /\ bondOf' = [bondOf EXCEPT ![s][m] = b]
    /\ UNCHANGED <<roots, admissions, revoked>>

Owning ==
  \E f \in Factories, r \in OwnedRoots, template \in Roots, rules, companion \in Modules :
    \E copies \in SUBSET Modules : RegisterOwnedRoot(f, r, template, rules, companion, copies)

\* What one account does to the admissions is one of the three.
LEMMA AdmissionMoves ==
  ASSUME NEW caller \in Accounts, AdmissionAction(caller)
  PROVE  Admitting \/ Revoking \/ Bonding
  <1>1. ASSUME NEW s \in Scopes, NEW m \in Modules, NEW k \in Kinds, Admit(caller, s, m, k)
        PROVE  Admitting
    BY <1>1 DEF Admit, Admitting, marketVars
  <1>2. ASSUME NEW s \in Scopes, NEW ms \in SUBSET Modules, RevokeFactoryAdmissions(caller, s, ms)
        PROVE  Revoking
    BY <1>2 DEF RevokeFactoryAdmissions, Revoking
  <1>3. ASSUME NEW s \in Scopes, NEW m \in Modules, RevokeModuleAdmission(caller, s, m)
        PROVE  Revoking
    <2>1. Revoke(s, {m}) /\ {m} \in SUBSET Modules
      BY <1>3 DEF RevokeModuleAdmission
    <2> QED
      BY <2>1 DEF Revoking
  <1>4. ASSUME NEW s \in Scopes, NEW m \in Modules, NEW b \in Bonds, PinModuleBond(caller, s, m, b)
        PROVE  Bonding
    BY <1>4 DEF PinModuleBond, CheckBond, Bonding, marketVars
  <1> QED
    BY <1>1, <1>2, <1>3, <1>4 DEF AdmissionAction

\* What one account does to the lanes leaves the roots alone.
LEMMA LanesLeaveRoots ==
  ASSUME NEW caller \in Accounts, LaneAction(caller)
  PROVE  UNCHANGED <<now, roleVars, marketVars>>
  <1>1. ASSUME NEW r \in Roots, CloseLane(caller, r)
        PROVE  UNCHANGED <<now, roleVars, marketVars>>
    BY <1>1 DEF CloseLane
  <1>2. ASSUME NEW r \in Roots, NEW e \in Executors, StopExecutor(caller, r, e)
        PROVE  UNCHANGED <<now, roleVars, marketVars>>
    BY <1>2 DEF StopExecutor
  <1>3. ASSUME NEW r \in Roots, NEW e \in Executors, NEW g \in GasCaps,
               OpenLane(caller, r, e, g) \/ TuneExecutor(caller, r, e, g) \/ StartExecutor(caller, r, e, g)
        PROVE  UNCHANGED <<now, roleVars, marketVars>>
    BY <1>3 DEF OpenLane, TuneExecutor, StartExecutor
  <1> QED
    BY <1>1, <1>2, <1>3 DEF LaneAction

\* Every step of the registry is one of the five.
LEMMA StepAdmissions ==
  ASSUME Typed, \A r \in Roots : ~roots[r].registered => ~roots[r].active /\ ~roots[r].frozen, [Next]_vars
  PROVE  AdmissionsQuiet \/ Admitting \/ Revoking \/ Bonding \/ Owning
  <1>1. UNCHANGED <<marketVars, admissionVars>> => AdmissionsQuiet
    BY DEF AdmissionsQuiet, RootsAdvance, marketVars, admissionVars
  <1>2. ASSUME NEW caller \in Accounts, By(caller)
        PROVE  AdmissionsQuiet \/ Admitting \/ Revoking \/ Bonding
    <2>1. ASSUME NEW op \in Agenda, Queue(caller, op)
          PROVE  AdmissionsQuiet
      BY <1>1, <2>1 DEF Queue
    <2>2. CASE MarketAction(caller) /\ UNCHANGED <<quoteVars, laneVars, admissionVars>>
      BY <2>2, MarketRoots DEF AdmissionsQuiet, admissionVars
    <2>3. CASE LaneAction(caller) /\ UNCHANGED <<quoteVars, admissionVars>>
      BY <1>1, <2>3, LanesLeaveRoots
    <2> QED
      BY <1>1, <1>2, <2>1, <2>2, <2>3, AdmissionMoves DEF By
  <1>3. ASSUME NEW f \in Factories, NEW r \in PairRoots, RegisterFactoryRoot(f, r), UNCHANGED admissionVars
        PROVE  AdmissionsQuiet
    <2> DEFINE root == [Unregistered EXCEPT !.registered = TRUE, !.active = TRUE, !.factory = f]
    <2>1. r \in Roots /\ ~roots[r].registered /\ root.registered /\ roots' = [roots EXCEPT ![r] = root]
      BY <1>3 DEF RegisterFactoryRoot, Unregistered, Roots
    <2> HIDE DEF root
    <2> QED
      BY <1>3, <2>1, OneRootAdvances DEF AdmissionsQuiet, admissionVars
  <1>4. CASE ByFactory
    BY <1>3, <1>4 DEF ByFactory, Owning
  <1>5. CASE Environment
    <2>1. ASSUME NEW b \in Bonds, BondTurns(b)
          PROVE  AdmissionsQuiet
      BY <2>1 DEF BondTurns, AdmissionsQuiet, RootsAdvance, marketVars
    <2> QED
      BY <1>1, <1>5, <2>1 DEF Environment
  <1>6. CASE UNCHANGED vars
    BY <1>1, <1>6 DEF vars
  <1> QED
    BY <1>2, <1>4, <1>5, <1>6 DEF Next

\* An owned root's registration writes one root that held nothing, and only it.
LEMMA OwningWritesOne ==
  ASSUME AdmissionInvariant, NEW f \in Factories, NEW r \in OwnedRoots, NEW template \in Roots,
         NEW rules \in Modules, NEW companion \in Modules, NEW copies \in SUBSET Modules,
         RegisterOwnedRoot(f, r, template, rules, companion, copies)
  PROVE  /\ r \in Roots /\ r \in Scopes /\ ~roots[r].registered /\ Pristine(r)
         /\ roots'[r].registered /\ \A q \in Roots \ {r} : roots'[q] = roots[q]
         /\ revoked' = revoked
         /\ \A s \in Scopes \ {r} : admissions'[s] = admissions[s] /\ bondOf'[s] = bondOf[s]
  <1>1. r \in Roots /\ r \in Scopes /\ ~roots[r].registered
    BY DEF RegisterOwnedRoot, Roots, Scopes
  <1>2. roots'[r].registered /\ \A q \in Roots \ {r} : roots'[q] = roots[q]
    BY <1>1 DEF RegisterOwnedRoot, AdmissionInvariant, Typed, TypeOK, MarketTypeOK, Unregistered
  <1>3. \A s \in Scopes \ {r} : admissions'[s] = admissions[s] /\ bondOf'[s] = bondOf[s]
    BY <1>1 DEF RegisterOwnedRoot, CopyAdmissions, AdmissionInvariant, Typed, TypeOK, AdmissionTypeOK
  <1> QED
    BY <1>1, <1>2, <1>3 DEF RegisterOwnedRoot, CopyAdmissions, AdmissionInvariant

\* What is frozen stays frozen, and nothing is admitted to a frozen root or to
\* the part scopes of its Rules modules.
NothingAdmittedWhenFrozen ==
  \A r \in Roots : roots[r].frozen =>
    /\ roots'[r].frozen
    /\ \A s \in {r} \cup {p \in Modules : TrustedRoot[p] = r}, m \in Modules :
         admissions[s][m] = None => admissions'[s][m] = None

AdmissionsSound ==
  /\ \A r \in Roots : ~roots[r].registered => Pristine(r)
  /\ \A s \in Scopes, m \in Modules : <<s, m>> \in revoked => admissions[s][m] = None
  /\ \A p, m \in Modules : admissions[p][m] \in {None, Rules}

\* Each of the five keeps the invariant, follows the life of an admission and
\* respects the freeze.
LEMMA AdmissionsPreserved ==
  ASSUME AdmissionInvariant, Typed', AdmissionsQuiet \/ Admitting \/ Revoking \/ Bonding \/ Owning
  PROVE  AdmissionsSound' /\ AdmissionStep /\ NothingAdmittedWhenFrozen
  <1>1. /\ admissions \in [Scopes -> [Modules -> {None, Rules, Advisory, Gate}]]
        /\ bondOf \in [Scopes -> [Modules -> Bonds \cup {NoOne}]]
        /\ revoked \subseteq Scopes \X Modules
        /\ Roots \subseteq Scopes /\ Modules \subseteq Scopes /\ rootFactories \subseteq Factories
    BY DEF AdmissionInvariant, Typed, TypeOK, AdmissionTypeOK, MarketTypeOK, Scopes
  <1>2. AdmissionsSound
    BY DEF AdmissionInvariant, AdmissionsSound
  <1>3. CASE AdmissionsQuiet
    BY <1>1, <1>2, <1>3
    DEF AdmissionsQuiet, RootsAdvance, AdmissionsSound, Pristine, AdmissionStep, NothingAdmittedWhenFrozen
  <1>4. CASE Admitting
    <2> PICK s \in Scopes, m \in Modules, k \in Kinds :
          /\ CheckAdmission(s, m, k)
          /\ admissions' = [admissions EXCEPT ![s][m] = k]
          /\ UNCHANGED <<roots, revoked, bondOf>>
      BY <1>4 DEF Admitting
    <2>1. admissions[s][m] = None /\ <<s, m>> \notin revoked
      BY DEF CheckAdmission
    <2>2. admissions'[s][m] = k
      BY <1>1
    <2>3. \A t \in Scopes, n \in Modules : <<t, n>> # <<s, m>> => admissions'[t][n] = admissions[t][n]
      BY <1>1
    <2>4. s \in Roots => roots[s].active /\ ~roots[s].frozen
      BY <1>1, AdmissionAssumption DEF CheckAdmission, PartScopeRoot
    <2>5. s \in Modules => k = Rules /\ TrustedRoot[s] \in Roots /\ ~roots[TrustedRoot[s]].frozen
      BY <1>1, AdmissionAssumption DEF CheckAdmission, PartScopeRoot
    <2>6. AdmissionsSound'
      <3>1. \A r \in Roots : ~roots'[r].registered => Pristine(r)'
        BY <1>1, <1>2, <2>3, <2>4 DEF AdmissionsSound, Pristine
      <3>2. \A t \in Scopes, n \in Modules : <<t, n>> \in revoked' => admissions'[t][n] = None
        BY <1>2, <2>1, <2>3 DEF AdmissionsSound
      <3>3. \A p, n \in Modules : admissions'[p][n] \in {None, Rules}
        BY <1>1, <1>2, <2>2, <2>3, <2>5 DEF AdmissionsSound
      <3> QED
        BY <3>1, <3>2, <3>3 DEF AdmissionsSound
    <2>7. AdmissionStep
      BY <1>2, <2>1, <2>3 DEF AdmissionStep, AdmissionsSound
    <2>8. NothingAdmittedWhenFrozen
      BY <1>1, <2>3, <2>4, <2>5, AdmissionAssumption DEF NothingAdmittedWhenFrozen
    <2> QED
      BY <2>6, <2>7, <2>8
  <1>5. CASE Revoking
    <2> PICK s \in Scopes, ms \in SUBSET Modules : Revoke(s, ms)
      BY <1>5 DEF Revoking
    <2>1. UNCHANGED <<roots, bondOf>> /\ revoked' = revoked \cup ({s} \X ms)
      BY DEF Revoke, marketVars
    <2>2. \A t \in Scopes, n \in Modules :
            admissions'[t][n] = IF t = s /\ n \in ms THEN None ELSE admissions[t][n]
      BY <1>1 DEF Revoke
    <2>3. \A n \in ms : admissions[s][n] # None
      BY DEF Revoke
    <2>4. \A t \in Scopes, n \in Modules :
            <<t, n>> \in revoked' <=> (<<t, n>> \in revoked \/ (t = s /\ n \in ms))
      BY <2>1
    <2>5. AdmissionsSound'
      <3>1. \A r \in Roots : ~roots'[r].registered => Pristine(r)'
        BY <1>1, <1>2, <2>1, <2>2, <2>3, <2>4 DEF AdmissionsSound, Pristine
      <3>2. \A t \in Scopes, n \in Modules : <<t, n>> \in revoked' => admissions'[t][n] = None
        BY <1>2, <2>2, <2>4 DEF AdmissionsSound
      <3>3. \A p, n \in Modules : admissions'[p][n] \in {None, Rules}
        BY <1>1, <1>2, <2>2 DEF AdmissionsSound
      <3> QED
        BY <3>1, <3>2, <3>3 DEF AdmissionsSound
    <2>6. AdmissionStep
      <3> SUFFICES ASSUME NEW t \in Scopes, NEW n \in Modules
                   PROVE  /\ admissions[t][n] # None =>
                               \/ admissions'[t][n] = admissions[t][n]
                               \/ admissions'[t][n] = None /\ <<t, n>> \in revoked'
                          /\ <<t, n>> \in revoked => admissions'[t][n] = None /\ <<t, n>> \in revoked'
                          /\ bondOf'[t][n] = bondOf[t][n]
        BY DEF AdmissionStep
      <3>1. CASE t = s /\ n \in ms
        BY <2>1, <2>2, <2>4, <3>1
      <3>2. CASE ~(t = s /\ n \in ms)
        BY <1>2, <2>1, <2>2, <2>4, <3>2 DEF AdmissionsSound
      <3> QED
        BY <3>1, <3>2
    <2>7. NothingAdmittedWhenFrozen
      BY <1>1, <2>1, <2>2 DEF NothingAdmittedWhenFrozen
    <2> QED
      BY <2>5, <2>6, <2>7
  <1>6. CASE Bonding
    <2> PICK s \in Scopes, m \in Modules, b \in Bonds :
          /\ admissions[s][m] # None
          /\ bondOf[s][m] = NoOne
          /\ bondOf' = [bondOf EXCEPT ![s][m] = b]
          /\ UNCHANGED <<roots, admissions, revoked>>
      BY <1>6 DEF Bonding
    <2>1. \A t \in Scopes, n \in Modules : <<t, n>> # <<s, m>> => bondOf'[t][n] = bondOf[t][n]
      BY <1>1
    <2>2. AdmissionsSound'
      BY <1>1, <1>2, <2>1 DEF AdmissionsSound, Pristine
    <2> QED
      BY <1>1, <1>2, <2>1, <2>2 DEF AdmissionStep, NothingAdmittedWhenFrozen, AdmissionsSound
  <1>7. CASE Owning
    <2> PICK f \in Factories, r \in OwnedRoots, template \in Roots, rules, companion \in Modules :
          \E copies \in SUBSET Modules : RegisterOwnedRoot(f, r, template, rules, companion, copies)
      BY <1>7 DEF Owning
    <2>1. /\ r \in Roots /\ r \in Scopes /\ ~roots[r].registered /\ Pristine(r)
          /\ roots'[r].registered /\ \A q \in Roots \ {r} : roots'[q] = roots[q]
          /\ revoked' = revoked
          /\ \A s \in Scopes \ {r} : admissions'[s] = admissions[s] /\ bondOf'[s] = bondOf[s]
      BY OwningWritesOne
    <2>2. r \notin Modules
      BY <2>1, AdmissionAssumption
    <2>3. AdmissionsSound'
      <3>1. \A q \in Roots : ~roots'[q].registered => Pristine(q)'
        BY <1>1, <1>2, <2>1 DEF AdmissionsSound, Pristine
      <3>2. \A t \in Scopes, n \in Modules : <<t, n>> \in revoked' => admissions'[t][n] = None
        BY <1>2, <2>1 DEF AdmissionsSound, Pristine
      <3>3. \A p, n \in Modules : admissions'[p][n] \in {None, Rules}
        BY <1>1, <1>2, <2>1, <2>2 DEF AdmissionsSound
      <3> QED
        BY <3>1, <3>2, <3>3 DEF AdmissionsSound
    <2>4. AdmissionStep
      <3>1. \A m \in Modules : admissions[r][m] = None /\ bondOf[r][m] = NoOne /\ <<r, m>> \notin revoked
        BY <2>1 DEF Pristine
      <3> SUFFICES ASSUME NEW s \in Scopes, NEW m \in Modules
                   PROVE  /\ admissions[s][m] # None => admissions'[s][m] = admissions[s][m]
                          /\ <<s, m>> \in revoked => admissions'[s][m] = None /\ <<s, m>> \in revoked'
                          /\ bondOf[s][m] # NoOne => bondOf'[s][m] = bondOf[s][m]
        BY DEF AdmissionStep
      <3>2. CASE s = r
        BY <3>1, <3>2
      <3>3. CASE s # r
        BY <1>2, <2>1, <3>3 DEF AdmissionsSound
      <3> QED
        BY <3>2, <3>3
    <2>5. NothingAdmittedWhenFrozen
      BY <1>1, <2>1, <2>2 DEF NothingAdmittedWhenFrozen, Pristine
    <2> QED
      BY <2>3, <2>4, <2>5
  <1> QED
    BY <1>3, <1>4, <1>5, <1>6, <1>7

-----------------------------------------------------------------------------
(* Lanes.                                                                    *)

\* Only an owned root's lane opens once the root is frozen.
FrozenLanesStayShut ==
  \A r \in Roots : roots[r].frozen /\ registrar[r] = NoOne =>
    lanes'[r].executor \in {lanes[r].executor, NoOne}

LaneGoals == ExecutorWidensByLift /\ LaneClosed' /\ FrozenLanesStayShut

\* The facts about types the lane lemmas use.
LaneTyped ==
  /\ now \in Nat /\ now # 0 /\ Delay \in Nat \ {0}
  /\ \A op \in Operations : readyAt[op] \in Nat
  /\ lanes \in [Roots -> LaneState]
  /\ switches \in [Roots -> [Executors -> SwitchState]]
  /\ \A g \in GasCaps : g \in Nat /\ g > 0

\* The lanes' part of the type.
LEMMA LanesAreTyped ==
  ASSUME Typed
  PROVE  LaneTyped /\ readyAt \in [Operations -> Nat]
  BY DelayAssumption, LaneAssumption, ClockType
  DEF Typed, TypeOK, TimelockTypeOK, LaneTypeOK, LaneTyped, GasCaps

\* A step that writes no lane and sets no clock back.
LEMMA LanesQuiet ==
  ASSUME Typed, LaneClosed, UNCHANGED laneVars, now' \in Nat, now' >= now
  PROVE  LaneGoals
  <1>1. LaneTyped
    BY LanesAreTyped
  <1>2. lanes' = lanes /\ switches' = switches
    BY DEF laneVars
  <1>3. ExecutorWidensByLift
    BY <1>1, <1>2 DEF ExecutorWidensByLift, LaneTyped, SwitchState
  <1>4. LaneClosed'
    BY <1>1, <1>2 DEF LaneClosed, LaneTyped, LaneState
  <1> QED
    BY <1>2, <1>3, <1>4 DEF LaneGoals, FrozenLanesStayShut

\* Closing a lane stamps it and turns no switch on.
LEMMA CloseLaneGoals ==
  ASSUME Typed, LaneClosed, NEW caller \in Accounts, NEW r \in Roots, CloseLane(caller, r)
  PROVE  LaneGoals
  <1>1. LaneTyped
    BY LanesAreTyped
  <1>2. lanes'[r].executor = NoOne /\ \A q \in Roots \ {r} : lanes'[q] = lanes[q]
    BY <1>1 DEF CloseLane, LaneTyped
  <1>3. ExecutorWidensByLift
    BY <1>1 DEF ExecutorWidensByLift, LaneTyped, SwitchState, CloseLane
  <1>4. LaneClosed'
    BY <1>2 DEF LaneClosed, CloseLane
  <1> QED
    BY <1>2, <1>3, <1>4 DEF LaneGoals, FrozenLanesStayShut

\* A switch that is turned off, or left as it was with less gas.
LEMMA SwitchNarrows ==
  ASSUME Typed, LaneClosed, NEW r \in Roots, NEW e \in Executors, NEW t \in SwitchState,
         t.on => switches[r][e].on /\ t.gasCap <= switches[r][e].gasCap,
         switches' = [switches EXCEPT ![r][e] = t],
         lanes' = lanes, now' = now
  PROVE  LaneGoals
  <1>1. LaneTyped
    BY LanesAreTyped
  <1>2. /\ switches'[r][e] = t
        /\ \A q \in Roots, d \in Executors : <<q, d>> # <<r, e>> => switches'[q][d] = switches[q][d]
    BY <1>1 DEF LaneTyped
  <1>3. \A q \in Roots, d \in Executors :
          switches[q][d].gasCap \in Nat /\ switches[q][d].on \in BOOLEAN
    BY <1>1 DEF LaneTyped, SwitchState
  <1>4. t.gasCap \in Nat
    BY <1>1 DEF LaneTyped, SwitchState
  <1>5. ASSUME NEW q \in Roots, NEW d \in Executors
        PROVE  ~(switches'[q][d].on /\ (~switches[q][d].on \/ switches'[q][d].gasCap > switches[q][d].gasCap))
    <2>1. CASE q = r /\ d = e
      BY <1>2, <1>3, <1>4, <2>1
    <2>2. CASE <<q, d>> # <<r, e>>
      BY <1>2, <1>3, <2>2
    <2> QED
      BY <2>1, <2>2
  <1>6. ExecutorWidensByLift
    BY <1>5 DEF ExecutorWidensByLift
  <1> QED
    BY <1>6 DEF LaneGoals, FrozenLanesStayShut, LaneClosed

\* A switch that widens does so by an operation of its own.
LEMMA SwitchWidens ==
  ASSUME Typed, NEW r \in Roots, NEW e \in Executors, NEW g \in GasCaps,
         NEW kind \in {"OPEN_LANE", "LANE_ON"}, NEW t \in SwitchState,
         <<kind, r, e, g>> \in Operations,
         ConsumeAfter(<<kind, r, e, g>>, switches[r][e].brakedAt),
         switches' = [switches EXCEPT ![r][e] = t]
  PROVE  ExecutorWidensByLift
  <1>1. LaneTyped
    BY LanesAreTyped
  <1> DEFINE op == <<kind, r, e, g>>
  <1>2. /\ readyAt[op] > switches[r][e].brakedAt + Delay
        /\ now >= readyAt[op]
        /\ readyAt'[op] = 0
    BY LanesAreTyped DEF ConsumeAfter
  <1>3. \A q \in Roots, d \in Executors : <<q, d>> # <<r, e>> => switches'[q][d] = switches[q][d]
    BY <1>1 DEF LaneTyped
  <1>4. \A q \in Roots, d \in Executors :
          switches[q][d].gasCap \in Nat /\ switches[q][d].on \in BOOLEAN
    BY <1>1 DEF LaneTyped, SwitchState
  <1> SUFFICES ASSUME NEW q \in Roots, NEW d \in Executors, switches'[q][d].on,
                      ~switches[q][d].on \/ switches'[q][d].gasCap > switches[q][d].gasCap
               PROVE  \E k \in {"OPEN_LANE", "LANE_ON"}, h \in GasCaps :
                        /\ readyAt[<<k, q, d, h>>] > switches[q][d].brakedAt + Delay
                        /\ now >= readyAt[<<k, q, d, h>>]
                        /\ readyAt'[<<k, q, d, h>>] = 0
    BY DEF ExecutorWidensByLift
  <1>5. q = r /\ d = e
    BY <1>3, <1>4
  <1> QED
    BY <1>2, <1>5

\* Opening a lane takes an operation announced after the lane last closed.
LEMMA OpenLaneGoals ==
  ASSUME Typed, LaneClosed, NEW caller \in Accounts, NEW r \in Roots, NEW e \in Executors,
         NEW g \in GasCaps, OpenLane(caller, r, e, g)
  PROVE  LaneGoals
  <1>1. LaneTyped
    BY LanesAreTyped
  <1> DEFINE op == <<"OPEN_LANE", r, e, g>>
             t == [on |-> TRUE, gasCap |-> g, brakedAt |-> switches[r][e].brakedAt]
             lane == [executor |-> e, closedAt |-> lanes[r].closedAt]
  <1>2. op \in Operations
    BY DEF Operations, LaneOperations
  <1>3. t \in SwitchState /\ switches' = [switches EXCEPT ![r][e] = t]
    BY <1>1 DEF OpenLane, LaneTyped, SwitchState
  <1>4. ConsumeAfter(op, switches[r][e].brakedAt) /\ readyAt[op] > lanes[r].closedAt + Delay
    BY DEF OpenLane
  <1>5. ExecutorWidensByLift
    <2> HIDE DEF t
    <2> QED
      BY <1>2, <1>3, <1>4, SwitchWidens
  <1>6. now' = now /\ now >= readyAt[op] /\ now > lanes[r].closedAt + Delay
    BY <1>1, <1>2, <1>4 DEF OpenLane, ConsumeAfter, LaneTyped, LaneState
  <1>7. lanes'[r] = lane /\ \A q \in Roots \ {r} : lanes'[q] = lanes[q]
    BY <1>1 DEF OpenLane, LaneTyped
  <1>8. LaneClosed'
    <2>1. \A q \in Roots \ {r} :
            lanes'[q].closedAt # 0 /\ now' < lanes'[q].closedAt + Delay => lanes'[q].executor = NoOne
      BY <1>6, <1>7 DEF LaneClosed
    <2>2. lanes'[r].closedAt = lanes[r].closedAt /\ lanes[r].closedAt \in Nat
      BY <1>1, <1>7 DEF LaneTyped, LaneState
    <2>3. ~(now' < lanes'[r].closedAt + Delay)
      BY <1>1, <1>6, <2>2 DEF LaneTyped
    <2> QED
      BY <2>1, <2>3 DEF LaneClosed
  <1>9. roots[r].frozen => registrar[r] # NoOne
    BY DEF OpenLane, CheckLane
  <1>10. FrozenLanesStayShut
    BY <1>7, <1>9 DEF FrozenLanesStayShut
  <1> QED
    BY <1>5, <1>8, <1>10 DEF LaneGoals

\* What one account does to the lanes.
LEMMA LaneActionGoals ==
  ASSUME Typed, LaneClosed, NEW caller \in Accounts, LaneAction(caller)
  PROVE  LaneGoals
  <1>1. LaneTyped
    BY LanesAreTyped
  <1>2. ASSUME NEW r \in Roots, NEW e \in Executors, StopExecutor(caller, r, e)
        PROVE  LaneGoals
    <2> DEFINE t == [on |-> FALSE, gasCap |-> switches[r][e].gasCap, brakedAt |-> now]
    <2>1. t \in SwitchState /\ ~t.on /\ switches' = [switches EXCEPT ![r][e] = t]
      BY <1>1, <1>2 DEF StopExecutor, LaneTyped, SwitchState
    <2> HIDE DEF t
    <2> QED
      BY <1>2, <2>1, SwitchNarrows DEF StopExecutor
  <1>3. ASSUME NEW r \in Roots, NEW e \in Executors, NEW g \in GasCaps, TuneExecutor(caller, r, e, g)
        PROVE  LaneGoals
    <2> DEFINE t == [on |-> switches[r][e].on, gasCap |-> g, brakedAt |-> now]
    <2>1. t \in SwitchState /\ switches' = [switches EXCEPT ![r][e] = t]
      BY <1>1, <1>3 DEF TuneExecutor, LaneTyped, SwitchState
    <2>2. g < switches[r][e].gasCap /\ switches[r][e].gasCap \in Nat /\ g \in Nat
      BY <1>1, <1>3 DEF TuneExecutor, LaneTyped, SwitchState
    <2>3. t.on = switches[r][e].on /\ t.gasCap = g
      OBVIOUS
    <2>4. t.on => switches[r][e].on /\ t.gasCap <= switches[r][e].gasCap
      BY <2>2, <2>3
    <2> HIDE DEF t
    <2> QED
      BY <1>3, <2>1, <2>4, SwitchNarrows DEF TuneExecutor
  <1>4. ASSUME NEW r \in Roots, NEW e \in Executors, NEW g \in GasCaps, StartExecutor(caller, r, e, g)
        PROVE  LaneGoals
    <2> DEFINE t == [on |-> TRUE, gasCap |-> g, brakedAt |-> switches[r][e].brakedAt]
    <2>1. t \in SwitchState /\ switches' = [switches EXCEPT ![r][e] = t]
      BY <1>1, <1>4 DEF StartExecutor, LaneTyped, SwitchState
    <2>2. <<"LANE_ON", r, e, g>> \in Operations
      BY DEF Operations, LaneOperations
    <2> HIDE DEF t
    <2>3. ExecutorWidensByLift
      BY <1>4, <2>1, <2>2, SwitchWidens DEF StartExecutor
    <2> QED
      BY <1>4, <2>3 DEF StartExecutor, LaneGoals, FrozenLanesStayShut, LaneClosed
  <1> QED
    BY <1>2, <1>3, <1>4, CloseLaneGoals, OpenLaneGoals DEF LaneAction

\* An owned root takes its template's lane with the switch off.
LEMMA OwningGoals ==
  ASSUME AdmissionInvariant, Owning
  PROVE  LaneGoals
  <1>1. Typed /\ LaneClosed /\ LaneTyped
    BY LanesAreTyped DEF AdmissionInvariant
  <1> PICK f \in Factories, r \in OwnedRoots, template \in Roots, rules, companion \in Modules :
        \E copies \in SUBSET Modules : RegisterOwnedRoot(f, r, template, rules, companion, copies)
    BY DEF Owning
  <1>2. r \in Roots /\ ~roots[r].frozen
    BY OwningWritesOne DEF Pristine
  <1>3. CopyLane(r, template) /\ now' = now
    BY DEF RegisterOwnedRoot, timelockVars
  <1>4. CASE ActiveLane(template) = NoOne
    BY <1>1, <1>3, <1>4, LanesQuiet DEF CopyLane, LaneTyped
  <1>5. CASE ActiveLane(template) # NoOne
    <2> DEFINE e == ActiveLane(template)
               t == [on |-> FALSE, gasCap |-> switches[template][e].gasCap, brakedAt |-> now]
    <2>1. e \in Executors
      BY <1>1, <1>5 DEF ActiveLane, LaneTyped, LaneState
    <2>2. t \in SwitchState /\ ~t.on
      BY <1>1, <2>1 DEF LaneTyped, SwitchState
    <2>3. /\ lanes' = [lanes EXCEPT ![r] = [executor |-> e, closedAt |-> 0]]
          /\ switches' = [switches EXCEPT ![r][e] = t]
      BY <1>3, <1>5 DEF CopyLane
    <2>4. lanes'[r].closedAt = 0 /\ \A q \in Roots \ {r} : lanes'[q] = lanes[q]
      BY <1>1, <1>2, <2>3 DEF LaneTyped
    <2>5. LaneClosed' /\ FrozenLanesStayShut
      BY <1>1, <1>2, <1>3, <2>4 DEF LaneClosed, FrozenLanesStayShut
    <2> HIDE DEF e, t
    <2>6. \A q \in Roots, d \in Executors :
            switches'[q][d].on => switches'[q][d] = switches[q][d]
      BY <1>1, <1>2, <2>1, <2>2, <2>3 DEF LaneTyped
    <2>7. ExecutorWidensByLift
      BY <1>1, <2>6 DEF ExecutorWidensByLift, LaneTyped, SwitchState
    <2> QED
      BY <2>5, <2>7 DEF LaneGoals
  <1> QED
    BY <1>4, <1>5

\* Every step.
LEMMA StepLanes ==
  ASSUME AdmissionInvariant, [Next]_vars
  PROVE  LaneGoals
  <1>1. Typed /\ LaneClosed /\ LaneTyped
    BY LanesAreTyped DEF AdmissionInvariant
  <1>2. UNCHANGED laneVars /\ UNCHANGED now => LaneGoals
    BY <1>1, LanesQuiet DEF LaneTyped
  <1>3. ASSUME NEW caller \in Accounts, By(caller)
        PROVE  LaneGoals
    <2>1. ASSUME NEW op \in Agenda, Queue(caller, op)
          PROVE  LaneGoals
      BY <1>2, <2>1 DEF Queue
    <2>2. CASE /\ (\E op \in Operations : Cancel(caller, op)) \/ Governance(caller)
               /\ UNCHANGED <<marketVars, quoteVars, laneVars, admissionVars>>
      <3>1. UNCHANGED now
        BY <2>2 DEF Cancel, Governance, TransferOwnership, CancelOwnershipTransfer, AcceptOwnership,
                    SetGuardian, RemoveGuardian
      <3> QED
        BY <1>2, <2>2, <3>1
    <2>3. CASE MarketAction(caller) /\ UNCHANGED <<quoteVars, laneVars, admissionVars>>
      <3>1. UNCHANGED now
        BY <2>3, Zenon DEF MarketAction, SetLauncher, DeactivateLauncher, RegisterRoot, RetireRoot, FreezeRoot,
                    CloseRoot, ReopenRoot, SetRootFactory, DeactivateRootFactory, PauseNewMarkets,
                    ResumeNewMarkets, SetExternalHook, DropExternalHookRecord
      <3> QED
        BY <1>2, <2>3, <3>1
    <2>4. CASE QuoteAction(caller) /\ UNCHANGED <<marketVars, laneVars, admissionVars>>
      <3>1. UNCHANGED now
        BY <2>4, Zenon DEF QuoteAction, SetQuote, BrakeOneQuote, ReopenSingleQuote, InstallQuoteClass, DropQuoteClass,
                    AuthorizeAnyQuote, DismissAnyQuote, AddSettlementCurrency, RemoveSettlementCurrency
      <3> QED
        BY <1>2, <2>4, <3>1
    <2>5. CASE LaneAction(caller)
      BY <1>1, <2>5, LaneActionGoals
    <2>6. CASE AdmissionAction(caller) /\ UNCHANGED <<quoteVars, laneVars>>
      <3>1. UNCHANGED now
        BY <2>6 DEF AdmissionAction, RevokeFactoryAdmissions, Admit, RevokeModuleAdmission, PinModuleBond, Revoke
      <3> QED
        BY <1>2, <2>6, <3>1
    <2> QED
      BY <1>3, <2>1, <2>2, <2>3, <2>4, <2>5, <2>6 DEF By
  <1>4. CASE ByFactory
    <2>1. ASSUME NEW f \in Factories, NEW r \in PairRoots, RegisterFactoryRoot(f, r), UNCHANGED laneVars
          PROVE  LaneGoals
      BY <1>2, <2>1 DEF RegisterFactoryRoot
    <2> QED
      BY <1>4, <2>1, OwningGoals DEF ByFactory, Owning
  <1>5. CASE Environment
    <2>1. CASE Tick /\ UNCHANGED <<marketVars, quoteVars, laneVars, admissionVars>>
      BY <1>1, <2>1, LanesQuiet DEF Tick, LaneTyped
    <2>2. ASSUME NEW b \in Bonds, BondTurns(b), UNCHANGED <<quoteVars, laneVars>>
          PROVE  LaneGoals
      BY <1>2, <2>2 DEF BondTurns
    <2> QED
      BY <1>5, <2>1, <2>2 DEF Environment
  <1>6. CASE UNCHANGED vars
    BY <1>2, <1>6 DEF vars, timelockVars
  <1> QED
    BY <1>3, <1>4, <1>5, <1>6 DEF Next

\* The strengthening holds in every reachable state.
LEMMA AdmissionInvariantHolds == Spec => []AdmissionInvariant
  <1>1. Init => AdmissionInvariant
    <2> SUFFICES ASSUME Init
                 PROVE  AdmissionInvariant
      OBVIOUS
    <2>1. Roots \subseteq Scopes /\ Modules \subseteq Scopes
      BY DEF Scopes
    <2> QED
      BY <2>1, InitTyped
      DEF Init, MarketInit, LaneInit, AdmissionInit, AdmissionInvariant, LaneClosed, Pristine, Unregistered
  <1>2. AdmissionInvariant /\ [Next]_vars => AdmissionInvariant'
    <2> SUFFICES ASSUME AdmissionInvariant, [Next]_vars
                 PROVE  AdmissionInvariant'
      OBVIOUS
    <2>1. Typed'
      BY StepTyped DEF AdmissionInvariant
    <2>2. AdmissionsSound'
      BY <2>1, StepAdmissions, AdmissionsPreserved DEF AdmissionInvariant, Pristine
    <2>3. LaneClosed'
      BY StepLanes DEF LaneGoals
    <2> QED
      BY <2>1, <2>2, <2>3 DEF AdmissionInvariant, AdmissionsSound
  <1> QED
    BY <1>1, <1>2, PTL DEF Spec

\* An admission is written once and ends only by a revocation that is never
\* undone, whatever is queued, frozen, copied or re-registered around it.
THEOREM AdmissionsLiveOnce == Spec => AdmissionLifecycle
  <1>1. AdmissionInvariant /\ AdmissionInvariant' /\ [Next]_vars => [AdmissionStep]_vars
    BY StepAdmissions, AdmissionsPreserved DEF AdmissionInvariant, Pristine
  <1> QED
    BY <1>1, AdmissionInvariantHolds, PTL DEF Spec, AdmissionLifecycle

\* Freezing a root seals it for good.
THEOREM FreezeHolds == Spec => FreezeSeals
  <1>1. AdmissionInvariant /\ AdmissionInvariant' /\ [Next]_vars => [FreezeStep]_vars
    <2> SUFFICES ASSUME AdmissionInvariant, AdmissionInvariant', [Next]_vars
                 PROVE  FreezeStep
      OBVIOUS
    <2>1. NothingAdmittedWhenFrozen
      BY StepAdmissions, AdmissionsPreserved DEF AdmissionInvariant, Pristine
    <2>2. FrozenLanesStayShut
      BY StepLanes DEF LaneGoals
    <2> QED
      BY <2>1, <2>2 DEF FreezeStep, NothingAdmittedWhenFrozen, FrozenLanesStayShut
  <1> QED
    BY <1>1, AdmissionInvariantHolds, PTL DEF Spec, FreezeSeals

\* A closed lane holds for a full delay, and an executor's switch widens only by
\* a matured operation of its own announced after its last brake.
THEOREM LanesHold == Spec => LaneBrakesHold
  <1>1. AdmissionInvariant /\ [Next]_vars => [ExecutorWidensByLift /\ LaneClosed']_vars
    BY StepLanes DEF LaneGoals
  <1> QED
    BY <1>1, AdmissionInvariantHolds, PTL DEF Spec, LaneBrakesHold

-----------------------------------------------------------------------------
(* Authority.                                                                *)

\* Dropping a member adds none.
LEMMA DropShrinks ==
  ASSUME NEW universe, NEW index, IsIndexOf(index, universe), Agrees(index),
         NEW x \in universe, NEW y \in universe, IndexDrop(index, x).position[y] # 0
  PROVE  index.position[y] # 0
  <1> DEFINE n == Len(index.list)
             place == index.position[x]
             last == index.list[n]
  <1>1. CASE place = 0
    BY <1>1 DEF IndexDrop
  <1>2. CASE place # 0
    <2>1. n \in Nat /\ place \in 1..n /\ last \in universe
      BY <1>2 DEF Agrees, IsIndexOf
    <2>2. index.position[last] = n /\ n # 0
      BY <2>1 DEF Agrees
    <2>3. IndexDrop(index, x).position = [[index.position EXCEPT ![last] = place] EXCEPT ![x] = 0]
      BY <1>2 DEF IndexDrop
    <2>4. index.position \in [universe -> Nat]
      BY DEF IsIndexOf
    <2> DEFINE g == index.position
    <2>5. y # x /\ (y # last => g[y] # 0)
      <3> HIDE DEF last, place
      <3> QED
        BY <2>1, <2>3, <2>4
    <2> QED
      BY <2>2, <2>5
  <1> QED
    BY <1>1, <1>2

MarketsNarrow ==
  /\ \A r \in Roots : RootOpen(r)' => RootOpen(r)
  /\ launchers' \subseteq launchers
  /\ rootFactories' \subseteq rootFactories
  /\ recorded' \subseteq recorded

QuotesNarrow ==
  /\ \A a \in Assets : IsQuote(a)' => IsQuote(a)
  /\ Members(settlement)' \subseteq Members(settlement)

LanesNarrow ==
  \A r \in Roots, e \in Executors :
    /\ switches'[r][e].on => switches[r][e].on
    /\ switches'[r][e].gasCap <= switches[r][e].gasCap
    /\ lanes'[r].executor \in {lanes[r].executor, NoOne}

AdmissionsNarrow ==
  \A s \in Scopes, m \in Modules : admissions'[s][m] \in {admissions[s][m], None}

\* What revoking may not touch when a root is frozen.
FrozenAdmissionsStand ==
  \A r \in Roots : roots[r].frozen =>
    /\ admissions'[r] = admissions[r]
    /\ \A p \in Modules :
         TrustedRoot[p] = r /\ admissions[r][p] = Rules => admissions'[p] = admissions[p]

Restricting ==
  MarketsNarrow /\ QuotesNarrow /\ LanesNarrow /\ AdmissionsNarrow /\ Lowered /\ guardian' = guardian
    /\ FrozenAdmissionsStand

\* Leaving a part of the state alone opens nothing in it.
LEMMA MarketsStill ==
  ASSUME UNCHANGED marketVars
  PROVE  MarketsNarrow
  BY DEF MarketsNarrow, marketVars, RootOpen

\* A step that leaves the catalog alone widens no quote.
LEMMA QuotesStill ==
  ASSUME UNCHANGED quoteVars
  PROVE  QuotesNarrow
  BY DEF QuotesNarrow, quoteVars, IsQuote, Members

\* A step that leaves the lanes alone widens none.
LEMMA LanesStill ==
  ASSUME Typed, UNCHANGED laneVars
  PROVE  LanesNarrow
  <1>1. \A r \in Roots, e \in Executors : switches[r][e].gasCap \in Nat
    BY LanesAreTyped DEF LaneTyped, SwitchState, GasCaps
  <1> QED
    BY <1>1 DEF LanesNarrow, laneVars

\* A step that leaves the admissions alone widens none.
LEMMA AdmissionsStill ==
  ASSUME UNCHANGED admissions
  PROVE  AdmissionsNarrow /\ FrozenAdmissionsStand
  BY DEF AdmissionsNarrow, FrozenAdmissionsStand

\* The brakes on the markets.
LEMMA MarketBrakesNarrow ==
  ASSUME Typed, NEW caller \in Accounts, caller # owner, MarketAction(caller)
  PROVE  MarketsNarrow /\ Lowered /\ guardian' = guardian
  <1>1. roots \in [Roots -> RootState] /\ paused \in BOOLEAN
    BY DEF Typed, TypeOK, MarketTypeOK
  <1>2. readyAt' = readyAt => Lowered
    BY DEF Lowered
  <1>3. ASSUME NEW l \in Launchers, DeactivateLauncher(caller, l)
        PROVE  MarketsNarrow /\ Lowered /\ guardian' = guardian
    BY <1>2, <1>3 DEF DeactivateLauncher, MarketsNarrow, RootOpen, roleVars
  <1>4. ASSUME NEW r \in Roots, CloseRoot(caller, r)
        PROVE  MarketsNarrow /\ Lowered /\ guardian' = guardian
    <2>1. \A q \in Roots : RootOpen(q)' => RootOpen(q)
      BY <1>1, <1>4 DEF CloseRoot, RootOpen, RootState
    <2> QED
      BY <1>2, <1>4, <2>1 DEF CloseRoot, MarketsNarrow, roleVars
  <1>5. ASSUME NEW f \in Factories, DeactivateRootFactory(caller, f)
        PROVE  MarketsNarrow /\ Lowered /\ guardian' = guardian
    BY <1>2, <1>5 DEF DeactivateRootFactory, MarketsNarrow, RootOpen, roleVars
  <1>6. CASE PauseNewMarkets(caller)
    BY <1>2, <1>6 DEF PauseNewMarkets, MarketsNarrow, RootOpen, roleVars
  <1>7. ASSUME NEW h \in Hooks, DropExternalHookRecord(caller, h)
        PROVE  MarketsNarrow /\ Lowered /\ guardian' = guardian
    BY <1>2, <1>7 DEF DropExternalHookRecord, MarketsNarrow, RootOpen, roleVars
  <1>8. ~ResumeNewMarkets(caller)
    BY DEF ResumeNewMarkets, OnlyOwner
  <1>9. \A l \in Launchers, on \in BOOLEAN : ~SetLauncher(caller, l, on)
    BY DEF SetLauncher, OnlyOwner
  <1>10. \A r \in Roots : ~RegisterRoot(caller, r) /\ ~RetireRoot(caller, r) /\ ~FreezeRoot(caller, r) /\ ~ReopenRoot(caller, r)
    BY DEF RegisterRoot, RetireRoot, FreezeRoot, ReopenRoot, OnlyOwner
  <1>11. \A f \in Factories, on \in BOOLEAN : ~SetRootFactory(caller, f, on)
    BY DEF SetRootFactory, OnlyOwner
  <1>12. \A h \in Hooks : ~SetExternalHook(caller, h)
    BY DEF SetExternalHook, OnlyOwner
  <1> QED
    BY <1>3, <1>4, <1>5, <1>6, <1>7, <1>8, <1>9, <1>10, <1>11, <1>12 DEF MarketAction

\* The brakes on the quotes.
LEMMA QuoteBrakesNarrow ==
  ASSUME Typed, NEW caller \in Accounts, caller # owner, QuoteAction(caller)
  PROVE  QuotesNarrow /\ Lowered /\ guardian' = guardian
  <1>1. /\ IsIndexOf(catalog, Assets) /\ Agrees(catalog)
        /\ IsIndexOf(classes, Classes) /\ Agrees(classes)
        /\ IsIndexOf(settlement, Currencies) /\ Agrees(settlement)
        /\ ClassOf \in [Assets -> Classes]
    BY QuoteAssumption DEF Typed, TypeOK, QuoteTypeOK, IndexesAgree
  <1>2. readyAt' = readyAt => Lowered
    BY DEF Lowered
  <1>3. ASSUME NEW a \in Assets, BrakeOneQuote(caller, a)
        PROVE  QuotesNarrow /\ Lowered /\ guardian' = guardian
    <2>1. \A b \in Assets : IndexDrop(catalog, a).position[b] # 0 => catalog.position[b] # 0
      BY <1>1, DropShrinks
    <2>2. IndexDrop(catalog, a).position[a] = 0
      BY <1>1, DropAgrees
    <2>3. \A b \in Assets : IsQuote(b)' => IsQuote(b)
      BY <1>3, <2>1, <2>2 DEF BrakeOneQuote, IsQuote
    <2> QED
      BY <1>2, <1>3, <2>3 DEF BrakeOneQuote, QuotesNarrow, Members, roleVars
  <1>4. ASSUME NEW c \in Classes, DropQuoteClass(caller, c)
        PROVE  QuotesNarrow /\ Lowered /\ guardian' = guardian
    <2>1. \A d \in Classes : IndexDrop(classes, c).position[d] # 0 => classes.position[d] # 0
      BY <1>1, DropShrinks
    <2>2. \A b \in Assets : IsQuote(b)' => IsQuote(b)
      BY <1>1, <1>4, <2>1 DEF DropQuoteClass, IsQuote
    <2> QED
      BY <1>2, <1>4, <2>2 DEF DropQuoteClass, QuotesNarrow, Members, roleVars
  <1>5. CASE DismissAnyQuote(caller)
    BY <1>2, <1>5 DEF DismissAnyQuote, QuotesNarrow, IsQuote, Members, roleVars
  <1>6. ASSUME NEW x \in Currencies, RemoveSettlementCurrency(caller, x)
        PROVE  QuotesNarrow /\ Lowered /\ guardian' = guardian
    <2>1. \A y \in Currencies : IndexDrop(settlement, x).position[y] # 0 => settlement.position[y] # 0
      BY <1>1, DropShrinks
    <2>2. IsIndexOf(settlement', Currencies) /\ settlement' = IndexDrop(settlement, x)
      BY <1>1, <1>6, DropAgrees DEF RemoveSettlementCurrency
    <2>3. Members(settlement)' \subseteq Members(settlement)
      BY <1>1, <2>1, <2>2 DEF Members, IsIndexOf
    <2> QED
      BY <1>2, <1>6, <2>3 DEF RemoveSettlementCurrency, QuotesNarrow, IsQuote, roleVars
  <1>7. \A a \in Assets, on \in BOOLEAN : ~SetQuote(caller, a, on) /\ ~ReopenSingleQuote(caller, a)
    BY DEF SetQuote, ReopenSingleQuote, OnlyOwner
  <1>8. \A c \in Classes : ~InstallQuoteClass(caller, c)
    BY DEF InstallQuoteClass, OnlyOwner
  <1>9. ~AuthorizeAnyQuote(caller)
    BY DEF AuthorizeAnyQuote, OnlyOwner
  <1>10. \A x \in Currencies : ~AddSettlementCurrency(caller, x)
    BY DEF AddSettlementCurrency, OnlyOwner
  <1> QED
    BY <1>3, <1>4, <1>5, <1>6, <1>7, <1>8, <1>9, <1>10 DEF QuoteAction

\* The brakes on the lanes.
LEMMA LaneBrakesNarrow ==
  ASSUME Typed, NEW caller \in Accounts, caller # owner, LaneAction(caller)
  PROVE  LanesNarrow /\ Lowered /\ guardian' = guardian
  <1>1. LaneTyped
    BY LanesAreTyped
  <1>2. \A q \in Roots, d \in Executors : switches[q][d].gasCap \in Nat
    BY <1>1 DEF LaneTyped, SwitchState, GasCaps
  <1>3. readyAt' = readyAt => Lowered
    BY DEF Lowered
  <1>4. ASSUME NEW r \in Roots, CloseLane(caller, r)
        PROVE  LanesNarrow /\ Lowered /\ guardian' = guardian
    BY <1>1, <1>2, <1>3, <1>4 DEF CloseLane, LanesNarrow, LaneTyped, roleVars
  <1>5. ASSUME NEW r \in Roots, NEW e \in Executors, StopExecutor(caller, r, e)
        PROVE  LanesNarrow /\ Lowered /\ guardian' = guardian
    BY <1>1, <1>2, <1>3, <1>5 DEF StopExecutor, LanesNarrow, LaneTyped, roleVars
  <1>6. ASSUME NEW r \in Roots, NEW e \in Executors, NEW g \in GasCaps, TuneExecutor(caller, r, e, g)
        PROVE  LanesNarrow /\ Lowered /\ guardian' = guardian
    BY <1>1, <1>2, <1>3, <1>6 DEF TuneExecutor, LanesNarrow, LaneTyped, roleVars
  <1>7. \A r \in Roots, e \in Executors, g \in GasCaps :
          ~OpenLane(caller, r, e, g) /\ ~StartExecutor(caller, r, e, g)
    BY DEF OpenLane, StartExecutor, OnlyOwner
  <1> QED
    BY <1>4, <1>5, <1>6, <1>7 DEF LaneAction

\* Revoking, by an account that is not the owner.
LEMMA RevocationsNarrow ==
  ASSUME AdmissionInvariant, NEW caller \in Accounts, caller # owner, AdmissionAction(caller)
  PROVE  /\ AdmissionsNarrow /\ FrozenAdmissionsStand /\ Lowered /\ guardian' = guardian
         /\ UNCHANGED marketVars
  <1>1. /\ admissions \in [Scopes -> [Modules -> {None, Rules, Advisory, Gate}]]
        /\ Roots \subseteq Scopes /\ Modules \subseteq Scopes
        /\ Roots \cap Modules = {} /\ NoOne \notin Roots
    BY AdmissionAssumption DEF AdmissionInvariant, Typed, TypeOK, AdmissionTypeOK, Scopes
  <1>2. ASSUME NEW s \in Scopes, NEW ms \in SUBSET Modules, Revoke(s, ms)
        PROVE  /\ AdmissionsNarrow /\ Lowered /\ guardian' = guardian /\ UNCHANGED marketVars
               /\ \A t \in Scopes \ {s} : admissions'[t] = admissions[t]
               /\ ms = {} => admissions' = admissions
    <2>1. \A t \in Scopes \ {s} : admissions'[t] = admissions[t]
      BY <1>1, <1>2 DEF Revoke
    <2>2. \A m \in Modules : admissions'[s][m] = IF m \in ms THEN None ELSE admissions[s][m]
      BY <1>1, <1>2 DEF Revoke
    <2>3. AdmissionsNarrow
      BY <2>1, <2>2 DEF AdmissionsNarrow
    <2>4. ms = {} => admissions' = admissions
      BY <1>1, <1>2 DEF Revoke
    <2> QED
      BY <1>2, <2>1, <2>3, <2>4 DEF Revoke, Lowered, roleVars
  <1>3. ASSUME NEW s \in Scopes, NEW ms \in SUBSET Modules, RevokeFactoryAdmissions(caller, s, ms)
        PROVE  /\ AdmissionsNarrow /\ FrozenAdmissionsStand /\ Lowered /\ guardian' = guardian
               /\ UNCHANGED marketVars
    <2>1. Revoke(s, ms) /\ (s \in Roots => ~roots[s].registered) /\ \A m \in ms : admissions[s][m] = Advisory
      BY <1>3 DEF RevokeFactoryAdmissions
    <2>2. s \in Roots => ~roots[s].frozen
      BY <2>1 DEF AdmissionInvariant, Pristine
    <2>3. s \in Modules => ms = {}
      BY <2>1 DEF AdmissionInvariant, None, Rules, Advisory
    <2>4. FrozenAdmissionsStand
      BY <1>1, <1>2, <2>1, <2>2, <2>3 DEF FrozenAdmissionsStand
    <2> QED
      BY <1>2, <2>1, <2>4
  <1>4. ASSUME NEW s \in Scopes, NEW m \in Modules, RevokeModuleAdmission(caller, s, m)
        PROVE  /\ AdmissionsNarrow /\ FrozenAdmissionsStand /\ Lowered /\ guardian' = guardian
               /\ UNCHANGED marketVars
    <2>1. Revoke(s, {m}) /\ ~FrozenScope(s)
      BY <1>4 DEF RevokeModuleAdmission
    <2>2. FrozenAdmissionsStand
      <3> SUFFICES ASSUME NEW r \in Roots, roots[r].frozen
                   PROVE  /\ admissions'[r] = admissions[r]
                          /\ \A p \in Modules : TrustedRoot[p] = r /\ admissions[r][p] = Rules =>
                               admissions'[p] = admissions[p]
        BY DEF FrozenAdmissionsStand
      <3>1. s # r
        BY <2>1 DEF FrozenScope
      <3>2. \A p \in Modules : TrustedRoot[p] = r /\ admissions[r][p] = Rules => s # p
        BY <1>1, <2>1 DEF FrozenScope
      <3> QED
        BY <1>1, <1>2, <2>1, <3>1, <3>2
    <2> QED
      BY <1>2, <2>1, <2>2
  <1>5. \A s \in Scopes, m \in Modules :
          /\ \A k \in Kinds : ~Admit(caller, s, m, k)
          /\ \A b \in Bonds : ~PinModuleBond(caller, s, m, b)
    BY DEF Admit, PinModuleBond, OnlyOwner
  <1> QED
    BY <1>3, <1>4, <1>5 DEF AdmissionAction

\* Every call of an account that is not the owner.
LEMMA GuardianRestricts ==
  ASSUME AdmissionInvariant, NEW caller \in Accounts, caller # owner, By(caller)
  PROVE  Restricting
  <1>1. Typed
    BY DEF AdmissionInvariant
  <1>2. ASSUME UNCHANGED <<marketVars, quoteVars, laneVars, admissionVars>>, Lowered, guardian' = guardian
        PROVE  Restricting
    BY <1>1, <1>2, MarketsStill, QuotesStill, LanesStill, AdmissionsStill DEF Restricting, admissionVars
  <1>3. \A op \in Agenda : ~Queue(caller, op)
    BY DEF Queue, OnlyOwner
  <1>4. CASE /\ (\E op \in Operations : Cancel(caller, op)) \/ Governance(caller)
             /\ UNCHANGED <<marketVars, quoteVars, laneVars, admissionVars>>
    <2>1. ASSUME NEW op \in Operations, Cancel(caller, op)
          PROVE  Lowered /\ guardian' = guardian
      BY <1>1, <2>1 DEF Cancel, Lowered, Typed, TypeOK, TimelockTypeOK, roleVars
    <2>2. ASSUME Governance(caller)
          PROVE  Lowered /\ guardian' = guardian
      <3>1. AcceptOwnership(caller)
        BY <2>2 DEF Governance, TransferOwnership, CancelOwnershipTransfer, SetGuardian, RemoveGuardian, OnlyOwner
      <3> QED
        BY <3>1 DEF AcceptOwnership, Lowered
    <2> QED
      BY <1>2, <1>4, <2>1, <2>2
  <1>5. CASE MarketAction(caller) /\ UNCHANGED <<quoteVars, laneVars, admissionVars>>
    BY <1>1, <1>5, MarketBrakesNarrow, QuotesStill, LanesStill, AdmissionsStill DEF Restricting, admissionVars
  <1>6. CASE QuoteAction(caller) /\ UNCHANGED <<marketVars, laneVars, admissionVars>>
    BY <1>1, <1>6, QuoteBrakesNarrow, MarketsStill, LanesStill, AdmissionsStill DEF Restricting, admissionVars
  <1>7. CASE LaneAction(caller) /\ UNCHANGED <<quoteVars, admissionVars>>
    BY <1>1, <1>7, LaneBrakesNarrow, LanesLeaveRoots, MarketsStill, QuotesStill, AdmissionsStill
    DEF Restricting, admissionVars
  <1>8. CASE AdmissionAction(caller) /\ UNCHANGED <<quoteVars, laneVars>>
    BY <1>1, <1>8, RevocationsNarrow, MarketsStill, QuotesStill, LanesStill DEF Restricting
  <1> QED
    BY <1>3, <1>4, <1>5, <1>6, <1>7, <1>8 DEF By

\* Whatever an account other than the owner does opens nothing, and takes
\* nothing from a frozen root.
THEOREM GuardianRestrictsOnly == Spec => GuardianOnlyRestricts
  <1>1. AdmissionInvariant /\ [Next]_vars => [GuardianStep]_vars
    <2> SUFFICES ASSUME AdmissionInvariant, NEW c \in Accounts, c # owner, By(c)
                 PROVE  /\ OnlyRestricts
                        /\ \A r \in Roots : roots[r].frozen =>
                             /\ admissions'[r] = admissions[r]
                             /\ \A p \in Modules :
                                  TrustedRoot[p] = r /\ admissions[r][p] = Rules => admissions'[p] = admissions[p]
      BY DEF GuardianStep
    <2>1. Restricting
      BY GuardianRestricts
    <2>2. OnlyRestricts
      BY <2>1 DEF Restricting, OnlyRestricts, MarketsNarrow, QuotesNarrow, LanesNarrow, AdmissionsNarrow, Lowered
    <2> QED
      BY <2>1, <2>2 DEF Restricting, FrozenAdmissionsStand
  <1> QED
    BY <1>1, AdmissionInvariantHolds, PTL DEF Spec, GuardianOnlyRestricts

-----------------------------------------------------------------------------
(* Refinement: the timestamps implement BrakedSwitches.                      *)

\* What each mapping makes of the state: positions, last brakes, announcements.
MarketOn ==
  [s \in MarketSwitches |-> IF s \in RecordSwitches THEN s[2] \in recorded ELSE ~Withdrawn(s)]

MarketBraked ==
  [s \in MarketSwitches |-> IF s \in RecordSwitches THEN delistedAt[s[2]] ELSE heldSince[s]]

AllMarketLifts == UNION {MarketLifts[s] : s \in MarketSwitches}

MarketAnnounced == Announcements(AllMarketLifts)

\* A function that changes in one place.
LEMMA OnePlaceChanges ==
  ASSUME NEW S, NEW f, NEW g, f = [t \in S |-> f[t]], g = [t \in S |-> g[t]],
         NEW s \in S, NEW v, \A t \in S \ {s} : g[t] = f[t], g[s] = v
  PROVE  g = [f EXCEPT ![s] = v]
  OBVIOUS

\* One ready time cleared, or none.
Clears == readyAt' = readyAt \/ \E op \in Operations : readyAt' = [readyAt EXCEPT ![op] = 0]

\* Consuming an operation clears its ready time.
LEMMA ConsumeClears ==
  ASSUME NEW op \in Operations, NEW brakeAt, ConsumeAfter(op, brakeAt)
  PROVE  Clears
  BY DEF ConsumeAfter, Clears

\* The switches of the markets, and the lift of each.
LEMMA MarketForms ==
  /\ \A s \in UntimedSwitches :
       /\ s \in MarketSwitches /\ s \notin RecordSwitches
       /\ MarketLifts[s] = {LiftOf(s)} /\ LiftOf(s) \in AllMarketLifts
  /\ \A h \in Hooks :
       /\ <<"record", h>> \in MarketSwitches /\ <<"record", h>> \in RecordSwitches
       /\ MarketLifts[<<"record", h>>] = {<<"RECORD_EXTERNAL_HOOK", h>>}
       /\ <<"RECORD_EXTERNAL_HOOK", h>> \in AllMarketLifts
  <1>1. ASSUME NEW s \in UntimedSwitches
        PROVE  s \in MarketSwitches /\ s \notin RecordSwitches
    <2>1. s[1] # "record"
      <3>1. CASE s = <<Markets>>
        BY <3>1 DEF Markets
      <3>2. ASSUME NEW x, s = <<"launcher", x>> \/ s = <<"factory", x>> \/ s = <<"root", x>>
            PROVE  s[1] # "record"
        BY <3>2
      <3> QED
        BY <3>1, <3>2, SwitchForms
    <2>2. \A t \in RecordSwitches : t[1] = "record"
      BY DEF RecordSwitches
    <2>3. s \notin RecordSwitches
      BY <2>1, <2>2
    <2> QED
      BY <2>3 DEF MarketSwitches
  <1>2. ASSUME NEW h \in Hooks
        PROVE  <<"record", h>> \in MarketSwitches /\ <<"record", h>> \in RecordSwitches
    BY DEF MarketSwitches, RecordSwitches
  <1>3. \A s \in UntimedSwitches : MarketLifts[s] = {LiftOf(s)}
    BY <1>1 DEF MarketLifts
  <1>4. \A h \in Hooks : MarketLifts[<<"record", h>>] = {<<"RECORD_EXTERNAL_HOOK", h>>}
    BY <1>2 DEF MarketLifts
  <1> QED
    BY <1>1, <1>2, <1>3, <1>4 DEF AllMarketLifts

\* What lifts a market switch is an operation the owner can queue.
LEMMA MarketLiftsAreOperations ==
  /\ AllMarketLifts \subseteq Operations
  /\ \A s \in MarketSwitches : MarketLifts[s] \subseteq AllMarketLifts
  <1>1. \A s \in MarketSwitches : s \in UntimedSwitches \/ \E h \in Hooks : s = <<"record", h>>
    BY DEF MarketSwitches, RecordSwitches
  <1>2. \A h \in Hooks : <<"RECORD_EXTERNAL_HOOK", h>> \in Operations
    BY DEF Operations, MarketOperations
  <1>3. ASSUME NEW s \in MarketSwitches
        PROVE  MarketLifts[s] \subseteq Operations
    <2>1. CASE s \in UntimedSwitches
      <3>1. MarketLifts[s] = {LiftOf(s)} /\ LiftOf(s) \in Operations
        BY <2>1, MarketForms, LiftIsOperation
      <3> QED
        BY <3>1
    <2>2. ASSUME NEW h \in Hooks, s = <<"record", h>>
          PROVE  MarketLifts[s] \subseteq Operations
      <3>1. MarketLifts[s] = {<<"RECORD_EXTERNAL_HOOK", h>>}
        BY <2>2, MarketForms
      <3> QED
        BY <1>2, <3>1
    <2> QED
      BY <1>1, <2>1, <2>2
  <1> QED
    BY <1>3 DEF AllMarketLifts

\* Turning a launcher or a factory off lifts nothing.
LEMMA OffLiftsNothing ==
  /\ \A l \in Launchers : <<"SET_LAUNCHER", l, FALSE>> \notin AllMarketLifts
  /\ \A f \in Factories : <<"SET_ROOT_FACTORY", f, FALSE>> \notin AllMarketLifts
  <1>1. ASSUME NEW op \in AllMarketLifts
        PROVE  \/ op = <<"RESUME_NEW_MARKETS">>
               \/ \E l \in Launchers : op = <<"SET_LAUNCHER", l, TRUE>>
               \/ \E f \in Factories : op = <<"SET_ROOT_FACTORY", f, TRUE>>
               \/ \E r \in Roots : op = <<"REOPEN_ROOT", r>>
               \/ \E h \in Hooks : op = <<"RECORD_EXTERNAL_HOOK", h>>
    <2> PICK s \in MarketSwitches : op \in MarketLifts[s]
      BY DEF AllMarketLifts
    <2>1. CASE s \in UntimedSwitches
      <3>1. op = LiftOf(s)
        BY <2>1, MarketForms
      <3> QED
        BY <2>1, <3>1, SwitchForms
    <2>2. ASSUME NEW h \in Hooks, s = <<"record", h>>
          PROVE  op = <<"RECORD_EXTERNAL_HOOK", h>>
      BY <2>2, MarketForms
    <2> QED
      BY <2>1, <2>2 DEF MarketSwitches, RecordSwitches
  <1>2. ASSUME NEW l \in Launchers
        PROVE  <<"SET_LAUNCHER", l, FALSE>> \notin AllMarketLifts
    <2> DEFINE op == <<"SET_LAUNCHER", l, FALSE>>
    <2>1. op[1] = "SET_LAUNCHER" /\ \A k \in Launchers : op # <<"SET_LAUNCHER", k, TRUE>>
      OBVIOUS
    <2> QED
      BY <1>1, <2>1
  <1>3. ASSUME NEW f \in Factories
        PROVE  <<"SET_ROOT_FACTORY", f, FALSE>> \notin AllMarketLifts
    <2> DEFINE op == <<"SET_ROOT_FACTORY", f, FALSE>>
    <2>1. op[1] = "SET_ROOT_FACTORY" /\ \A k \in Factories : op # <<"SET_ROOT_FACTORY", k, TRUE>>
      OBVIOUS
    <2> QED
      BY <1>1, <2>1
  <1> QED
    BY <1>2, <1>3

\* Positions are Booleans.
LEMMA MarketOnType ==
  ASSUME NEW s \in MarketSwitches
  PROVE  MarketOn[s] \in BOOLEAN /\ MarketOn'[s] \in BOOLEAN
  <1>1. CASE s \in RecordSwitches
    BY <1>1 DEF MarketOn
  <1>2. CASE s \notin RecordSwitches
    BY <1>2 DEF MarketOn
  <1> QED
    BY <1>1, <1>2

\* How clearing, writing or leaving ready times shows in the announcements.
LEMMA MarketAnnouncements ==
  ASSUME Typed
  PROVE  /\ readyAt' = readyAt => MarketAnnounced' = MarketAnnounced
         /\ \A op \in Operations \ AllMarketLifts, v \in Nat :
              readyAt' = [readyAt EXCEPT ![op] = v] => MarketAnnounced' = MarketAnnounced
         /\ \A op \in AllMarketLifts :
              readyAt' = [readyAt EXCEPT ![op] = 0] => MarketAnnounced' = [MarketAnnounced EXCEPT ![op] = 0]
         /\ \A op \in AllMarketLifts, time \in Nat \ {0} :
              readyAt' = [readyAt EXCEPT ![op] = time + Delay] =>
                MarketAnnounced' = [MarketAnnounced EXCEPT ![op] = time]
  <1>1. /\ readyAt \in [Operations -> Nat] /\ Delay \in Nat \ {0}
        /\ AllMarketLifts \subseteq Operations
    BY DelayAssumption, MarketLiftsAreOperations DEF Typed, TypeOK, TimelockTypeOK
  <1>2. /\ MarketAnnounced = [l \in AllMarketLifts |-> MarketAnnounced[l]]
        /\ MarketAnnounced' = [l \in AllMarketLifts |-> MarketAnnounced'[l]]
        /\ \A l \in AllMarketLifts :
             /\ MarketAnnounced[l] = IF readyAt[l] = 0 THEN 0 ELSE readyAt[l] - Delay
             /\ MarketAnnounced'[l] = IF readyAt'[l] = 0 THEN 0 ELSE readyAt'[l] - Delay
    BY DEF MarketAnnounced, Announcements, AnnouncedAt
  <1> DEFINE an == MarketAnnounced
             anp == MarketAnnounced'
  <1> HIDE DEF an, anp
  <1>3. /\ an = [l \in AllMarketLifts |-> an[l]]
        /\ anp = [l \in AllMarketLifts |-> anp[l]]
        /\ \A l \in AllMarketLifts :
             /\ an[l] = IF readyAt[l] = 0 THEN 0 ELSE readyAt[l] - Delay
             /\ anp[l] = IF readyAt'[l] = 0 THEN 0 ELSE readyAt'[l] - Delay
    BY <1>2 DEF an, anp
  <1>4. ASSUME \A l \in AllMarketLifts : anp[l] = an[l]
        PROVE  anp = an
    BY <1>3, <1>4
  <1>5. readyAt' = readyAt => anp = an
    BY <1>3, <1>4
  <1>6. ASSUME NEW op \in Operations \ AllMarketLifts, NEW v \in Nat, readyAt' = [readyAt EXCEPT ![op] = v]
        PROVE  anp = an
    BY <1>1, <1>3, <1>4, <1>6
  <1>7. ASSUME NEW op \in AllMarketLifts, readyAt' = [readyAt EXCEPT ![op] = 0]
        PROVE  anp = [an EXCEPT ![op] = 0]
    <2>1. anp[op] = 0 /\ \A l \in AllMarketLifts \ {op} : anp[l] = an[l]
      BY <1>1, <1>3, <1>7
    <2> QED
      BY <1>3, <2>1, OnePlaceChanges
  <1>8. ASSUME NEW op \in AllMarketLifts, NEW time \in Nat \ {0}, readyAt' = [readyAt EXCEPT ![op] = time + Delay]
        PROVE  anp = [an EXCEPT ![op] = time]
    <2>1. readyAt'[op] = time + Delay /\ \A l \in AllMarketLifts \ {op} : readyAt'[l] = readyAt[l]
      BY <1>1, <1>8
    <2>2. anp[op] = time /\ \A l \in AllMarketLifts \ {op} : anp[l] = an[l]
      BY <1>1, <1>3, <2>1
    <2> QED
      BY <1>3, <2>2, OnePlaceChanges
  <1> QED
    BY <1>5, <1>6, <1>7, <1>8 DEF an, anp

\* The step of the abstract specification, or none.
MarketStep == [MarketSwitch!SwitchNext]_(MarketSwitch!switchVars)

\* The instance's names for what the mapping makes of the state.
LEMMA MarketStepIs ==
  /\ MarketSwitch!AllLifts = AllMarketLifts
  /\ MarketStep <=>
       \/ MarketSwitch!SwitchNext
       \/ now' = now /\ MarketOn' = MarketOn /\ MarketBraked' = MarketBraked /\ MarketAnnounced' = MarketAnnounced
  BY DEF MarketSwitch!AllLifts, AllMarketLifts, MarketStep, MarketSwitch!switchVars, MarketOn, MarketBraked,
         MarketAnnounced

\* Each action of the abstract specification is such a step.
LEMMA MarketActions ==
  /\ MarketSwitch!TimePasses => MarketStep
  /\ \A op \in AllMarketLifts : MarketSwitch!Withdraw(op) => MarketStep
  /\ \A op \in AllMarketLifts : MarketSwitch!AnnounceLift(op) => MarketStep
  /\ \A s \in MarketSwitches : \A op \in MarketLifts[s] : MarketSwitch!Lift(s, op) => MarketStep
  /\ \A s \in MarketSwitches : MarketSwitch!Brake(s) => MarketStep
  /\ \A s \in MarketSwitches : MarketSwitch!SwitchOff(s) => MarketStep
  <1>1. MarketSwitch!SwitchNext => MarketStep
    BY MarketStepIs
  <1> QED
    BY <1>1, MarketStepIs, Zenon DEF MarketSwitch!SwitchNext

\* A step that moves no switch is a withdrawal of an announcement or a stutter.
LEMMA MarketElsewhere ==
  ASSUME Typed, now' = now, MarketOn' = MarketOn, MarketBraked' = MarketBraked, Clears
  PROVE  MarketStep
  <1>1. ASSUME NEW op \in AllMarketLifts, readyAt' = [readyAt EXCEPT ![op] = 0]
        PROVE  MarketSwitch!Withdraw(op)
    <2>1. MarketAnnounced' = [MarketAnnounced EXCEPT ![op] = 0]
      BY <1>1, MarketAnnouncements
    <2> QED
      BY <2>1 DEF MarketSwitch!Withdraw, MarketOn, MarketBraked, MarketAnnounced, AllMarketLifts
  <1>2. ASSUME NEW op \in Operations \ AllMarketLifts, readyAt' = [readyAt EXCEPT ![op] = 0]
        PROVE  MarketAnnounced' = MarketAnnounced
    BY <1>2, MarketAnnouncements
  <1>3. readyAt' = readyAt => MarketAnnounced' = MarketAnnounced
    BY MarketAnnouncements
  <1> QED
    BY <1>1, <1>2, <1>3, MarketActions, MarketStepIs DEF Clears

\* A step that leaves the markets alone.
LEMMA MarketsQuiet ==
  ASSUME Typed, UNCHANGED <<now, marketVars>>, Clears
  PROVE  MarketStep
  <1>1. MarketOn' = MarketOn /\ MarketBraked' = MarketBraked
    BY DEF marketVars, MarketOn, MarketBraked, Withdrawn
  <1> QED
    BY <1>1, MarketElsewhere

\* The clock.
LEMMA MarketTick ==
  ASSUME Typed, Typed', now' > now, UNCHANGED <<readyAt, marketVars>>
  PROVE  MarketStep
  <1>1. MarketOn' = MarketOn /\ MarketBraked' = MarketBraked /\ MarketAnnounced' = MarketAnnounced
    BY MarketAnnouncements DEF marketVars, MarketOn, MarketBraked, Withdrawn
  <1>2. now' \in Nat
    BY MaxTimeAssumption DEF Typed, TypeOK, TimelockTypeOK
  <1>3. MarketSwitch!TimePasses
    BY <1>1, <1>2 DEF MarketSwitch!TimePasses, MarketOn, MarketBraked, MarketAnnounced, AllMarketLifts
  <1> QED
    BY <1>3, MarketActions

\* Queueing announces; it renews nothing that still stands.
LEMMA MarketQueue ==
  ASSUME Typed, NEW op \in Operations, Announce(op), UNCHANGED <<now, marketVars>>
  PROVE  MarketStep
  <1>1. MarketOn' = MarketOn /\ MarketBraked' = MarketBraked
    BY DEF marketVars, MarketOn, MarketBraked, Withdrawn
  <1>2. /\ now \in Nat \ {0} /\ Delay \in Nat \ {0} /\ Grace \in Nat /\ readyAt[op] \in Nat
        /\ readyAt' = [readyAt EXCEPT ![op] = now + Delay]
        /\ readyAt[op] = 0 \/ now > readyAt[op] + Grace
    BY ClockType, DelayAssumption, GraceAssumption DEF Typed, TypeOK, TimelockTypeOK, Announce, Expired
  <1>3. CASE op \in AllMarketLifts
    <2>1. MarketAnnounced' = [MarketAnnounced EXCEPT ![op] = now]
      BY <1>2, <1>3, MarketAnnouncements
    <2>2. MarketAnnounced[op] = IF readyAt[op] = 0 THEN 0 ELSE readyAt[op] - Delay
      BY <1>3 DEF MarketAnnounced, Announcements, AnnouncedAt
    <2>3. MarketAnnounced[op] = 0 \/ now > MarketAnnounced[op] + Delay + Grace
      BY <1>2, <2>2
    <2>4. MarketSwitch!AnnounceLift(op)
      BY <1>1, <1>3, <2>1, <2>3
      DEF MarketSwitch!AnnounceLift, MarketOn, MarketBraked, MarketAnnounced, AllMarketLifts
    <2> QED
      BY <1>3, <2>4, MarketActions
  <1>4. CASE op \notin AllMarketLifts
    <2> DEFINE v == now + Delay
    <2>1. v \in Nat /\ readyAt' = [readyAt EXCEPT ![op] = v]
      BY <1>2
    <2> HIDE DEF v
    <2>2. MarketAnnounced' = MarketAnnounced
      BY <1>4, <2>1, MarketAnnouncements
    <2> QED
      BY <1>1, <2>2, MarketStepIs
  <1> QED
    BY <1>3, <1>4

\* A matured operation announced no earlier than the last brake lifts it.
LEMMA MarketLift ==
  ASSUME Typed, NEW s \in MarketSwitches, NEW op \in MarketLifts[s], NEW brakeAt \in Nat, ConsumeAfter(op, brakeAt),
         MarketBraked[s] \in Nat, readyAt[op] >= MarketBraked[s] + Delay, now' = now,
         MarketOn'[s] = TRUE, \A t \in MarketSwitches \ {s} : MarketOn'[t] = MarketOn[t],
         MarketBraked' = MarketBraked
  PROVE  MarketStep
  <1>1. op \in AllMarketLifts /\ op \in Operations
    BY MarketLiftsAreOperations
  <1>2. /\ now \in Nat \ {0} /\ Delay \in Nat \ {0} /\ Grace \in Nat /\ readyAt[op] \in Nat
        /\ readyAt' = [readyAt EXCEPT ![op] = 0]
        /\ now >= readyAt[op] /\ readyAt[op] > brakeAt + Delay /\ ~(now > readyAt[op] + Grace)
    BY <1>1, ClockType, DelayAssumption, GraceAssumption
    DEF Typed, TypeOK, TimelockTypeOK, ConsumeAfter, Expired
  <1>3. MarketAnnounced[op] = readyAt[op] - Delay
    BY <1>1, <1>2 DEF MarketAnnounced, Announcements, AnnouncedAt
  <1>4. /\ MarketAnnounced[op] # 0
        /\ MarketAnnounced[op] >= MarketBraked[s]
        /\ now >= MarketAnnounced[op] + Delay
        /\ now <= MarketAnnounced[op] + Delay + Grace
    BY <1>2, <1>3
  <1>5. MarketOn' = [MarketOn EXCEPT ![s] = TRUE]
    <2> DEFINE f == MarketOn
               g == MarketOn'
    <2>1. f = [t \in MarketSwitches |-> f[t]] /\ g = [t \in MarketSwitches |-> g[t]]
      BY DEF MarketOn
    <2> HIDE DEF f, g
    <2>2. g[s] = TRUE /\ \A t \in MarketSwitches \ {s} : g[t] = f[t]
      BY DEF f, g
    <2>3. g = [f EXCEPT ![s] = TRUE]
      BY <2>1, <2>2, OnePlaceChanges
    <2> QED
      BY <2>3 DEF f, g
  <1>6. MarketAnnounced' = [MarketAnnounced EXCEPT ![op] = 0]
    BY <1>1, <1>2, MarketAnnouncements
  <1>7. MarketSwitch!Lift(s, op)
    BY <1>4, <1>5, <1>6 DEF MarketSwitch!Lift, MarketOn, MarketBraked, MarketAnnounced, AllMarketLifts
  <1> QED
    BY <1>7, MarketActions

\* A brake withdraws one permission and stamps it.
LEMMA MarketBrake ==
  ASSUME Typed, NEW s \in MarketSwitches, readyAt' = readyAt, now' = now,
         MarketOn'[s] = FALSE, \A t \in MarketSwitches \ {s} : MarketOn'[t] = MarketOn[t],
         MarketBraked'[s] = now, \A t \in MarketSwitches \ {s} : MarketBraked'[t] = MarketBraked[t]
  PROVE  MarketStep
  <1> DEFINE f == MarketOn
             g == MarketOn'
             b == MarketBraked
             c == MarketBraked'
  <1>1. /\ f = [t \in MarketSwitches |-> f[t]] /\ g = [t \in MarketSwitches |-> g[t]]
        /\ b = [t \in MarketSwitches |-> b[t]] /\ c = [t \in MarketSwitches |-> c[t]]
    BY DEF MarketOn, MarketBraked
  <1> HIDE DEF f, g, b, c
  <1>2. /\ g[s] = FALSE /\ \A t \in MarketSwitches \ {s} : g[t] = f[t]
        /\ c[s] = now /\ \A t \in MarketSwitches \ {s} : c[t] = b[t]
    BY DEF f, g, b, c
  <1>3. /\ g = [f EXCEPT ![s] = FALSE]
        /\ c = [b EXCEPT ![s] = now]
    <2>1. g = [f EXCEPT ![s] = FALSE]
      BY <1>1, <1>2, OnePlaceChanges
    <2>2. c = [b EXCEPT ![s] = now]
      BY <1>1, <1>2, OnePlaceChanges
    <2> QED
      BY <2>1, <2>2
  <1>4. MarketOn' = [MarketOn EXCEPT ![s] = FALSE] /\ MarketBraked' = [MarketBraked EXCEPT ![s] = now]
    BY <1>3 DEF f, g, b, c
  <1>5. MarketAnnounced' = [l \in AllMarketLifts |-> IF l \in {} THEN 0 ELSE MarketAnnounced[l]]
    BY MarketAnnouncements DEF MarketAnnounced, Announcements
  <1>6. MarketSwitch!Brake(s)
    <2>1. {} \in SUBSET MarketLifts[s]
      OBVIOUS
    <2> QED
      BY <1>4, <1>5, <2>1, MarketStepIs DEF MarketSwitch!Brake, MarketOn, MarketBraked, MarketAnnounced, AllMarketLifts
  <1> QED
    BY <1>6, MarketActions

\* Turning a permission off by an operation that lifts nothing.
LEMMA MarketOff ==
  ASSUME Typed, NEW s \in MarketSwitches, NEW op \in Operations \ AllMarketLifts,
         readyAt' = [readyAt EXCEPT ![op] = 0], now' = now,
         MarketOn'[s] = FALSE, \A t \in MarketSwitches \ {s} : MarketOn'[t] = MarketOn[t],
         MarketBraked' = MarketBraked
  PROVE  MarketStep
  <1> DEFINE f == MarketOn
             g == MarketOn'
  <1>1. f = [t \in MarketSwitches |-> f[t]] /\ g = [t \in MarketSwitches |-> g[t]]
    BY DEF MarketOn
  <1> HIDE DEF f, g
  <1>2. g[s] = FALSE /\ \A t \in MarketSwitches \ {s} : g[t] = f[t]
    BY DEF f, g
  <1>3. g = [f EXCEPT ![s] = FALSE]
    BY <1>1, <1>2, OnePlaceChanges
  <1>4. MarketOn' = [MarketOn EXCEPT ![s] = FALSE]
    BY <1>3 DEF f, g
  <1>5. MarketAnnounced' = MarketAnnounced
    BY MarketAnnouncements
  <1>6. MarketSwitch!SwitchOff(s)
    BY <1>4, <1>5 DEF MarketSwitch!SwitchOff, MarketOn, MarketBraked, MarketAnnounced, AllMarketLifts
  <1> QED
    BY <1>6, MarketActions

\* The position of each switch, before and after a step.
LEMMA MarketPositions ==
  /\ MarketOn[<<Markets>>] <=> ~paused
  /\ MarketOn'[<<Markets>>] <=> ~paused'
  /\ \A l \in Launchers : /\ MarketOn[<<"launcher", l>>] <=> l \in launchers
                          /\ MarketOn'[<<"launcher", l>>] <=> l \in launchers'
  /\ \A f \in Factories : /\ MarketOn[<<"factory", f>>] <=> f \in rootFactories
                          /\ MarketOn'[<<"factory", f>>] <=> f \in rootFactories'
  /\ \A r \in Roots : /\ MarketOn[<<"root", r>>] <=> ~roots[r].closed
                      /\ MarketOn'[<<"root", r>>] <=> ~roots'[r].closed
  /\ \A h \in Hooks : /\ MarketOn[<<"record", h>>] <=> h \in recorded
                      /\ MarketOn'[<<"record", h>>] <=> h \in recorded'
  <1>1. \A s \in UntimedSwitches : (MarketOn[s] <=> ~Withdrawn(s)) /\ (MarketOn'[s] <=> ~Withdrawn(s)')
    BY MarketForms DEF MarketOn
  <1>2. \A h \in Hooks : /\ MarketOn[<<"record", h>>] <=> h \in recorded
                         /\ MarketOn'[<<"record", h>>] <=> h \in recorded'
    BY MarketForms DEF MarketOn
  <1>3. /\ <<Markets>> \in UntimedSwitches
        /\ \A l \in Launchers : <<"launcher", l>> \in UntimedSwitches
        /\ \A f \in Factories : <<"factory", f>> \in UntimedSwitches
        /\ \A r \in Roots : <<"root", r>> \in UntimedSwitches
    BY DEF UntimedSwitches
  <1> QED
    BY <1>1, <1>2, <1>3, SwitchWithdrawn, Zenon

\* A step that moves at most one switch leaves the positions of the others.
LEMMA MarketOthers ==
  ASSUME NEW s, s # <<Markets>> => paused' = paused,
         \A l \in Launchers : s # <<"launcher", l>> => (l \in launchers' <=> l \in launchers),
         \A f \in Factories : s # <<"factory", f>> => (f \in rootFactories' <=> f \in rootFactories),
         \A r \in Roots : s # <<"root", r>> => roots'[r].closed = roots[r].closed,
         \A h \in Hooks : s # <<"record", h>> => (h \in recorded' <=> h \in recorded)
  PROVE  \A t \in MarketSwitches \ {s} : MarketOn'[t] = MarketOn[t]
  <1> SUFFICES ASSUME NEW t \in MarketSwitches, t # s
               PROVE  MarketOn'[t] <=> MarketOn[t]
    BY MarketOnType
  <1>1. CASE t = <<Markets>>
    BY <1>1, MarketPositions
  <1>2. ASSUME NEW l \in Launchers, t = <<"launcher", l>>
        PROVE  MarketOn'[t] <=> MarketOn[t]
    BY <1>2, MarketPositions
  <1>3. ASSUME NEW f \in Factories, t = <<"factory", f>>
        PROVE  MarketOn'[t] <=> MarketOn[t]
    BY <1>3, MarketPositions
  <1>4. ASSUME NEW r \in Roots, t = <<"root", r>>
        PROVE  MarketOn'[t] <=> MarketOn[t]
    BY <1>4, MarketPositions
  <1>5. ASSUME NEW h \in Hooks, t = <<"record", h>>
        PROVE  MarketOn'[t] <=> MarketOn[t]
    BY <1>5, MarketPositions
  <1> QED
    BY <1>1, <1>2, <1>3, <1>4, <1>5, SwitchForms DEF MarketSwitches, RecordSwitches

\* Last brakes.
LEMMA MarketBrakeTimes ==
  /\ \A s \in UntimedSwitches : MarketBraked[s] = heldSince[s] /\ MarketBraked'[s] = heldSince'[s]
  /\ \A h \in Hooks : /\ MarketBraked[<<"record", h>>] = delistedAt[h]
                      /\ MarketBraked'[<<"record", h>>] = delistedAt'[h]
  /\ UNCHANGED <<heldSince, delistedAt>> => MarketBraked' = MarketBraked
  BY MarketForms DEF MarketBraked

\* Lifting an untimed switch.
LEMMA UntimedLift ==
  ASSUME BrakeInvariant, NEW s \in UntimedSwitches, Consume(LiftOf(s)), UNCHANGED <<now, heldSince, delistedAt>>,
         MarketOn'[s], \A t \in MarketSwitches \ {s} : MarketOn'[t] = MarketOn[t]
  PROVE  MarketStep
  <1>1. Typed /\ s \in MarketSwitches /\ LiftOf(s) \in MarketLifts[s] /\ LiftOf(s) \in Operations
    BY MarketForms, LiftIsOperation DEF BrakeInvariant
  <1>2. ConsumeAfter(LiftOf(s), 0)
    BY DEF Consume
  <1>3. readyAt[LiftOf(s)] # 0
    BY <1>2 DEF ConsumeAfter
  <1>4. readyAt[LiftOf(s)] >= heldSince[s] + Delay
    BY <1>3 DEF BrakeInvariant, NoLiftAheadOfBrake
  <1>5. MarketBraked[s] = heldSince[s] /\ heldSince[s] \in Nat /\ MarketBraked' = MarketBraked
    BY <1>1, MarketBrakeTimes DEF Typed, TypeOK, MarketTypeOK
  <1>6. MarketOn'[s] = TRUE
    BY <1>1, MarketOnType
  <1>7. MarketBraked[s] \in Nat /\ readyAt[LiftOf(s)] >= MarketBraked[s] + Delay
    BY <1>4, <1>5
  <1> DEFINE op == LiftOf(s)
  <1>8. op \in MarketLifts[s] /\ ConsumeAfter(op, 0) /\ readyAt[op] >= MarketBraked[s] + Delay
    BY <1>1, <1>2, <1>7
  <1> HIDE DEF op
  <1>9. 0 \in Nat
    OBVIOUS
  <1> QED
    BY <1>1, <1>5, <1>6, <1>7, <1>8, <1>9, MarketLift

\* Braking one.
LEMMA UntimedBrake ==
  ASSUME Typed, NEW s \in UntimedSwitches, Hold(s), UNCHANGED <<now, readyAt, delistedAt>>,
         ~MarketOn'[s], \A t \in MarketSwitches \ {s} : MarketOn'[t] = MarketOn[t]
  PROVE  MarketStep
  <1>1. s \in MarketSwitches
    BY MarketForms
  <1>2. heldSince' = [heldSince EXCEPT ![s] = now] /\ heldSince \in [UntimedSwitches -> Nat]
    BY DEF Hold, Typed, TypeOK, MarketTypeOK
  <1>3. MarketBraked'[s] = now
    BY <1>2, MarketBrakeTimes
  <1>4. ASSUME NEW t \in MarketSwitches, t # s
        PROVE  MarketBraked'[t] = MarketBraked[t]
    <2>1. CASE t \in UntimedSwitches
      BY <1>2, <1>4, <2>1, MarketBrakeTimes
    <2>2. ASSUME NEW h \in Hooks, t = <<"record", h>>
          PROVE  MarketBraked'[t] = MarketBraked[t]
      BY <2>2, MarketBrakeTimes
    <2> QED
      BY <2>1, <2>2 DEF MarketSwitches, RecordSwitches
  <1>5. MarketOn'[s] = FALSE
    BY <1>1, MarketOnType
  <1> QED
    BY <1>1, <1>3, <1>4, <1>5, MarketBrake

\* No switch of the markets moves.
SwitchesRest ==
  /\ UNCHANGED <<now, paused, launchers, rootFactories, recorded, delistedAt, heldSince>>
  /\ \A r \in Roots : roots'[r].closed = roots[r].closed
  /\ Clears

\* A step that moves none is one too, whatever else it does to the roots.
LEMMA MarketRests ==
  ASSUME Typed, SwitchesRest
  PROVE  MarketStep
  <1> USE DEF SwitchesRest
  <1> DEFINE nothing == <<"nothing">>
  <1>1. \A t \in MarketSwitches \ {nothing} : MarketOn'[t] = MarketOn[t]
    BY MarketOthers
  <1>2. nothing \notin MarketSwitches
    <2>1. \A t \in RecordSwitches : t # nothing
      BY DEF RecordSwitches
    <2>2. \A t \in UntimedSwitches : t # nothing
      BY DEF UntimedSwitches, Markets
    <2> QED
      BY <2>1, <2>2 DEF MarketSwitches
  <1>3. MarketOn' = MarketOn
    BY <1>1, <1>2 DEF MarketOn
  <1> QED
    BY <1>3, MarketBrakeTimes, MarketElsewhere

\* What one account does to the markets, action by action.
LEMMA MarketRefines ==
  ASSUME BrakeInvariant, Typed', NEW caller \in Accounts, MarketAction(caller)
  PROVE  MarketStep
  <1>1. /\ Typed /\ now \in Nat /\ roots \in [Roots -> RootState]
        /\ \A r \in Roots : roots[r].closed => roots[r].registered
    BY ClockType DEF BrakeInvariant, Typed, TypeOK, TimelockTypeOK, MarketTypeOK
  <1>2. /\ <<Markets>> \in UntimedSwitches
        /\ \A l \in Launchers : <<"launcher", l>> \in UntimedSwitches
        /\ \A f \in Factories : <<"factory", f>> \in UntimedSwitches
        /\ \A r \in Roots : <<"root", r>> \in UntimedSwitches
    BY DEF UntimedSwitches
  <1>3. /\ \A l \in Launchers, on \in BOOLEAN : <<"SET_LAUNCHER", l, on>> \in Operations
        /\ \A f \in Factories, on \in BOOLEAN : <<"SET_ROOT_FACTORY", f, on>> \in Operations
        /\ \A r \in Roots : <<"REGISTER_ROOT", r>> \in Operations /\ <<"RETIRE_ROOT", r>> \in Operations
    BY DEF Operations, MarketOperations
  <1>4. SwitchesRest => MarketStep
    BY <1>1, MarketRests
  <1>5. ASSUME NEW l \in Launchers, NEW on \in BOOLEAN, SetLauncher(caller, l, on)
        PROVE  MarketStep
    <2> DEFINE s == <<"launcher", l>>
    <2>1. \A k \in Launchers : s # <<"launcher", k>> => (k \in launchers' <=> k \in launchers)
      BY <1>5 DEF SetLauncher
    <2>2. \A t \in MarketSwitches \ {s} : MarketOn'[t] = MarketOn[t]
      <3> HIDE DEF s
      <3> QED
        BY <1>5, <2>1, MarketOthers DEF SetLauncher
    <2>3. CASE on
      <3>1. LiftOf(s) = <<"SET_LAUNCHER", l, on>>
        BY <2>3 DEF LiftOf, Markets
      <3>2. MarketOn'[s]
        BY <1>5, <2>3, MarketPositions DEF SetLauncher
      <3> QED
        BY <1>2, <1>5, <2>2, <3>1, <3>2, UntimedLift DEF SetLauncher
    <2>4. CASE ~on
      <3> DEFINE op == <<"SET_LAUNCHER", l, on>>
      <3>1. op \in Operations \ AllMarketLifts
        BY <1>3, <2>4, OffLiftsNothing
      <3>2. readyAt' = [readyAt EXCEPT ![op] = 0]
        BY <1>5 DEF SetLauncher, Consume, ConsumeAfter
      <3>3. ~MarketOn'[s] /\ s \in MarketSwitches
        BY <1>2, <1>5, <2>4, MarketPositions, MarketForms DEF SetLauncher
      <3>4. MarketOn'[s] = FALSE
        BY <3>3, MarketOnType
      <3>5. MarketBraked' = MarketBraked /\ now' = now
        BY <1>5, MarketBrakeTimes DEF SetLauncher
      <3> HIDE DEF op, s
      <3> QED
        BY <1>1, <2>2, <3>1, <3>2, <3>3, <3>4, <3>5, MarketOff
    <2> QED
      BY <2>3, <2>4
  <1>6. ASSUME NEW f \in Factories, NEW on \in BOOLEAN, SetRootFactory(caller, f, on)
        PROVE  MarketStep
    <2> DEFINE s == <<"factory", f>>
    <2>1. \A k \in Factories : s # <<"factory", k>> => (k \in rootFactories' <=> k \in rootFactories)
      BY <1>6 DEF SetRootFactory
    <2>2. \A t \in MarketSwitches \ {s} : MarketOn'[t] = MarketOn[t]
      <3> HIDE DEF s
      <3> QED
        BY <1>6, <2>1, MarketOthers DEF SetRootFactory
    <2>3. CASE on
      <3>1. LiftOf(s) = <<"SET_ROOT_FACTORY", f, on>>
        BY <2>3 DEF LiftOf, Markets
      <3>2. MarketOn'[s]
        BY <1>6, <2>3, MarketPositions DEF SetRootFactory
      <3> QED
        BY <1>2, <1>6, <2>2, <3>1, <3>2, UntimedLift DEF SetRootFactory
    <2>4. CASE ~on
      <3> DEFINE op == <<"SET_ROOT_FACTORY", f, on>>
      <3>1. op \in Operations \ AllMarketLifts
        BY <1>3, <2>4, OffLiftsNothing
      <3>2. readyAt' = [readyAt EXCEPT ![op] = 0]
        BY <1>6 DEF SetRootFactory, Consume, ConsumeAfter
      <3>3. ~MarketOn'[s] /\ s \in MarketSwitches
        BY <1>2, <1>6, <2>4, MarketPositions, MarketForms DEF SetRootFactory
      <3>4. MarketOn'[s] = FALSE
        BY <3>3, MarketOnType
      <3>5. MarketBraked' = MarketBraked /\ now' = now
        BY <1>6, MarketBrakeTimes DEF SetRootFactory
      <3> HIDE DEF op, s
      <3> QED
        BY <1>1, <2>2, <3>1, <3>2, <3>3, <3>4, <3>5, MarketOff
    <2> QED
      BY <2>3, <2>4
  <1>7. ASSUME NEW l \in Launchers, DeactivateLauncher(caller, l)
        PROVE  MarketStep
    <2> DEFINE s == <<"launcher", l>>
    <2>1. \A k \in Launchers : s # <<"launcher", k>> => (k \in launchers' <=> k \in launchers)
      BY <1>7 DEF DeactivateLauncher
    <2>2. ~MarketOn'[s] /\ s \in UntimedSwitches
      BY <1>2, <1>7, MarketPositions DEF DeactivateLauncher
    <2> HIDE DEF s
    <2>3. \A t \in MarketSwitches \ {s} : MarketOn'[t] = MarketOn[t]
      BY <1>7, <2>1, MarketOthers DEF DeactivateLauncher
    <2> QED
      BY <1>1, <1>7, <2>2, <2>3, UntimedBrake DEF DeactivateLauncher, s
  <1>8. ASSUME NEW f \in Factories, DeactivateRootFactory(caller, f)
        PROVE  MarketStep
    <2> DEFINE s == <<"factory", f>>
    <2>1. \A k \in Factories : s # <<"factory", k>> => (k \in rootFactories' <=> k \in rootFactories)
      BY <1>8 DEF DeactivateRootFactory
    <2>2. ~MarketOn'[s] /\ s \in UntimedSwitches
      BY <1>2, <1>8, MarketPositions DEF DeactivateRootFactory
    <2> HIDE DEF s
    <2>3. \A t \in MarketSwitches \ {s} : MarketOn'[t] = MarketOn[t]
      BY <1>8, <2>1, MarketOthers DEF DeactivateRootFactory
    <2> QED
      BY <1>1, <1>8, <2>2, <2>3, UntimedBrake DEF DeactivateRootFactory, s
  <1>9. ASSUME NEW r \in Roots, CloseRoot(caller, r)
        PROVE  MarketStep
    <2> DEFINE s == <<"root", r>>
    <2>1. \A k \in Roots : s # <<"root", k>> => roots'[k].closed = roots[k].closed
      BY <1>1, <1>9 DEF CloseRoot
    <2>2. ~MarketOn'[s] /\ s \in UntimedSwitches
      BY <1>1, <1>2, <1>9, MarketPositions DEF CloseRoot, RootState
    <2> HIDE DEF s
    <2>3. \A t \in MarketSwitches \ {s} : MarketOn'[t] = MarketOn[t]
      BY <1>9, <2>1, MarketOthers DEF CloseRoot
    <2> QED
      BY <1>1, <1>9, <2>2, <2>3, UntimedBrake DEF CloseRoot, s
  <1>10. CASE PauseNewMarkets(caller)
    <2> DEFINE s == <<Markets>>
    <2>1. ~MarketOn'[s] /\ s \in UntimedSwitches
      BY <1>2, <1>10, MarketPositions DEF PauseNewMarkets
    <2>2. \A t \in MarketSwitches \ {s} : MarketOn'[t] = MarketOn[t]
      BY <1>10, MarketOthers DEF PauseNewMarkets
    <2> HIDE DEF s
    <2> QED
      BY <1>1, <1>10, <2>1, <2>2, UntimedBrake DEF PauseNewMarkets, s
  <1>11. CASE ResumeNewMarkets(caller)
    <2> DEFINE s == <<Markets>>
    <2>1. MarketOn'[s]
      BY <1>11, MarketPositions DEF ResumeNewMarkets
    <2>2. LiftOf(s) = <<"RESUME_NEW_MARKETS">>
      BY DEF LiftOf, Markets
    <2>3. \A t \in MarketSwitches \ {s} : MarketOn'[t] = MarketOn[t]
      BY <1>11, MarketOthers DEF ResumeNewMarkets
    <2> QED
      BY <1>2, <1>11, <2>1, <2>2, <2>3, UntimedLift DEF ResumeNewMarkets
  <1>12. ASSUME NEW r \in Roots, ReopenRoot(caller, r)
         PROVE  MarketStep
    <2> DEFINE s == <<"root", r>>
    <2>1. \A k \in Roots : s # <<"root", k>> => roots'[k].closed = roots[k].closed
      BY <1>1, <1>12 DEF ReopenRoot
    <2>2. MarketOn'[s] /\ s \in UntimedSwitches
      BY <1>1, <1>2, <1>12, MarketPositions DEF ReopenRoot, RootState
    <2>3. LiftOf(s) = <<"REOPEN_ROOT", r>>
      BY DEF LiftOf, Markets
    <2> HIDE DEF s
    <2>4. \A t \in MarketSwitches \ {s} : MarketOn'[t] = MarketOn[t]
      BY <1>12, <2>1, MarketOthers DEF ReopenRoot
    <2> QED
      BY <1>12, <2>2, <2>3, <2>4, UntimedLift DEF ReopenRoot
  <1>13. ASSUME NEW r \in Roots, RegisterRoot(caller, r)
         PROVE  MarketStep
    <2>1. ~roots[r].registered
      BY <1>13 DEF RegisterRoot, CheckRoot
    <2>2. ~roots[r].closed /\ roots[r].closed \in BOOLEAN
      BY <1>1, <2>1 DEF RootState
    <2>3. \A q \in Roots : roots'[q].closed = roots[q].closed
      BY <1>1, <1>13, <2>2 DEF RegisterRoot, Unregistered
    <2> QED
      BY <1>3, <1>4, <1>13, <2>3, ConsumeClears DEF RegisterRoot, Consume, SwitchesRest
  <1>14. ASSUME NEW r \in Roots, RetireRoot(caller, r)
         PROVE  MarketStep
    <2>1. \A q \in Roots : roots'[q].closed = roots[q].closed
      BY <1>1, <1>14 DEF RetireRoot, RootState
    <2> QED
      BY <1>3, <1>4, <1>14, <2>1, ConsumeClears DEF RetireRoot, Consume, SwitchesRest
  <1>15. ASSUME NEW r \in Roots, FreezeRoot(caller, r)
         PROVE  MarketStep
    <2>1. \A q \in Roots : roots'[q].closed = roots[q].closed
      BY <1>1, <1>15 DEF FreezeRoot, RootState
    <2> QED
      BY <1>4, <1>15, <2>1 DEF FreezeRoot, Clears, SwitchesRest
  <1>16. ASSUME NEW h \in Hooks, SetExternalHook(caller, h)
         PROVE  MarketStep
    <2> DEFINE s == <<"record", h>>
               op == <<"RECORD_EXTERNAL_HOOK", h>>
    <2>1. s \in MarketSwitches /\ op \in MarketLifts[s] /\ op \in Operations
      BY MarketForms, MarketLiftsAreOperations
    <2>2. ConsumeAfter(op, delistedAt[h]) /\ UNCHANGED <<now, heldSince, delistedAt>>
      BY <1>16 DEF SetExternalHook
    <2>3. MarketBraked[s] = delistedAt[h] /\ delistedAt[h] \in Nat /\ MarketBraked' = MarketBraked
      BY <1>1, <2>2, MarketBrakeTimes DEF Typed, TypeOK, MarketTypeOK
    <2>4. readyAt[op] \in Nat /\ readyAt[op] > delistedAt[h] + Delay
      BY <1>1, <2>1, <2>2 DEF ConsumeAfter, Typed, TypeOK, TimelockTypeOK
    <2>5. readyAt[op] >= MarketBraked[s] + Delay /\ MarketBraked[s] \in Nat
      BY <2>3, <2>4, DelayAssumption
    <2>6. MarketOn'[s]
      BY <1>16, MarketPositions DEF SetExternalHook
    <2>7. MarketOn'[s] = TRUE
      BY <2>1, <2>6, MarketOnType
    <2>8. \A k \in Hooks : s # <<"record", k>> => (k \in recorded' <=> k \in recorded)
      BY <1>16 DEF SetExternalHook
    <2> HIDE DEF s, op
    <2>9. \A t \in MarketSwitches \ {s} : MarketOn'[t] = MarketOn[t]
      BY <1>16, <2>8, MarketOthers DEF SetExternalHook
    <2> QED
      BY <1>1, <2>1, <2>2, <2>3, <2>5, <2>7, <2>9, MarketLift
  <1>17. ASSUME NEW h \in Hooks, DropExternalHookRecord(caller, h)
         PROVE  MarketStep
    <2> DEFINE s == <<"record", h>>
    <2>1. s \in MarketSwitches
      BY MarketForms
    <2>2. delistedAt' = [delistedAt EXCEPT ![h] = now] /\ delistedAt \in [Hooks -> Nat] /\ heldSince' = heldSince
      BY <1>1, <1>17 DEF DropExternalHookRecord, Typed, TypeOK, MarketTypeOK
    <2>3. MarketBraked'[s] = now
      BY <2>2, MarketBrakeTimes
    <2>4. ASSUME NEW t \in MarketSwitches, t # s
          PROVE  MarketBraked'[t] = MarketBraked[t]
      <3>1. CASE t \in UntimedSwitches
        BY <2>2, <3>1, MarketBrakeTimes
      <3>2. ASSUME NEW k \in Hooks, t = <<"record", k>>
            PROVE  MarketBraked'[t] = MarketBraked[t]
        BY <2>2, <2>4, <3>2, MarketBrakeTimes
      <3> QED
        BY <3>1, <3>2 DEF MarketSwitches, RecordSwitches
    <2>5. ~MarketOn'[s]
      BY <1>17, MarketPositions DEF DropExternalHookRecord
    <2>6. MarketOn'[s] = FALSE
      BY <2>1, <2>5, MarketOnType
    <2>7. \A k \in Hooks : s # <<"record", k>> => (k \in recorded' <=> k \in recorded)
      BY <1>17 DEF DropExternalHookRecord
    <2> HIDE DEF s
    <2>8. \A t \in MarketSwitches \ {s} : MarketOn'[t] = MarketOn[t]
      BY <1>17, <2>7, MarketOthers DEF DropExternalHookRecord
    <2> QED
      BY <1>1, <1>17, <2>1, <2>3, <2>4, <2>6, <2>8, MarketBrake DEF DropExternalHookRecord
  <1> QED
    BY <1>5, <1>6, <1>7, <1>8, <1>9, <1>10, <1>11, <1>12, <1>13, <1>14, <1>15, <1>16, <1>17 DEF MarketAction

\* What one account does to the markets or the quotes clears at most one ready
\* time, without the clock.
LEMMA ActionsClear ==
  ASSUME NEW caller \in Accounts, MarketAction(caller) \/ QuoteAction(caller)
  PROVE  now' = now /\ Clears
  <1>1. /\ \A l \in Launchers, on \in BOOLEAN : <<"SET_LAUNCHER", l, on>> \in Operations
        /\ \A f \in Factories, on \in BOOLEAN : <<"SET_ROOT_FACTORY", f, on>> \in Operations
        /\ \A r \in Roots : /\ <<"REGISTER_ROOT", r>> \in Operations
                            /\ <<"RETIRE_ROOT", r>> \in Operations
                            /\ <<"REOPEN_ROOT", r>> \in Operations
        /\ <<"RESUME_NEW_MARKETS">> \in Operations
        /\ \A h \in Hooks : <<"RECORD_EXTERNAL_HOOK", h>> \in Operations
    BY DEF Operations, MarketOperations
  <1>2. /\ \A a \in Assets, on \in BOOLEAN : <<"SET_QUOTE", a, on>> \in Operations
        /\ \A a \in Assets : <<"REOPEN_QUOTE", a>> \in Operations
        /\ \A c \in Classes : <<"SET_QUOTE_CLASS", c>> \in Operations
        /\ <<"ANY_QUOTE">> \in Operations
        /\ \A x \in Currencies : <<"ADD_SETTLEMENT", x>> \in Operations
    BY DEF Operations, QuoteOperations
  <1>3. readyAt' = readyAt => Clears
    BY DEF Clears
  <1>4. ASSUME NEW l \in Launchers, NEW on \in BOOLEAN, SetLauncher(caller, l, on)
        PROVE  now' = now /\ Clears
    BY <1>1, <1>4, ConsumeClears DEF SetLauncher, Consume
  <1>5. ASSUME NEW f \in Factories, NEW on \in BOOLEAN, SetRootFactory(caller, f, on)
        PROVE  now' = now /\ Clears
    BY <1>1, <1>5, ConsumeClears DEF SetRootFactory, Consume
  <1>6. ASSUME NEW r \in Roots, RegisterRoot(caller, r) \/ RetireRoot(caller, r) \/ ReopenRoot(caller, r)
        PROVE  now' = now /\ Clears
    BY <1>1, <1>6, ConsumeClears DEF RegisterRoot, RetireRoot, ReopenRoot, Consume
  <1>7. ASSUME NEW r \in Roots, FreezeRoot(caller, r) \/ CloseRoot(caller, r)
        PROVE  now' = now /\ Clears
    BY <1>3, <1>7 DEF FreezeRoot, CloseRoot
  <1>8. CASE PauseNewMarkets(caller)
    BY <1>3, <1>8 DEF PauseNewMarkets
  <1>9. CASE ResumeNewMarkets(caller)
    BY <1>1, <1>9, ConsumeClears DEF ResumeNewMarkets, Consume
  <1>10. ASSUME NEW h \in Hooks, SetExternalHook(caller, h)
         PROVE  now' = now /\ Clears
    BY <1>1, <1>10, ConsumeClears DEF SetExternalHook
  <1>11. ASSUME NEW x, DeactivateLauncher(caller, x) \/ DeactivateRootFactory(caller, x) \/ DropExternalHookRecord(caller, x)
         PROVE  now' = now /\ Clears
    BY <1>3, <1>11 DEF DeactivateLauncher, DeactivateRootFactory, DropExternalHookRecord
  <1>12. CASE MarketAction(caller)
    BY <1>4, <1>5, <1>6, <1>7, <1>8, <1>9, <1>10, <1>11, <1>12 DEF MarketAction
  <1>13. ASSUME NEW a \in Assets, NEW on \in BOOLEAN, SetQuote(caller, a, on)
         PROVE  now' = now /\ Clears
    <2> DEFINE brakeAt == IF on THEN lastBrakeAt[a] ELSE 0
    <2>1. ConsumeAfter(<<"SET_QUOTE", a, on>>, brakeAt) /\ now' = now
      BY <1>13 DEF SetQuote
    <2> HIDE DEF brakeAt
    <2> QED
      BY <1>2, <2>1, ConsumeClears
  <1>14. ASSUME NEW a \in Assets, ReopenSingleQuote(caller, a)
         PROVE  now' = now /\ Clears
    BY <1>2, <1>14, ConsumeClears DEF ReopenSingleQuote
  <1>15. ASSUME NEW c \in Classes, InstallQuoteClass(caller, c)
         PROVE  now' = now /\ Clears
    BY <1>2, <1>15, ConsumeClears DEF InstallQuoteClass
  <1>16. CASE AuthorizeAnyQuote(caller)
    BY <1>2, <1>16, ConsumeClears DEF AuthorizeAnyQuote
  <1>17. ASSUME NEW x \in Currencies, AddSettlementCurrency(caller, x)
         PROVE  now' = now /\ Clears
    BY <1>2, <1>17, ConsumeClears DEF AddSettlementCurrency
  <1>18. ASSUME NEW x, BrakeOneQuote(caller, x) \/ DropQuoteClass(caller, x) \/ RemoveSettlementCurrency(caller, x)
         PROVE  now' = now /\ Clears
    BY <1>3, <1>18 DEF BrakeOneQuote, DropQuoteClass, RemoveSettlementCurrency
  <1>19. CASE DismissAnyQuote(caller)
    BY <1>3, <1>19 DEF DismissAnyQuote
  <1>20. CASE QuoteAction(caller)
    BY <1>13, <1>14, <1>15, <1>16, <1>17, <1>18, <1>19, <1>20 DEF QuoteAction
  <1> QED
    BY <1>12, <1>20

\* What a step is to the switches.
StepKinds ==
  \/ \E caller \in Accounts : MarketAction(caller) /\ UNCHANGED quoteVars
  \/ \E caller \in Accounts : QuoteAction(caller) /\ UNCHANGED marketVars
  \/ \E op \in Operations : Announce(op) /\ UNCHANGED <<now, marketVars, quoteVars>>
  \/ now' > now /\ UNCHANGED <<readyAt, marketVars, quoteVars>>
  \/ SwitchesRest /\ UNCHANGED quoteVars

\* Every step is one of these five.
LEMMA StepsAreKinds ==
  ASSUME BrakeInvariant, [Next]_vars
  PROVE  StepKinds
  <1>1. /\ now \in Nat /\ roots \in [Roots -> RootState]
        /\ \A r \in Roots : roots[r].closed => roots[r].registered
    BY ClockType DEF BrakeInvariant, Typed, TypeOK, TimelockTypeOK, MarketTypeOK
  <1>2. UNCHANGED <<now, marketVars, quoteVars>> /\ Clears => StepKinds
    BY DEF StepKinds, SwitchesRest, marketVars
  <1>3. readyAt' = readyAt => Clears
    BY DEF Clears
  <1>4. ASSUME NEW caller \in Accounts, By(caller)
        PROVE  StepKinds
    <2>1. ASSUME NEW op \in Agenda, Queue(caller, op)
          PROVE  StepKinds
      BY <2>1, AgendaAssumption DEF Queue, StepKinds
    <2>2. CASE /\ (\E op \in Operations : Cancel(caller, op)) \/ Governance(caller)
               /\ UNCHANGED <<marketVars, quoteVars, laneVars, admissionVars>>
      <3>1. ASSUME NEW op \in Operations, Cancel(caller, op)
            PROVE  now' = now /\ Clears
        BY <3>1 DEF Cancel, Clears
      <3>2. ASSUME Governance(caller)
            PROVE  now' = now /\ Clears
        <4>1. /\ \A a \in Accounts : <<"TRANSFER_OWNER", a>> \in Operations
              /\ \A a \in Accounts \cup {NoOne} : <<"SET_GUARDIAN", a>> \in Operations
          BY DEF Operations, GovernanceOperations
        <4>2. ASSUME NEW next \in Accounts, TransferOwnership(caller, next)
              PROVE  now' = now /\ Clears
          BY <4>1, <4>2, ConsumeClears DEF TransferOwnership, Consume
        <4>3. ASSUME NEW next \in Accounts \cup {NoOne}, SetGuardian(caller, next)
              PROVE  now' = now /\ Clears
          BY <4>1, <4>3, ConsumeClears DEF SetGuardian, Consume
        <4>4. CASE CancelOwnershipTransfer(caller) \/ AcceptOwnership(caller) \/ RemoveGuardian(caller)
          BY <1>3, <4>4 DEF CancelOwnershipTransfer, AcceptOwnership, RemoveGuardian
        <4> QED
          BY <3>2, <4>2, <4>3, <4>4 DEF Governance
      <3> QED
        BY <1>2, <2>2, <3>1, <3>2
    <2>3. CASE MarketAction(caller) /\ UNCHANGED <<quoteVars, laneVars, admissionVars>>
      BY <2>3 DEF StepKinds
    <2>4. CASE QuoteAction(caller) /\ UNCHANGED <<marketVars, laneVars, admissionVars>>
      BY <2>4 DEF StepKinds
    <2>5. CASE LaneAction(caller) /\ UNCHANGED <<quoteVars, admissionVars>>
      <3>1. \A r \in Roots, e \in Executors, g \in GasCaps :
              <<"OPEN_LANE", r, e, g>> \in Operations /\ <<"LANE_ON", r, e, g>> \in Operations
        BY DEF Operations, LaneOperations
      <3>2. ASSUME NEW r \in Roots, CloseLane(caller, r)
            PROVE  Clears
        BY <1>3, <3>2 DEF CloseLane
      <3>3. ASSUME NEW r \in Roots, NEW e \in Executors, StopExecutor(caller, r, e)
            PROVE  Clears
        BY <1>3, <3>3 DEF StopExecutor
      <3>4. ASSUME NEW r \in Roots, NEW e \in Executors, NEW g \in GasCaps,
                   OpenLane(caller, r, e, g) \/ TuneExecutor(caller, r, e, g) \/ StartExecutor(caller, r, e, g)
            PROVE  Clears
        BY <1>3, <3>1, <3>4, ConsumeClears DEF OpenLane, TuneExecutor, StartExecutor
      <3>5. Clears
        BY <2>5, <3>2, <3>3, <3>4 DEF LaneAction
      <3> QED
        BY <1>2, <2>5, <3>5, LanesLeaveRoots
    <2>6. CASE AdmissionAction(caller) /\ UNCHANGED <<quoteVars, laneVars>>
      <3>1. /\ \A s \in Scopes, m \in Modules, k \in Kinds : <<"ADMIT", s, m, k>> \in Operations
            /\ \A s \in Scopes, m \in Modules, b \in Bonds : <<"SET_ADMISSION_BOND", s, m, b>> \in Operations
        BY DEF Operations, AdmissionOperations
      <3>2. ASSUME NEW s \in Scopes, NEW ms, Revoke(s, ms)
            PROVE  UNCHANGED <<now, marketVars>> /\ Clears
        BY <1>3, <3>2 DEF Revoke
      <3>3. ASSUME NEW s \in Scopes, NEW m \in Modules, NEW k \in Kinds, Admit(caller, s, m, k)
            PROVE  UNCHANGED <<now, marketVars>> /\ Clears
        BY <3>1, <3>3, ConsumeClears DEF Admit, Consume
      <3>4. ASSUME NEW s \in Scopes, NEW m \in Modules, NEW b \in Bonds, PinModuleBond(caller, s, m, b)
            PROVE  UNCHANGED <<now, marketVars>> /\ Clears
        BY <3>1, <3>4, ConsumeClears DEF PinModuleBond, Consume
      <3>5. ASSUME NEW s \in Scopes, NEW ms \in SUBSET Modules, RevokeFactoryAdmissions(caller, s, ms)
            PROVE  UNCHANGED <<now, marketVars>> /\ Clears
        BY <3>2, <3>5 DEF RevokeFactoryAdmissions
      <3>6. ASSUME NEW s \in Scopes, NEW m \in Modules, RevokeModuleAdmission(caller, s, m)
            PROVE  UNCHANGED <<now, marketVars>> /\ Clears
        <4>1. Revoke(s, {m})
          BY <3>6 DEF RevokeModuleAdmission
        <4> QED
          BY <3>2, <4>1
      <3> QED
        BY <1>2, <2>6, <3>3, <3>4, <3>5, <3>6 DEF AdmissionAction
    <2> QED
      BY <1>4, <2>1, <2>2, <2>3, <2>4, <2>5, <2>6 DEF By
  <1>5. ASSUME NEW r \in Roots, ~roots[r].registered, NEW root \in RootState, ~root.closed,
               roots' = [roots EXCEPT ![r] = root],
               UNCHANGED <<now, readyAt, paused, launchers, rootFactories, recorded, delistedAt, heldSince, quoteVars>>
        PROVE  StepKinds
    <2>1. roots[r].closed = FALSE /\ root.closed = FALSE
      BY <1>1, <1>5 DEF RootState
    <2>2. \A q \in Roots : roots'[q].closed = roots[q].closed
      BY <1>1, <1>5, <2>1
    <2> QED
      BY <1>3, <1>5, <2>2 DEF StepKinds, SwitchesRest
  <1>6. CASE ByFactory
    <2>1. ASSUME NEW f \in Factories, NEW r \in PairRoots, RegisterFactoryRoot(f, r), UNCHANGED quoteVars
          PROVE  StepKinds
      <3> DEFINE root == [Unregistered EXCEPT !.registered = TRUE, !.active = TRUE, !.factory = f]
      <3>1. root \in RootState /\ ~root.closed /\ roots' = [roots EXCEPT ![r] = root]
        BY <2>1 DEF RegisterFactoryRoot, Unregistered, RootState
      <3> HIDE DEF root
      <3> QED
        BY <1>5, <2>1, <3>1 DEF RegisterFactoryRoot, Roots
    <2>2. ASSUME NEW f \in Factories, NEW r \in OwnedRoots, NEW template \in Roots,
                 NEW rules \in Modules, NEW companion \in Modules, NEW copies \in SUBSET Modules,
                 RegisterOwnedRoot(f, r, template, rules, companion, copies)
          PROVE  StepKinds
      <3> DEFINE root == [Unregistered EXCEPT !.registered = TRUE, !.active = TRUE, !.frozen = TRUE]
      <3>1. root \in RootState /\ ~root.closed /\ roots' = [roots EXCEPT ![r] = root]
        BY <2>2 DEF RegisterOwnedRoot, Unregistered, RootState
      <3> HIDE DEF root
      <3> QED
        BY <1>5, <2>2, <3>1 DEF RegisterOwnedRoot, Roots, timelockVars
    <2> QED
      BY <1>6, <2>1, <2>2 DEF ByFactory
  <1>7. CASE Environment
    <2>1. CASE Tick /\ UNCHANGED <<marketVars, quoteVars, laneVars, admissionVars>>
      BY <1>1, <2>1 DEF Tick, StepKinds
    <2>2. ASSUME NEW b \in Bonds, BondTurns(b), UNCHANGED <<quoteVars, laneVars>>
          PROVE  StepKinds
      BY <1>2, <1>3, <2>2 DEF BondTurns
    <2> QED
      BY <1>7, <2>1, <2>2 DEF Environment
  <1>8. CASE UNCHANGED vars
    BY <1>2, <1>3, <1>8 DEF vars, timelockVars
  <1> QED
    BY <1>4, <1>6, <1>7, <1>8 DEF Next

\* Every step of the registry is a step of the markets' switches.
LEMMA MarketStepRefines ==
  ASSUME BrakeInvariant, Typed', [Next]_vars
  PROVE  MarketStep
  <1>1. Typed
    BY DEF BrakeInvariant
  <1>2. ASSUME NEW caller \in Accounts, MarketAction(caller)
        PROVE  MarketStep
    BY <1>2, MarketRefines
  <1>3. ASSUME NEW caller \in Accounts, QuoteAction(caller), UNCHANGED marketVars
        PROVE  MarketStep
    BY <1>1, <1>3, ActionsClear, MarketsQuiet
  <1>4. ASSUME NEW op \in Operations, Announce(op), UNCHANGED <<now, marketVars, quoteVars>>
        PROVE  MarketStep
    BY <1>1, <1>4, MarketQueue
  <1>5. CASE now' > now /\ UNCHANGED <<readyAt, marketVars, quoteVars>>
    BY <1>1, <1>5, MarketTick
  <1>6. CASE SwitchesRest
    BY <1>1, <1>6, MarketRests
  <1> QED
    BY <1>2, <1>3, <1>4, <1>5, <1>6, StepsAreKinds DEF StepKinds

\* The registry starts with no market switch braked and none announced.
LEMMA MarketInitRefines ==
  ASSUME Init
  PROVE  MarketSwitch!SwitchInit
  <1>1. Typed /\ now \in Nat \ {0}
    BY InitTyped, ClockType DEF Typed, TypeOK, TimelockTypeOK
  <1>2. MarketOn \in [MarketSwitches -> BOOLEAN]
    BY MarketOnType DEF MarketOn
  <1>3. MarketBraked = [s \in MarketSwitches |-> 0]
    <2>1. /\ \A s \in UntimedSwitches : heldSince[s] = 0
          /\ \A h \in Hooks : delistedAt[h] = 0
      BY DEF Init, MarketInit
    <2>2. \A s \in MarketSwitches : MarketBraked[s] = 0
      BY <2>1, MarketBrakeTimes DEF MarketSwitches, RecordSwitches
    <2> QED
      BY <2>2 DEF MarketBraked
  <1>4. MarketAnnounced = [l \in AllMarketLifts |-> 0]
    <2>1. \A l \in AllMarketLifts : readyAt[l] = 0
      BY MarketLiftsAreOperations DEF Init, TimelockInit
    <2> QED
      BY <2>1 DEF MarketAnnounced, Announcements, AnnouncedAt
  <1> QED
    BY <1>1, <1>2, <1>3, <1>4, MarketStepIs
    DEF MarketSwitch!SwitchInit, MarketOn, MarketBraked, MarketAnnounced, AllMarketLifts

-----------------------------------------------------------------------------
(* Refinement: the quote brakes implement BrakedSwitches.                    *)

\* What each mapping makes of the quotes.
QuoteAllowed(s) ==
  CASE s[1] = "asset" -> s[2] \notin braked
    [] s[1] = "class" -> classes.position[s[2]] # 0
    [] s[1] = "any" -> anyQuote
    [] s[1] = "settlement" -> settlement.position[s[2]] # 0

LastQuoteBrake(s) ==
  CASE s[1] = "asset" -> lastBrakeAt[s[2]]
    [] s[1] = "class" -> classDroppedAt[s[2]]
    [] s[1] = "any" -> anyQuoteStoppedAt
    [] s[1] = "settlement" -> removedAt[s[2]]

QuoteOn == [s \in QuoteSwitches |-> QuoteAllowed(s)]

QuoteBraked == [s \in QuoteSwitches |-> LastQuoteBrake(s)]

AllQuoteLifts == UNION {QuoteLifts[s] : s \in QuoteSwitches}

QuoteAnnounced == Announcements(AllQuoteLifts)

\* The step of the abstract specification, or none.
QuoteStep == [QuoteSwitch!SwitchNext]_(QuoteSwitch!switchVars)

\* The switches of the quotes, and the lifts of each.
LEMMA QuoteForms ==
  /\ \A a \in Assets :
       /\ <<"asset", a>> \in QuoteSwitches
       /\ QuoteLifts[<<"asset", a>>] = {<<"SET_QUOTE", a, TRUE>>, <<"REOPEN_QUOTE", a>>}
  /\ \A c \in Classes :
       /\ <<"class", c>> \in QuoteSwitches
       /\ QuoteLifts[<<"class", c>>] = {<<"SET_QUOTE_CLASS", c>>}
  /\ <<"any">> \in QuoteSwitches /\ QuoteLifts[<<"any">>] = {<<"ANY_QUOTE">>}
  /\ \A x \in Currencies :
       /\ <<"settlement", x>> \in QuoteSwitches
       /\ QuoteLifts[<<"settlement", x>>] = {<<"ADD_SETTLEMENT", x>>}
  /\ \A s \in QuoteSwitches :
       \/ \E a \in Assets : s = <<"asset", a>>
       \/ \E c \in Classes : s = <<"class", c>>
       \/ s = <<"any">>
       \/ \E x \in Currencies : s = <<"settlement", x>>
  <1>1. ASSUME NEW a \in Assets
        PROVE  /\ <<"asset", a>> \in QuoteSwitches
               /\ QuoteLifts[<<"asset", a>>] = {<<"SET_QUOTE", a, TRUE>>, <<"REOPEN_QUOTE", a>>}
    <2>1. <<"asset", a>> \in QuoteSwitches
      BY DEF QuoteSwitches
    <2> QED
      BY <2>1 DEF QuoteLifts
  <1>2. ASSUME NEW c \in Classes
        PROVE  <<"class", c>> \in QuoteSwitches /\ QuoteLifts[<<"class", c>>] = {<<"SET_QUOTE_CLASS", c>>}
    <2>1. <<"class", c>> \in QuoteSwitches
      BY DEF QuoteSwitches
    <2> QED
      BY <2>1 DEF QuoteLifts
  <1>3. <<"any">> \in QuoteSwitches /\ QuoteLifts[<<"any">>] = {<<"ANY_QUOTE">>}
    <2>1. <<"any">> \in QuoteSwitches
      BY DEF QuoteSwitches
    <2> QED
      BY <2>1 DEF QuoteLifts
  <1>4. ASSUME NEW x \in Currencies
        PROVE  <<"settlement", x>> \in QuoteSwitches /\ QuoteLifts[<<"settlement", x>>] = {<<"ADD_SETTLEMENT", x>>}
    <2>1. <<"settlement", x>> \in QuoteSwitches
      BY DEF QuoteSwitches
    <2> QED
      BY <2>1 DEF QuoteLifts
  <1>5. ASSUME NEW s \in QuoteSwitches
        PROVE  \/ \E a \in Assets : s = <<"asset", a>>
               \/ \E c \in Classes : s = <<"class", c>>
               \/ s = <<"any">>
               \/ \E x \in Currencies : s = <<"settlement", x>>
    BY DEF QuoteSwitches
  <1> QED
    BY <1>1, <1>2, <1>3, <1>4, <1>5

\* What lifts a quote switch is an operation the owner can queue.
LEMMA QuoteLiftsAreOperations ==
  /\ AllQuoteLifts \subseteq Operations
  /\ \A s \in QuoteSwitches : QuoteLifts[s] \subseteq AllQuoteLifts
  <1>0. /\ \A a \in Assets, on \in BOOLEAN : <<"SET_QUOTE", a, on>> \in Operations
        /\ \A a \in Assets : <<"REOPEN_QUOTE", a>> \in Operations
        /\ \A c \in Classes : <<"SET_QUOTE_CLASS", c>> \in Operations
        /\ <<"ANY_QUOTE">> \in Operations
        /\ \A x \in Currencies : <<"ADD_SETTLEMENT", x>> \in Operations
    BY DEF Operations, QuoteOperations
  <1>1. /\ \A a \in Assets : <<"SET_QUOTE", a, TRUE>> \in Operations /\ <<"REOPEN_QUOTE", a>> \in Operations
        /\ \A c \in Classes : <<"SET_QUOTE_CLASS", c>> \in Operations
        /\ <<"ANY_QUOTE">> \in Operations
        /\ \A x \in Currencies : <<"ADD_SETTLEMENT", x>> \in Operations
    BY <1>0
  <1>2. ASSUME NEW s \in QuoteSwitches
        PROVE  QuoteLifts[s] \subseteq Operations
    <2>1. ASSUME NEW a \in Assets, s = <<"asset", a>>
          PROVE  QuoteLifts[s] \subseteq Operations
      <3>1. QuoteLifts[s] = {<<"SET_QUOTE", a, TRUE>>, <<"REOPEN_QUOTE", a>>}
        BY <2>1, QuoteForms
      <3> QED
        BY <1>1, <3>1
    <2>2. ASSUME NEW c \in Classes, s = <<"class", c>>
          PROVE  QuoteLifts[s] \subseteq Operations
      <3>1. QuoteLifts[s] = {<<"SET_QUOTE_CLASS", c>>}
        BY <2>2, QuoteForms
      <3> QED
        BY <1>1, <3>1
    <2>3. CASE s = <<"any">>
      <3>1. QuoteLifts[s] = {<<"ANY_QUOTE">>}
        BY <2>3, QuoteForms
      <3> QED
        BY <1>1, <3>1
    <2>4. ASSUME NEW x \in Currencies, s = <<"settlement", x>>
          PROVE  QuoteLifts[s] \subseteq Operations
      <3>1. QuoteLifts[s] = {<<"ADD_SETTLEMENT", x>>}
        BY <2>4, QuoteForms
      <3> QED
        BY <1>1, <3>1
    <2> QED
      BY <2>1, <2>2, <2>3, <2>4, QuoteForms
  <1> QED
    BY <1>2 DEF AllQuoteLifts

\* The position of each quote switch, before and after a step.
LEMMA QuotePositions ==
  /\ \A a \in Assets : /\ QuoteOn[<<"asset", a>>] <=> a \notin braked
                       /\ QuoteOn'[<<"asset", a>>] <=> a \notin braked'
  /\ \A c \in Classes : /\ QuoteOn[<<"class", c>>] <=> classes.position[c] # 0
                        /\ QuoteOn'[<<"class", c>>] <=> classes'.position[c] # 0
  /\ QuoteOn[<<"any">>] = anyQuote /\ QuoteOn'[<<"any">>] = anyQuote'
  /\ \A x \in Currencies : /\ QuoteOn[<<"settlement", x>>] <=> settlement.position[x] # 0
                           /\ QuoteOn'[<<"settlement", x>>] <=> settlement'.position[x] # 0
  BY QuoteForms DEF QuoteOn, QuoteAllowed

\* Its last brake.
LEMMA QuoteBrakeTimes ==
  /\ \A a \in Assets : /\ QuoteBraked[<<"asset", a>>] = lastBrakeAt[a]
                       /\ QuoteBraked'[<<"asset", a>>] = lastBrakeAt'[a]
  /\ \A c \in Classes : /\ QuoteBraked[<<"class", c>>] = classDroppedAt[c]
                        /\ QuoteBraked'[<<"class", c>>] = classDroppedAt'[c]
  /\ QuoteBraked[<<"any">>] = anyQuoteStoppedAt /\ QuoteBraked'[<<"any">>] = anyQuoteStoppedAt'
  /\ \A x \in Currencies : /\ QuoteBraked[<<"settlement", x>>] = removedAt[x]
                           /\ QuoteBraked'[<<"settlement", x>>] = removedAt'[x]
  BY QuoteForms DEF QuoteBraked, LastQuoteBrake

\* Positions are Booleans.
LEMMA QuoteOnType ==
  ASSUME Typed, Typed', NEW s \in QuoteSwitches
  PROVE  QuoteOn[s] \in BOOLEAN /\ QuoteOn'[s] \in BOOLEAN
  <1>1. anyQuote \in BOOLEAN /\ anyQuote' \in BOOLEAN
    BY DEF Typed, TypeOK, QuoteTypeOK
  <1>2. CASE s = <<"any">>
    BY <1>1, <1>2, QuotePositions
  <1>3. CASE s # <<"any">>
    <2>1. s[1] \in {"asset", "class", "settlement"}
      BY <1>3, QuoteForms
    <2>2. CASE s[1] = "asset"
      BY <2>2 DEF QuoteOn, QuoteAllowed
    <2>3. CASE s[1] = "class"
      BY <2>3 DEF QuoteOn, QuoteAllowed
    <2>4. CASE s[1] = "settlement"
      BY <2>4 DEF QuoteOn, QuoteAllowed
    <2> QED
      BY <2>1, <2>2, <2>3, <2>4
  <1> QED
    BY <1>2, <1>3

\* How clearing, writing or leaving ready times shows in the announcements.
LEMMA QuoteAnnouncements ==
  ASSUME Typed
  PROVE  /\ readyAt' = readyAt => QuoteAnnounced' = QuoteAnnounced
         /\ \A op \in Operations \ AllQuoteLifts, v \in Nat :
              readyAt' = [readyAt EXCEPT ![op] = v] => QuoteAnnounced' = QuoteAnnounced
         /\ \A op \in AllQuoteLifts :
              readyAt' = [readyAt EXCEPT ![op] = 0] => QuoteAnnounced' = [QuoteAnnounced EXCEPT ![op] = 0]
         /\ \A op \in AllQuoteLifts, time \in Nat \ {0} :
              readyAt' = [readyAt EXCEPT ![op] = time + Delay] =>
                QuoteAnnounced' = [QuoteAnnounced EXCEPT ![op] = time]
  <1>1. /\ readyAt \in [Operations -> Nat] /\ Delay \in Nat \ {0}
        /\ AllQuoteLifts \subseteq Operations
    BY DelayAssumption, QuoteLiftsAreOperations DEF Typed, TypeOK, TimelockTypeOK
  <1>2. /\ QuoteAnnounced = [l \in AllQuoteLifts |-> QuoteAnnounced[l]]
        /\ QuoteAnnounced' = [l \in AllQuoteLifts |-> QuoteAnnounced'[l]]
        /\ \A l \in AllQuoteLifts :
             /\ QuoteAnnounced[l] = IF readyAt[l] = 0 THEN 0 ELSE readyAt[l] - Delay
             /\ QuoteAnnounced'[l] = IF readyAt'[l] = 0 THEN 0 ELSE readyAt'[l] - Delay
    BY DEF QuoteAnnounced, Announcements, AnnouncedAt
  <1> DEFINE an == QuoteAnnounced
             anp == QuoteAnnounced'
  <1> HIDE DEF an, anp
  <1>3. /\ an = [l \in AllQuoteLifts |-> an[l]]
        /\ anp = [l \in AllQuoteLifts |-> anp[l]]
        /\ \A l \in AllQuoteLifts :
             /\ an[l] = IF readyAt[l] = 0 THEN 0 ELSE readyAt[l] - Delay
             /\ anp[l] = IF readyAt'[l] = 0 THEN 0 ELSE readyAt'[l] - Delay
    BY <1>2 DEF an, anp
  <1>4. ASSUME \A l \in AllQuoteLifts : anp[l] = an[l]
        PROVE  anp = an
    BY <1>3, <1>4
  <1>5. readyAt' = readyAt => anp = an
    BY <1>3, <1>4
  <1>6. ASSUME NEW op \in Operations \ AllQuoteLifts, NEW v \in Nat, readyAt' = [readyAt EXCEPT ![op] = v]
        PROVE  anp = an
    BY <1>1, <1>3, <1>4, <1>6
  <1>7. ASSUME NEW op \in AllQuoteLifts, readyAt' = [readyAt EXCEPT ![op] = 0]
        PROVE  anp = [an EXCEPT ![op] = 0]
    <2>1. anp[op] = 0 /\ \A l \in AllQuoteLifts \ {op} : anp[l] = an[l]
      BY <1>1, <1>3, <1>7
    <2> QED
      BY <1>3, <2>1, OnePlaceChanges
  <1>8. ASSUME NEW op \in AllQuoteLifts, NEW time \in Nat \ {0}, readyAt' = [readyAt EXCEPT ![op] = time + Delay]
        PROVE  anp = [an EXCEPT ![op] = time]
    <2>1. readyAt'[op] = time + Delay /\ \A l \in AllQuoteLifts \ {op} : readyAt'[l] = readyAt[l]
      BY <1>1, <1>8
    <2>2. anp[op] = time /\ \A l \in AllQuoteLifts \ {op} : anp[l] = an[l]
      BY <1>1, <1>3, <2>1
    <2> QED
      BY <1>3, <2>2, OnePlaceChanges
  <1> QED
    BY <1>5, <1>6, <1>7, <1>8 DEF an, anp

\* The instance's names for what the mapping makes of the quotes.
LEMMA QuoteStepIs ==
  /\ QuoteSwitch!AllLifts = AllQuoteLifts
  /\ QuoteStep <=>
       \/ QuoteSwitch!SwitchNext
       \/ now' = now /\ QuoteOn' = QuoteOn /\ QuoteBraked' = QuoteBraked /\ QuoteAnnounced' = QuoteAnnounced
  BY DEF QuoteSwitch!AllLifts, AllQuoteLifts, QuoteStep, QuoteSwitch!switchVars, QuoteOn, QuoteBraked, QuoteAllowed, LastQuoteBrake,
         QuoteAnnounced

\* Each action of the abstract specification is such a step.
LEMMA QuoteActions ==
  /\ QuoteSwitch!TimePasses => QuoteStep
  /\ \A op \in AllQuoteLifts : QuoteSwitch!Withdraw(op) => QuoteStep
  /\ \A op \in AllQuoteLifts : QuoteSwitch!AnnounceLift(op) => QuoteStep
  /\ \A s \in QuoteSwitches : \A op \in QuoteLifts[s] : QuoteSwitch!Lift(s, op) => QuoteStep
  /\ \A s \in QuoteSwitches : QuoteSwitch!Brake(s) => QuoteStep
  /\ \A s \in QuoteSwitches : QuoteSwitch!SwitchOff(s) => QuoteStep
  <1>1. QuoteSwitch!SwitchNext => QuoteStep
    BY QuoteStepIs
  <1> QED
    BY <1>1, QuoteStepIs, Zenon DEF QuoteSwitch!SwitchNext

\* A step that moves no switch is a withdrawal of an announcement or a stutter.
LEMMA QuoteElsewhere ==
  ASSUME Typed, now' = now, QuoteOn' = QuoteOn, QuoteBraked' = QuoteBraked, Clears
  PROVE  QuoteStep
  <1>1. ASSUME NEW op \in AllQuoteLifts, readyAt' = [readyAt EXCEPT ![op] = 0]
        PROVE  QuoteSwitch!Withdraw(op)
    <2>1. QuoteAnnounced' = [QuoteAnnounced EXCEPT ![op] = 0]
      BY <1>1, QuoteAnnouncements
    <2> QED
      BY <2>1 DEF QuoteSwitch!Withdraw, QuoteOn, QuoteBraked, QuoteAllowed, LastQuoteBrake, QuoteAnnounced, AllQuoteLifts
  <1>2. ASSUME NEW op \in Operations \ AllQuoteLifts, readyAt' = [readyAt EXCEPT ![op] = 0]
        PROVE  QuoteAnnounced' = QuoteAnnounced
    BY <1>2, QuoteAnnouncements
  <1>3. readyAt' = readyAt => QuoteAnnounced' = QuoteAnnounced
    BY QuoteAnnouncements
  <1> QED
    BY <1>1, <1>2, <1>3, QuoteActions, QuoteStepIs DEF Clears

\* A step that leaves the quotes alone.
LEMMA QuotesQuiet ==
  ASSUME Typed, UNCHANGED <<now, quoteVars>>, Clears
  PROVE  QuoteStep
  <1>1. QuoteOn' = QuoteOn /\ QuoteBraked' = QuoteBraked
    BY DEF quoteVars, QuoteOn, QuoteBraked, QuoteAllowed, LastQuoteBrake
  <1> QED
    BY <1>1, QuoteElsewhere

\* The clock.
LEMMA QuoteTick ==
  ASSUME Typed, Typed', now' > now, UNCHANGED <<readyAt, quoteVars>>
  PROVE  QuoteStep
  <1>1. QuoteOn' = QuoteOn /\ QuoteBraked' = QuoteBraked /\ QuoteAnnounced' = QuoteAnnounced
    BY QuoteAnnouncements DEF quoteVars, QuoteOn, QuoteBraked, QuoteAllowed, LastQuoteBrake
  <1>2. now' \in Nat
    BY MaxTimeAssumption DEF Typed, TypeOK, TimelockTypeOK
  <1>3. QuoteSwitch!TimePasses
    BY <1>1, <1>2 DEF QuoteSwitch!TimePasses, QuoteOn, QuoteBraked, QuoteAllowed, LastQuoteBrake, QuoteAnnounced, AllQuoteLifts
  <1> QED
    BY <1>3, QuoteActions

\* Queueing announces; it renews nothing that still stands.
LEMMA QuoteQueue ==
  ASSUME Typed, NEW op \in Operations, Announce(op), UNCHANGED <<now, quoteVars>>
  PROVE  QuoteStep
  <1>1. QuoteOn' = QuoteOn /\ QuoteBraked' = QuoteBraked
    BY DEF quoteVars, QuoteOn, QuoteBraked, QuoteAllowed, LastQuoteBrake
  <1>2. /\ now \in Nat \ {0} /\ Delay \in Nat \ {0} /\ Grace \in Nat /\ readyAt[op] \in Nat
        /\ readyAt' = [readyAt EXCEPT ![op] = now + Delay]
        /\ readyAt[op] = 0 \/ now > readyAt[op] + Grace
    BY ClockType, DelayAssumption, GraceAssumption DEF Typed, TypeOK, TimelockTypeOK, Announce, Expired
  <1>3. CASE op \in AllQuoteLifts
    <2>1. QuoteAnnounced' = [QuoteAnnounced EXCEPT ![op] = now]
      BY <1>2, <1>3, QuoteAnnouncements
    <2>2. QuoteAnnounced[op] = IF readyAt[op] = 0 THEN 0 ELSE readyAt[op] - Delay
      BY <1>3 DEF QuoteAnnounced, Announcements, AnnouncedAt
    <2>3. QuoteAnnounced[op] = 0 \/ now > QuoteAnnounced[op] + Delay + Grace
      BY <1>2, <2>2
    <2>4. QuoteSwitch!AnnounceLift(op)
      BY <1>1, <1>3, <2>1, <2>3
      DEF QuoteSwitch!AnnounceLift, QuoteOn, QuoteBraked, QuoteAllowed, LastQuoteBrake, QuoteAnnounced, AllQuoteLifts
    <2> QED
      BY <1>3, <2>4, QuoteActions
  <1>4. CASE op \notin AllQuoteLifts
    <2> DEFINE v == now + Delay
    <2>1. v \in Nat /\ readyAt' = [readyAt EXCEPT ![op] = v]
      BY <1>2
    <2> HIDE DEF v
    <2>2. QuoteAnnounced' = QuoteAnnounced
      BY <1>4, <2>1, QuoteAnnouncements
    <2> QED
      BY <1>1, <2>2, QuoteStepIs
  <1> QED
    BY <1>3, <1>4

\* A matured operation announced no earlier than the last brake lifts it.
LEMMA QuoteLift ==
  ASSUME Typed, NEW s \in QuoteSwitches, NEW op \in QuoteLifts[s], NEW brakeAt \in Nat, ConsumeAfter(op, brakeAt),
         QuoteBraked[s] \in Nat, readyAt[op] >= QuoteBraked[s] + Delay, now' = now,
         QuoteOn'[s] = TRUE, \A t \in QuoteSwitches \ {s} : QuoteOn'[t] = QuoteOn[t],
         QuoteBraked' = QuoteBraked
  PROVE  QuoteStep
  <1>1. op \in AllQuoteLifts /\ op \in Operations
    BY QuoteLiftsAreOperations
  <1>2. /\ now \in Nat \ {0} /\ Delay \in Nat \ {0} /\ Grace \in Nat /\ readyAt[op] \in Nat
        /\ readyAt' = [readyAt EXCEPT ![op] = 0]
        /\ now >= readyAt[op] /\ readyAt[op] > brakeAt + Delay /\ ~(now > readyAt[op] + Grace)
    BY <1>1, ClockType, DelayAssumption, GraceAssumption
    DEF Typed, TypeOK, TimelockTypeOK, ConsumeAfter, Expired
  <1>3. QuoteAnnounced[op] = readyAt[op] - Delay
    BY <1>1, <1>2 DEF QuoteAnnounced, Announcements, AnnouncedAt
  <1>4. /\ QuoteAnnounced[op] # 0
        /\ QuoteAnnounced[op] >= QuoteBraked[s]
        /\ now >= QuoteAnnounced[op] + Delay
        /\ now <= QuoteAnnounced[op] + Delay + Grace
    BY <1>2, <1>3
  <1>5. QuoteOn' = [QuoteOn EXCEPT ![s] = TRUE]
    <2> DEFINE f == QuoteOn
               g == QuoteOn'
    <2>1. f = [t \in QuoteSwitches |-> f[t]] /\ g = [t \in QuoteSwitches |-> g[t]]
      BY DEF QuoteOn
    <2> HIDE DEF f, g
    <2>2. g[s] = TRUE /\ \A t \in QuoteSwitches \ {s} : g[t] = f[t]
      BY DEF f, g
    <2>3. g = [f EXCEPT ![s] = TRUE]
      BY <2>1, <2>2, OnePlaceChanges
    <2> QED
      BY <2>3 DEF f, g
  <1>6. QuoteAnnounced' = [QuoteAnnounced EXCEPT ![op] = 0]
    BY <1>1, <1>2, QuoteAnnouncements
  <1>7. QuoteSwitch!Lift(s, op)
    BY <1>4, <1>5, <1>6 DEF QuoteSwitch!Lift, QuoteOn, QuoteBraked, QuoteAllowed, LastQuoteBrake, QuoteAnnounced, AllQuoteLifts
  <1> QED
    BY <1>7, QuoteActions

\* A brake withdraws one permission and stamps it.
LEMMA QuoteBrake ==
  ASSUME Typed, NEW s \in QuoteSwitches, readyAt' = readyAt, now' = now,
         QuoteOn'[s] = FALSE, \A t \in QuoteSwitches \ {s} : QuoteOn'[t] = QuoteOn[t],
         QuoteBraked'[s] = now, \A t \in QuoteSwitches \ {s} : QuoteBraked'[t] = QuoteBraked[t]
  PROVE  QuoteStep
  <1> DEFINE f == QuoteOn
             g == QuoteOn'
             b == QuoteBraked
             c == QuoteBraked'
  <1>1. /\ f = [t \in QuoteSwitches |-> f[t]] /\ g = [t \in QuoteSwitches |-> g[t]]
        /\ b = [t \in QuoteSwitches |-> b[t]] /\ c = [t \in QuoteSwitches |-> c[t]]
    BY DEF QuoteOn, QuoteBraked
  <1> HIDE DEF f, g, b, c
  <1>2. /\ g[s] = FALSE /\ \A t \in QuoteSwitches \ {s} : g[t] = f[t]
        /\ c[s] = now /\ \A t \in QuoteSwitches \ {s} : c[t] = b[t]
    BY DEF f, g, b, c
  <1>3. /\ g = [f EXCEPT ![s] = FALSE]
        /\ c = [b EXCEPT ![s] = now]
    <2>1. g = [f EXCEPT ![s] = FALSE]
      BY <1>1, <1>2, OnePlaceChanges
    <2>2. c = [b EXCEPT ![s] = now]
      BY <1>1, <1>2, OnePlaceChanges
    <2> QED
      BY <2>1, <2>2
  <1>4. QuoteOn' = [QuoteOn EXCEPT ![s] = FALSE] /\ QuoteBraked' = [QuoteBraked EXCEPT ![s] = now]
    BY <1>3 DEF f, g, b, c
  <1>5. QuoteAnnounced' = [l \in AllQuoteLifts |-> IF l \in {} THEN 0 ELSE QuoteAnnounced[l]]
    BY QuoteAnnouncements DEF QuoteAnnounced, Announcements
  <1>6. QuoteSwitch!Brake(s)
    <2>1. {} \in SUBSET QuoteLifts[s]
      OBVIOUS
    <2> QED
      BY <1>4, <1>5, <2>1, QuoteStepIs DEF QuoteSwitch!Brake, QuoteOn, QuoteBraked, QuoteAllowed, LastQuoteBrake, QuoteAnnounced, AllQuoteLifts
  <1> QED
    BY <1>6, QuoteActions

\* Leaving a list by swap and pop moves the last member and forgets one: it
\* takes nobody else in or out.
LEMMA DropForgetsOne ==
  ASSUME NEW universe, NEW index, IsIndexOf(index, universe), Agrees(index), NEW x \in universe, NEW y \in universe,
         y # x
  PROVE  IndexDrop(index, x).position[y] # 0 <=> index.position[y] # 0
  <1>1. IndexDrop(index, x).position[y] # 0 => index.position[y] # 0
    BY DropShrinks
  <1>2. ASSUME index.position[y] # 0
        PROVE  IndexDrop(index, x).position[y] # 0
    <2> DEFINE n == Len(index.list)
               place == index.position[x]
               last == index.list[n]
               moved == [index.position EXCEPT ![last] = place]
    <2>1. index.position \in [universe -> Nat]
      BY DEF IsIndexOf
    <2>2. CASE place = 0
      BY <1>2, <2>2 DEF IndexDrop
    <2>3. CASE place # 0
      <3>1. IndexDrop(index, x).position = [moved EXCEPT ![x] = 0]
        BY <2>3 DEF IndexDrop
      <3>2. moved[y] # 0
        BY <1>2, <2>1, <2>3
      <3>3. [moved EXCEPT ![x] = 0][y] = moved[y]
        BY <2>1
      <3> QED
        BY <3>1, <3>2, <3>3
    <2> QED
      BY <2>2, <2>3
  <1> QED
    BY <1>1, <1>2

\* Joining one takes in the member and nobody else.
LEMMA PushRemembersOne ==
  ASSUME NEW universe, NEW index, IsIndexOf(index, universe), NEW x \in universe
  PROVE  /\ IndexPush(index, x).position[x] # 0
         /\ \A y \in universe \ {x} : IndexPush(index, x).position[y] = index.position[y]
  <1>1. index.position \in [universe -> Nat] /\ Len(index.list) \in Nat
    BY DEF IsIndexOf
  <1> QED
    BY <1>1 DEF IndexPush

\* A step that moves at most one switch leaves the positions of the others.
LEMMA QuoteOthers ==
  ASSUME Typed, Typed', NEW s, s # <<"any">> => anyQuote' = anyQuote,
         \A a \in Assets : s # <<"asset", a>> => (a \in braked' <=> a \in braked),
         \A c \in Classes : s # <<"class", c>> => (classes'.position[c] # 0 <=> classes.position[c] # 0),
         \A x \in Currencies : s # <<"settlement", x>> =>
           (settlement'.position[x] # 0 <=> settlement.position[x] # 0)
  PROVE  \A t \in QuoteSwitches \ {s} : QuoteOn'[t] = QuoteOn[t]
  <1> SUFFICES ASSUME NEW t \in QuoteSwitches, t # s
               PROVE  QuoteOn'[t] <=> QuoteOn[t]
    BY QuoteOnType
  <1>1. CASE t = <<"any">>
    BY <1>1, QuotePositions
  <1>2. ASSUME NEW a \in Assets, t = <<"asset", a>>
        PROVE  QuoteOn'[t] <=> QuoteOn[t]
    BY <1>2, QuotePositions
  <1>3. ASSUME NEW c \in Classes, t = <<"class", c>>
        PROVE  QuoteOn'[t] <=> QuoteOn[t]
    BY <1>3, QuotePositions
  <1>4. ASSUME NEW x \in Currencies, t = <<"settlement", x>>
        PROVE  QuoteOn'[t] <=> QuoteOn[t]
    BY <1>4, QuotePositions
  <1> QED
    BY <1>1, <1>2, <1>3, <1>4, QuoteForms

\* A step that stamps at most one switch leaves the last brakes of the others.
LEMMA QuoteOtherBrakes ==
  ASSUME NEW s, s # <<"any">> => anyQuoteStoppedAt' = anyQuoteStoppedAt,
         \A a \in Assets : s # <<"asset", a>> => lastBrakeAt'[a] = lastBrakeAt[a],
         \A c \in Classes : s # <<"class", c>> => classDroppedAt'[c] = classDroppedAt[c],
         \A x \in Currencies : s # <<"settlement", x>> => removedAt'[x] = removedAt[x]
  PROVE  \A t \in QuoteSwitches \ {s} : QuoteBraked'[t] = QuoteBraked[t]
  <1> SUFFICES ASSUME NEW t \in QuoteSwitches, t # s
               PROVE  QuoteBraked'[t] = QuoteBraked[t]
    OBVIOUS
  <1>1. CASE t = <<"any">>
    BY <1>1, QuoteBrakeTimes
  <1>2. ASSUME NEW a \in Assets, t = <<"asset", a>>
        PROVE  QuoteBraked'[t] = QuoteBraked[t]
    BY <1>2, QuoteBrakeTimes
  <1>3. ASSUME NEW c \in Classes, t = <<"class", c>>
        PROVE  QuoteBraked'[t] = QuoteBraked[t]
    BY <1>3, QuoteBrakeTimes
  <1>4. ASSUME NEW x \in Currencies, t = <<"settlement", x>>
        PROVE  QuoteBraked'[t] = QuoteBraked[t]
    BY <1>4, QuoteBrakeTimes
  <1> QED
    BY <1>1, <1>2, <1>3, <1>4, QuoteForms

\* Lifting one, by an operation that matured after its last brake.
LEMMA QuoteLifted ==
  ASSUME Typed, Typed', NEW s \in QuoteSwitches, NEW op \in QuoteLifts[s], ConsumeAfter(op, QuoteBraked[s]),
         QuoteBraked[s] \in Nat, now' = now,
         UNCHANGED <<lastBrakeAt, classDroppedAt, anyQuoteStoppedAt, removedAt>>,
         QuoteOn'[s], \A t \in QuoteSwitches \ {s} : QuoteOn'[t] = QuoteOn[t]
  PROVE  QuoteStep
  <1>1. op \in Operations
    BY QuoteLiftsAreOperations
  <1>2. readyAt[op] \in Nat /\ readyAt[op] > QuoteBraked[s] + Delay
    BY <1>1 DEF ConsumeAfter, Typed, TypeOK, TimelockTypeOK
  <1>3. readyAt[op] >= QuoteBraked[s] + Delay
    BY <1>2, DelayAssumption
  <1>4. QuoteBraked' = QuoteBraked
    BY DEF QuoteBraked, LastQuoteBrake
  <1>5. QuoteOn'[s] = TRUE
    BY QuoteOnType
  <1> DEFINE brakeAt == QuoteBraked[s]
  <1>6. brakeAt \in Nat /\ ConsumeAfter(op, brakeAt)
    OBVIOUS
  <1> HIDE DEF brakeAt
  <1> QED
    BY <1>3, <1>4, <1>5, <1>6, QuoteLift

\* What one account does to the quotes, action by action.
LEMMA QuoteRefines ==
  ASSUME Typed, Typed', NEW caller \in Accounts, QuoteAction(caller)
  PROVE  QuoteStep
  <1>1. /\ now \in Nat /\ anyQuoteStoppedAt \in Nat
        /\ lastBrakeAt \in [Assets -> Nat] /\ classDroppedAt \in [Classes -> Nat] /\ removedAt \in [Currencies -> Nat]
        /\ IsIndexOf(classes, Classes) /\ IsIndexOf(settlement, Currencies)
        /\ Agrees(classes) /\ Agrees(settlement)
    BY ClockType DEF Typed, TypeOK, TimelockTypeOK, QuoteTypeOK, IndexesAgree
  <1>2. now' = now /\ Clears
    BY ActionsClear
  <1>3. ASSUME NEW a \in Assets, NEW on \in BOOLEAN, SetQuote(caller, a, on)
        PROVE  QuoteStep
    <2> DEFINE s == <<"asset", a>>
    <2>1. CASE on
      <3> DEFINE op == <<"SET_QUOTE", a, TRUE>>
      <3>1. s \in QuoteSwitches /\ op \in QuoteLifts[s]
        BY QuoteForms
      <3>2. ConsumeAfter(op, lastBrakeAt[a])
        <4>1. on = TRUE
          BY <2>1
        <4> QED
          BY <1>3, <4>1 DEF SetQuote
      <3>3. QuoteBraked[s] = lastBrakeAt[a]
        BY QuoteBrakeTimes
      <3>4. QuoteOn'[s]
        BY <1>3, <2>1, QuotePositions DEF SetQuote
      <3>5. \A b \in Assets : s # <<"asset", b>> => (b \in braked' <=> b \in braked)
        BY <1>3, <2>1 DEF SetQuote
      <3> HIDE DEF s, op
      <3>6. \A t \in QuoteSwitches \ {s} : QuoteOn'[t] = QuoteOn[t]
        BY <1>3, <3>5, QuoteOthers DEF SetQuote
      <3>7. ConsumeAfter(op, QuoteBraked[s]) /\ QuoteBraked[s] \in Nat
        BY <1>1, <3>2, <3>3
      <3> QED
        BY <1>2, <1>3, <3>1, <3>4, <3>6, <3>7, QuoteLifted DEF SetQuote
    <2>2. CASE ~on
      <3>1. UNCHANGED <<classes, classDroppedAt, anyQuote, anyQuoteStoppedAt, braked, lastBrakeAt, settlement, removedAt>>
        BY <1>3, <2>2 DEF SetQuote
      <3>2. QuoteOn' = QuoteOn /\ QuoteBraked' = QuoteBraked
        BY <3>1 DEF QuoteOn, QuoteBraked, QuoteAllowed, LastQuoteBrake
      <3> QED
        BY <1>2, <3>2, QuoteElsewhere
    <2> QED
      BY <2>1, <2>2
  <1>4. ASSUME NEW a \in Assets, BrakeOneQuote(caller, a)
        PROVE  QuoteStep
    <2> DEFINE s == <<"asset", a>>
    <2>1. s \in QuoteSwitches /\ ~QuoteOn'[s]
      BY <1>4, QuoteForms, QuotePositions DEF BrakeOneQuote
    <2>2. QuoteBraked'[s] = now
      BY <1>1, <1>4, QuoteBrakeTimes DEF BrakeOneQuote
    <2>3. \A b \in Assets : s # <<"asset", b>> => (b \in braked' <=> b \in braked) /\ lastBrakeAt'[b] = lastBrakeAt[b]
      BY <1>1, <1>4 DEF BrakeOneQuote
    <2> HIDE DEF s
    <2>4. \A t \in QuoteSwitches \ {s} : QuoteOn'[t] = QuoteOn[t]
      BY <1>4, <2>3, QuoteOthers DEF BrakeOneQuote
    <2>5. \A t \in QuoteSwitches \ {s} : QuoteBraked'[t] = QuoteBraked[t]
      BY <1>4, <2>3, QuoteOtherBrakes DEF BrakeOneQuote
    <2>6. QuoteOn'[s] = FALSE
      BY <2>1, QuoteOnType
    <2> QED
      BY <1>4, <2>1, <2>2, <2>4, <2>5, <2>6, QuoteBrake DEF BrakeOneQuote
  <1>5. ASSUME NEW a \in Assets, ReopenSingleQuote(caller, a)
        PROVE  QuoteStep
    <2> DEFINE s == <<"asset", a>>
               op == <<"REOPEN_QUOTE", a>>
    <2>1. s \in QuoteSwitches /\ op \in QuoteLifts[s]
      BY QuoteForms
    <2>2. ConsumeAfter(op, lastBrakeAt[a])
      BY <1>5 DEF ReopenSingleQuote
    <2>3. QuoteBraked[s] = lastBrakeAt[a]
      BY QuoteBrakeTimes
    <2>4. QuoteOn'[s]
      BY <1>5, QuotePositions DEF ReopenSingleQuote
    <2>5. \A b \in Assets : s # <<"asset", b>> => (b \in braked' <=> b \in braked)
      BY <1>5 DEF ReopenSingleQuote
    <2> HIDE DEF s, op
    <2>6. \A t \in QuoteSwitches \ {s} : QuoteOn'[t] = QuoteOn[t]
      BY <1>5, <2>5, QuoteOthers DEF ReopenSingleQuote
    <2>7. ConsumeAfter(op, QuoteBraked[s]) /\ QuoteBraked[s] \in Nat
      BY <1>1, <2>2, <2>3
    <2> QED
      BY <1>2, <1>5, <2>1, <2>4, <2>6, <2>7, QuoteLifted DEF ReopenSingleQuote
  <1>6. ASSUME NEW c \in Classes, InstallQuoteClass(caller, c)
        PROVE  QuoteStep
    <2> DEFINE s == <<"class", c>>
               op == <<"SET_QUOTE_CLASS", c>>
    <2>1. s \in QuoteSwitches /\ op \in QuoteLifts[s]
      BY QuoteForms
    <2>2. ConsumeAfter(op, classDroppedAt[c]) /\ classes' = IndexPush(classes, c)
      BY <1>6 DEF InstallQuoteClass
    <2>3. QuoteBraked[s] = classDroppedAt[c]
      BY QuoteBrakeTimes
    <2>4. classes'.position[c] # 0 /\ \A k \in Classes \ {c} : classes'.position[k] = classes.position[k]
      BY <1>1, <2>2, PushRemembersOne
    <2>5. QuoteOn'[s]
      BY <2>4, QuotePositions
    <2>6. \A k \in Classes : s # <<"class", k>> => (classes'.position[k] # 0 <=> classes.position[k] # 0)
      BY <2>4
    <2> HIDE DEF s, op
    <2>7. \A t \in QuoteSwitches \ {s} : QuoteOn'[t] = QuoteOn[t]
      BY <1>6, <2>6, QuoteOthers DEF InstallQuoteClass
    <2>8. ConsumeAfter(op, QuoteBraked[s]) /\ QuoteBraked[s] \in Nat
      BY <1>1, <2>2, <2>3
    <2> QED
      BY <1>2, <1>6, <2>1, <2>5, <2>7, <2>8, QuoteLifted DEF InstallQuoteClass
  <1>7. ASSUME NEW c \in Classes, DropQuoteClass(caller, c)
        PROVE  QuoteStep
    <2> DEFINE s == <<"class", c>>
    <2>1. classes' = IndexDrop(classes, c) /\ classDroppedAt' = [classDroppedAt EXCEPT ![c] = now]
      BY <1>7 DEF DropQuoteClass
    <2>2. classes'.position[c] = 0
      BY <1>1, <2>1, DropAgrees
    <2>3. \A k \in Classes : s # <<"class", k>> => (classes'.position[k] # 0 <=> classes.position[k] # 0)
      BY <1>1, <2>1, DropForgetsOne
    <2>4. s \in QuoteSwitches /\ ~QuoteOn'[s]
      BY <2>2, QuoteForms, QuotePositions
    <2>5. QuoteBraked'[s] = now
      BY <1>1, <2>1, QuoteBrakeTimes
    <2>6. \A k \in Classes : s # <<"class", k>> => classDroppedAt'[k] = classDroppedAt[k]
      BY <1>1, <2>1
    <2> HIDE DEF s
    <2>7. \A t \in QuoteSwitches \ {s} : QuoteOn'[t] = QuoteOn[t]
      BY <1>7, <2>3, QuoteOthers DEF DropQuoteClass
    <2>8. \A t \in QuoteSwitches \ {s} : QuoteBraked'[t] = QuoteBraked[t]
      BY <1>7, <2>6, QuoteOtherBrakes DEF DropQuoteClass
    <2>9. QuoteOn'[s] = FALSE
      BY <2>4, QuoteOnType
    <2> QED
      BY <1>7, <2>4, <2>5, <2>7, <2>8, <2>9, QuoteBrake DEF DropQuoteClass
  <1>8. CASE AuthorizeAnyQuote(caller)
    <2> DEFINE s == <<"any">>
               op == <<"ANY_QUOTE">>
    <2>1. s \in QuoteSwitches /\ op \in QuoteLifts[s]
      BY QuoteForms
    <2>2. ConsumeAfter(op, anyQuoteStoppedAt)
      BY <1>8 DEF AuthorizeAnyQuote
    <2>3. QuoteBraked[s] = anyQuoteStoppedAt
      BY QuoteBrakeTimes
    <2>4. QuoteOn'[s]
      BY <1>8, QuotePositions DEF AuthorizeAnyQuote
    <2>5. \A t \in QuoteSwitches \ {s} : QuoteOn'[t] = QuoteOn[t]
      BY <1>8, QuoteOthers DEF AuthorizeAnyQuote
    <2> HIDE DEF s, op
    <2>6. ConsumeAfter(op, QuoteBraked[s]) /\ QuoteBraked[s] \in Nat
      BY <1>1, <2>2, <2>3
    <2> QED
      BY <1>2, <1>8, <2>1, <2>4, <2>5, <2>6, QuoteLifted DEF AuthorizeAnyQuote
  <1>9. CASE DismissAnyQuote(caller)
    <2> DEFINE s == <<"any">>
    <2>1. s \in QuoteSwitches /\ ~QuoteOn'[s]
      BY <1>9, QuoteForms, QuotePositions DEF DismissAnyQuote
    <2>2. QuoteBraked'[s] = now
      BY <1>9, QuoteBrakeTimes DEF DismissAnyQuote
    <2>3. \A t \in QuoteSwitches \ {s} : QuoteOn'[t] = QuoteOn[t]
      BY <1>9, QuoteOthers DEF DismissAnyQuote
    <2>4. \A t \in QuoteSwitches \ {s} : QuoteBraked'[t] = QuoteBraked[t]
      BY <1>9, QuoteOtherBrakes DEF DismissAnyQuote
    <2> HIDE DEF s
    <2>5. QuoteOn'[s] = FALSE
      BY <2>1, QuoteOnType
    <2> QED
      BY <1>9, <2>1, <2>2, <2>3, <2>4, <2>5, QuoteBrake DEF DismissAnyQuote
  <1>10. ASSUME NEW x \in Currencies, AddSettlementCurrency(caller, x)
         PROVE  QuoteStep
    <2> DEFINE s == <<"settlement", x>>
               op == <<"ADD_SETTLEMENT", x>>
    <2>1. s \in QuoteSwitches /\ op \in QuoteLifts[s]
      BY QuoteForms
    <2>2. ConsumeAfter(op, removedAt[x]) /\ settlement' = IndexPush(settlement, x)
      BY <1>10 DEF AddSettlementCurrency
    <2>3. QuoteBraked[s] = removedAt[x]
      BY QuoteBrakeTimes
    <2>4. settlement'.position[x] # 0 /\ \A y \in Currencies \ {x} : settlement'.position[y] = settlement.position[y]
      BY <1>1, <2>2, PushRemembersOne
    <2>5. QuoteOn'[s]
      BY <2>4, QuotePositions
    <2>6. \A y \in Currencies : s # <<"settlement", y>> => (settlement'.position[y] # 0 <=> settlement.position[y] # 0)
      BY <2>4
    <2> HIDE DEF s, op
    <2>7. \A t \in QuoteSwitches \ {s} : QuoteOn'[t] = QuoteOn[t]
      BY <1>10, <2>6, QuoteOthers DEF AddSettlementCurrency
    <2>8. ConsumeAfter(op, QuoteBraked[s]) /\ QuoteBraked[s] \in Nat
      BY <1>1, <2>2, <2>3
    <2> QED
      BY <1>2, <1>10, <2>1, <2>5, <2>7, <2>8, QuoteLifted DEF AddSettlementCurrency
  <1>11. ASSUME NEW x \in Currencies, RemoveSettlementCurrency(caller, x)
         PROVE  QuoteStep
    <2> DEFINE s == <<"settlement", x>>
    <2>1. settlement' = IndexDrop(settlement, x) /\ removedAt' = [removedAt EXCEPT ![x] = now]
      BY <1>11 DEF RemoveSettlementCurrency
    <2>2. settlement'.position[x] = 0
      BY <1>1, <2>1, DropAgrees
    <2>3. \A y \in Currencies : s # <<"settlement", y>> => (settlement'.position[y] # 0 <=> settlement.position[y] # 0)
      BY <1>1, <2>1, DropForgetsOne
    <2>4. s \in QuoteSwitches /\ ~QuoteOn'[s]
      BY <2>2, QuoteForms, QuotePositions
    <2>5. QuoteBraked'[s] = now
      BY <1>1, <2>1, QuoteBrakeTimes
    <2>6. \A y \in Currencies : s # <<"settlement", y>> => removedAt'[y] = removedAt[y]
      BY <1>1, <2>1
    <2> HIDE DEF s
    <2>7. \A t \in QuoteSwitches \ {s} : QuoteOn'[t] = QuoteOn[t]
      BY <1>11, <2>3, QuoteOthers DEF RemoveSettlementCurrency
    <2>8. \A t \in QuoteSwitches \ {s} : QuoteBraked'[t] = QuoteBraked[t]
      BY <1>11, <2>6, QuoteOtherBrakes DEF RemoveSettlementCurrency
    <2>9. QuoteOn'[s] = FALSE
      BY <2>4, QuoteOnType
    <2> QED
      BY <1>11, <2>4, <2>5, <2>7, <2>8, <2>9, QuoteBrake DEF RemoveSettlementCurrency
  <1> QED
    BY <1>3, <1>4, <1>5, <1>6, <1>7, <1>8, <1>9, <1>10, <1>11 DEF QuoteAction

\* Every step of the registry is a step of the quotes' switches.
LEMMA QuoteStepRefines ==
  ASSUME BrakeInvariant, Typed', [Next]_vars
  PROVE  QuoteStep
  <1>1. Typed
    BY DEF BrakeInvariant
  <1>2. ASSUME NEW caller \in Accounts, MarketAction(caller), UNCHANGED quoteVars
        PROVE  QuoteStep
    BY <1>1, <1>2, ActionsClear, QuotesQuiet
  <1>3. ASSUME NEW caller \in Accounts, QuoteAction(caller)
        PROVE  QuoteStep
    BY <1>1, <1>3, QuoteRefines
  <1>4. ASSUME NEW op \in Operations, Announce(op), UNCHANGED <<now, marketVars, quoteVars>>
        PROVE  QuoteStep
    BY <1>1, <1>4, QuoteQueue
  <1>5. CASE now' > now /\ UNCHANGED <<readyAt, marketVars, quoteVars>>
    BY <1>1, <1>5, QuoteTick
  <1>6. CASE SwitchesRest /\ UNCHANGED quoteVars
    BY <1>1, <1>6, QuotesQuiet DEF SwitchesRest
  <1> QED
    BY <1>2, <1>3, <1>4, <1>5, <1>6, StepsAreKinds DEF StepKinds

\* The registry starts with no quote braked: the constructor's settlement
\* currency is a permission that was never announced.
LEMMA QuoteInitRefines ==
  ASSUME Init
  PROVE  QuoteSwitch!SwitchInit
  <1>1. Typed /\ now \in Nat \ {0}
    BY InitTyped, ClockType DEF Typed, TypeOK, TimelockTypeOK
  <1>2. QuoteOn \in [QuoteSwitches -> BOOLEAN]
    <2>1. ASSUME NEW s \in QuoteSwitches
          PROVE  QuoteOn[s] \in BOOLEAN
      <3>1. CASE s = <<"any">>
        BY <1>1, <3>1, QuotePositions DEF Typed, TypeOK, QuoteTypeOK
      <3>2. CASE s # <<"any">>
        <4>1. s[1] \in {"asset", "class", "settlement"}
          BY <3>2, QuoteForms
        <4>2. CASE s[1] = "asset"
          BY <4>2 DEF QuoteOn, QuoteAllowed
        <4>3. CASE s[1] = "class"
          BY <4>3 DEF QuoteOn, QuoteAllowed
        <4>4. CASE s[1] = "settlement"
          BY <4>4 DEF QuoteOn, QuoteAllowed
        <4> QED
          BY <4>1, <4>2, <4>3, <4>4
      <3> QED
        BY <3>1, <3>2
    <2> QED
      BY <2>1 DEF QuoteOn
  <1>3. QuoteBraked = [s \in QuoteSwitches |-> 0]
    <2>1. /\ \A a \in Assets : lastBrakeAt[a] = 0
          /\ \A c \in Classes : classDroppedAt[c] = 0
          /\ anyQuoteStoppedAt = 0
          /\ \A x \in Currencies : removedAt[x] = 0
      BY DEF Init, QuoteInit
    <2>2. \A s \in QuoteSwitches : QuoteBraked[s] = 0
      BY <2>1, QuoteBrakeTimes, QuoteForms
    <2> QED
      BY <2>2 DEF QuoteBraked
  <1>4. QuoteAnnounced = [l \in AllQuoteLifts |-> 0]
    <2>1. \A l \in AllQuoteLifts : readyAt[l] = 0
      BY QuoteLiftsAreOperations DEF Init, TimelockInit
    <2> QED
      BY <2>1 DEF QuoteAnnounced, Announcements, AnnouncedAt
  <1> QED
    BY <1>1, <1>2, <1>3, <1>4, QuoteStepIs
    DEF QuoteSwitch!SwitchInit, QuoteOn, QuoteBraked, QuoteAllowed, LastQuoteBrake, QuoteAnnounced, AllQuoteLifts

-----------------------------------------------------------------------------

\* The registry's scattered timestamps are the switches BrakedSwitches
\* specifies: every one of its behaviours is a behaviour of the market switches
\* and of the quote switches, so that what a brake promises there it promises
\* here, for any set of launchers, factories, roots, hooks and assets.
THEOREM BrakesRefineSwitches == Spec => BrakesImplementSwitches
  <1>1. Init => MarketSwitch!SwitchInit /\ QuoteSwitch!SwitchInit
    BY MarketInitRefines, QuoteInitRefines
  <1>2. BrakeInvariant => Typed
    BY DEF BrakeInvariant
  <1>3. BrakeInvariant /\ Typed' /\ [Next]_vars => MarketStep /\ QuoteStep
    BY MarketStepRefines, QuoteStepRefines
  <1> QED
    BY <1>1, <1>2, <1>3, BrakeInvariantHolds, PTL
    DEF Spec, BrakesImplementSwitches, MarketStep, QuoteStep, MarketSwitch!SwitchSpec, QuoteSwitch!SwitchSpec

-----------------------------------------------------------------------------
(* What BrakedSwitches promises, kept here.                                    *)

\* No brake lies in the future, and a braked switch is off for a full delay.
BrakesKept(places, lifts, time, on, last, announced) ==
  /\ time \in Nat \ {0}
  /\ on \in [places -> BOOLEAN] /\ last \in [places -> Nat] /\ announced \in [lifts -> Nat]
  /\ \A s \in places : last[s] <= time /\ (last[s] # 0 /\ time < last[s] + Delay => ~on[s])

\* A brake keeps it, and voids what it likes.
LEMMA BrakeKeeps ==
  ASSUME NEW places, NEW lifts, NEW time, NEW on, NEW last, NEW announced,
         BrakesKept(places, lifts, time, on, last, announced),
         NEW s \in places, NEW void
  PROVE  BrakesKept(places, lifts, time, [on EXCEPT ![s] = FALSE], [last EXCEPT ![s] = time],
                    [l \in lifts |-> IF l \in void THEN 0 ELSE announced[l]])
  BY DEF BrakesKept

\* A lift of a matured announcement no older than the brake keeps it.
LEMMA LiftKeeps ==
  ASSUME NEW places, NEW lifts, NEW time, NEW on, NEW last, NEW announced,
         BrakesKept(places, lifts, time, on, last, announced),
         NEW s \in places, NEW l \in lifts, announced[l] >= last[s], time >= announced[l] + Delay
  PROVE  BrakesKept(places, lifts, time, [on EXCEPT ![s] = TRUE], last, [announced EXCEPT ![l] = 0])
  <1>1. /\ time >= last[s] + Delay
        /\ time \in Nat \ {0} /\ last \in [places -> Nat] /\ announced[l] \in Nat /\ Delay \in Nat
    BY DelayAssumption DEF BrakesKept
  <1> QED
    BY <1>1 DEF BrakesKept

\* The clock, an announcement, its withdrawal and a switch turned off keep it.
LEMMA OthersKeep ==
  ASSUME NEW places, NEW lifts, NEW time, NEW on, NEW last, NEW announced,
         BrakesKept(places, lifts, time, on, last, announced)
  PROVE  /\ \A later \in Nat : later > time => BrakesKept(places, lifts, later, on, last, announced)
         /\ \A l \in lifts : BrakesKept(places, lifts, time, on, last, [announced EXCEPT ![l] = time])
         /\ \A l \in lifts : BrakesKept(places, lifts, time, on, last, [announced EXCEPT ![l] = 0])
         /\ \A s \in places : BrakesKept(places, lifts, time, [on EXCEPT ![s] = FALSE], last, announced)
  BY DelayAssumption DEF BrakesKept

MarketKept == BrakesKept(MarketSwitches, AllMarketLifts, now, MarketOn, MarketBraked, MarketAnnounced)

\* Every step of the market switches keeps their promise.
LEMMA MarketStepKeeps ==
  ASSUME MarketKept, MarketStep
  PROVE  MarketKept'
  <1> USE DEF MarketKept
  <1>1. MarketKept' <=> BrakesKept(MarketSwitches, AllMarketLifts, now', MarketOn', MarketBraked', MarketAnnounced')
    BY DEF BrakesKept
  <1>2. CASE MarketSwitch!TimePasses
    <2>1. now' \in Nat /\ now' > now /\ MarketOn' = MarketOn /\ MarketBraked' = MarketBraked /\ MarketAnnounced' = MarketAnnounced
      BY <1>2 DEF MarketSwitch!TimePasses, MarketOn, MarketBraked, MarketAnnounced, AllMarketLifts
    <2> QED
      BY <1>1, <2>1, OthersKeep
  <1>3. ASSUME NEW l \in AllMarketLifts, MarketSwitch!AnnounceLift(l) \/ MarketSwitch!Withdraw(l)
        PROVE  MarketKept'
    <2>1. /\ now' = now /\ MarketOn' = MarketOn /\ MarketBraked' = MarketBraked
          /\ MarketAnnounced' = [MarketAnnounced EXCEPT ![l] = now] \/ MarketAnnounced' = [MarketAnnounced EXCEPT ![l] = 0]
      BY <1>3 DEF MarketSwitch!AnnounceLift, MarketSwitch!Withdraw, MarketOn, MarketBraked, MarketAnnounced, AllMarketLifts
    <2> QED
      BY <1>1, <2>1, OthersKeep
  <1>4. ASSUME NEW s \in MarketSwitches, NEW l \in MarketLifts[s], MarketSwitch!Lift(s, l)
        PROVE  MarketKept'
    <2>1. l \in AllMarketLifts
      BY DEF AllMarketLifts
    <2>2. /\ MarketAnnounced[l] >= MarketBraked[s] /\ now >= MarketAnnounced[l] + Delay
          /\ now' = now /\ MarketBraked' = MarketBraked
          /\ MarketOn' = [MarketOn EXCEPT ![s] = TRUE] /\ MarketAnnounced' = [MarketAnnounced EXCEPT ![l] = 0]
      BY <1>4 DEF MarketSwitch!Lift, MarketOn, MarketBraked, MarketAnnounced, AllMarketLifts
    <2> QED
      BY <1>1, <2>1, <2>2, LiftKeeps
  <1>5. ASSUME NEW s \in MarketSwitches, MarketSwitch!Brake(s)
        PROVE  MarketKept'
    <2>1. PICK void \in SUBSET MarketLifts[s] :
            MarketAnnounced' = [l \in AllMarketLifts |-> IF l \in void THEN 0 ELSE MarketAnnounced[l]]
      BY <1>5, MarketStepIs DEF MarketSwitch!Brake, MarketAnnounced, AllMarketLifts
    <2>2. now' = now /\ MarketOn' = [MarketOn EXCEPT ![s] = FALSE] /\ MarketBraked' = [MarketBraked EXCEPT ![s] = now]
      BY <1>5 DEF MarketSwitch!Brake, MarketOn, MarketBraked
    <2>3. BrakesKept(MarketSwitches, AllMarketLifts, now, [MarketOn EXCEPT ![s] = FALSE], [MarketBraked EXCEPT ![s] = now],
                     [l \in AllMarketLifts |-> IF l \in void THEN 0 ELSE MarketAnnounced[l]])
      BY BrakeKeeps
    <2> QED
      BY <1>1, <2>1, <2>2, <2>3
  <1>6. ASSUME NEW s \in MarketSwitches, MarketSwitch!SwitchOff(s)
        PROVE  MarketKept'
    <2>1. now' = now /\ MarketOn' = [MarketOn EXCEPT ![s] = FALSE] /\ MarketBraked' = MarketBraked /\ MarketAnnounced' = MarketAnnounced
      BY <1>6 DEF MarketSwitch!SwitchOff, MarketOn, MarketBraked, MarketAnnounced, AllMarketLifts
    <2> QED
      BY <1>1, <2>1, OthersKeep
  <1>7. CASE now' = now /\ MarketOn' = MarketOn /\ MarketBraked' = MarketBraked /\ MarketAnnounced' = MarketAnnounced
    BY <1>1, <1>7
  <1> QED
    BY <1>2, <1>3, <1>4, <1>5, <1>6, <1>7, MarketStepIs DEF MarketSwitch!SwitchNext

QuoteKept == BrakesKept(QuoteSwitches, AllQuoteLifts, now, QuoteOn, QuoteBraked, QuoteAnnounced)

\* Every step of the quote switches keeps their promise.
LEMMA QuoteStepKeeps ==
  ASSUME QuoteKept, QuoteStep
  PROVE  QuoteKept'
  <1> USE DEF QuoteKept
  <1>1. QuoteKept' <=> BrakesKept(QuoteSwitches, AllQuoteLifts, now', QuoteOn', QuoteBraked', QuoteAnnounced')
    BY DEF BrakesKept
  <1>2. CASE QuoteSwitch!TimePasses
    <2>1. now' \in Nat /\ now' > now /\ QuoteOn' = QuoteOn /\ QuoteBraked' = QuoteBraked /\ QuoteAnnounced' = QuoteAnnounced
      BY <1>2 DEF QuoteSwitch!TimePasses, QuoteOn, QuoteBraked, QuoteAllowed, LastQuoteBrake, QuoteAnnounced, AllQuoteLifts
    <2> QED
      BY <1>1, <2>1, OthersKeep
  <1>3. ASSUME NEW l \in AllQuoteLifts, QuoteSwitch!AnnounceLift(l) \/ QuoteSwitch!Withdraw(l)
        PROVE  QuoteKept'
    <2>1. /\ now' = now /\ QuoteOn' = QuoteOn /\ QuoteBraked' = QuoteBraked
          /\ QuoteAnnounced' = [QuoteAnnounced EXCEPT ![l] = now] \/ QuoteAnnounced' = [QuoteAnnounced EXCEPT ![l] = 0]
      BY <1>3 DEF QuoteSwitch!AnnounceLift, QuoteSwitch!Withdraw, QuoteOn, QuoteBraked, QuoteAllowed, LastQuoteBrake, QuoteAnnounced, AllQuoteLifts
    <2> QED
      BY <1>1, <2>1, OthersKeep
  <1>4. ASSUME NEW s \in QuoteSwitches, NEW l \in QuoteLifts[s], QuoteSwitch!Lift(s, l)
        PROVE  QuoteKept'
    <2>1. l \in AllQuoteLifts
      BY DEF AllQuoteLifts
    <2>2. /\ QuoteAnnounced[l] >= QuoteBraked[s] /\ now >= QuoteAnnounced[l] + Delay
          /\ now' = now /\ QuoteBraked' = QuoteBraked
          /\ QuoteOn' = [QuoteOn EXCEPT ![s] = TRUE] /\ QuoteAnnounced' = [QuoteAnnounced EXCEPT ![l] = 0]
      BY <1>4 DEF QuoteSwitch!Lift, QuoteOn, QuoteBraked, QuoteAllowed, LastQuoteBrake, QuoteAnnounced, AllQuoteLifts
    <2> QED
      BY <1>1, <2>1, <2>2, LiftKeeps
  <1>5. ASSUME NEW s \in QuoteSwitches, QuoteSwitch!Brake(s)
        PROVE  QuoteKept'
    <2>1. PICK void \in SUBSET QuoteLifts[s] :
            QuoteAnnounced' = [l \in AllQuoteLifts |-> IF l \in void THEN 0 ELSE QuoteAnnounced[l]]
      BY <1>5, QuoteStepIs DEF QuoteSwitch!Brake, QuoteAnnounced, AllQuoteLifts
    <2>2. now' = now /\ QuoteOn' = [QuoteOn EXCEPT ![s] = FALSE] /\ QuoteBraked' = [QuoteBraked EXCEPT ![s] = now]
      BY <1>5 DEF QuoteSwitch!Brake, QuoteOn, QuoteBraked, QuoteAllowed, LastQuoteBrake
    <2>3. BrakesKept(QuoteSwitches, AllQuoteLifts, now, [QuoteOn EXCEPT ![s] = FALSE], [QuoteBraked EXCEPT ![s] = now],
                     [l \in AllQuoteLifts |-> IF l \in void THEN 0 ELSE QuoteAnnounced[l]])
      BY BrakeKeeps
    <2> QED
      BY <1>1, <2>1, <2>2, <2>3
  <1>6. ASSUME NEW s \in QuoteSwitches, QuoteSwitch!SwitchOff(s)
        PROVE  QuoteKept'
    <2>1. now' = now /\ QuoteOn' = [QuoteOn EXCEPT ![s] = FALSE] /\ QuoteBraked' = QuoteBraked /\ QuoteAnnounced' = QuoteAnnounced
      BY <1>6 DEF QuoteSwitch!SwitchOff, QuoteOn, QuoteBraked, QuoteAllowed, LastQuoteBrake, QuoteAnnounced, AllQuoteLifts
    <2> QED
      BY <1>1, <2>1, OthersKeep
  <1>7. CASE now' = now /\ QuoteOn' = QuoteOn /\ QuoteBraked' = QuoteBraked /\ QuoteAnnounced' = QuoteAnnounced
    BY <1>1, <1>7
  <1> QED
    BY <1>2, <1>3, <1>4, <1>5, <1>6, <1>7, QuoteStepIs DEF QuoteSwitch!SwitchNext

\* At the start no brake has fallen.
LEMMA StartKept ==
  ASSUME MarketSwitch!SwitchInit, QuoteSwitch!SwitchInit
  PROVE  MarketKept /\ QuoteKept
  <1>1. /\ now \in Nat \ {0} /\ MarketOn \in [MarketSwitches -> BOOLEAN]
        /\ MarketBraked = [s \in MarketSwitches |-> 0] /\ MarketAnnounced = [l \in AllMarketLifts |-> 0]
    BY MarketStepIs DEF MarketSwitch!SwitchInit, MarketOn, MarketBraked, MarketAnnounced, AllMarketLifts
  <1>2. /\ QuoteOn \in [QuoteSwitches -> BOOLEAN]
        /\ QuoteBraked = [s \in QuoteSwitches |-> 0] /\ QuoteAnnounced = [l \in AllQuoteLifts |-> 0]
    BY QuoteStepIs
    DEF QuoteSwitch!SwitchInit, QuoteOn, QuoteBraked, QuoteAllowed, LastQuoteBrake, QuoteAnnounced, AllQuoteLifts
  <1>3. MarketKept
    BY <1>1 DEF MarketKept, BrakesKept
  <1>4. QuoteKept
    BY <1>1, <1>2 DEF QuoteKept, BrakesKept
  <1> QED
    BY <1>3, <1>4

\* What it promises.
LEMMA KeptHolds ==
  /\ MarketKept => MarketSwitch!HoldsFullDelay
  /\ QuoteKept => QuoteSwitch!HoldsFullDelay
  <1>1. ASSUME MarketKept, NEW s \in MarketSwitches, MarketBraked[s] # 0, now < MarketBraked[s] + Delay
        PROVE  ~MarketOn[s]
    BY <1>1 DEF MarketKept, BrakesKept
  <1>2. ASSUME QuoteKept, NEW s \in QuoteSwitches, QuoteBraked[s] # 0, now < QuoteBraked[s] + Delay
        PROVE  ~QuoteOn[s]
    BY <1>2 DEF QuoteKept, BrakesKept
  <1>3. MarketKept => MarketSwitch!HoldsFullDelay
    BY <1>1 DEF MarketSwitch!HoldsFullDelay, MarketOn, MarketBraked
  <1>4. QuoteKept => QuoteSwitch!HoldsFullDelay
    BY <1>2 DEF QuoteSwitch!HoldsFullDelay, QuoteOn, QuoteBraked, QuoteAllowed, LastQuoteBrake
  <1> QED
    BY <1>3, <1>4

\* Every brake of the registry that has an encoding of a switch, the records' and
\* the quotes' timestamps included, holds for a full delay: what BrakedSwitches
\* promises follows from its steps alone, and each of the registry's is one.
THEOREM SwitchesHoldFullDelay == Spec => [](MarketSwitch!HoldsFullDelay /\ QuoteSwitch!HoldsFullDelay)
  <1>1. MarketSwitch!SwitchInit /\ QuoteSwitch!SwitchInit => MarketKept /\ QuoteKept
    BY StartKept
  <1>2. MarketKept /\ QuoteKept /\ MarketStep /\ QuoteStep => MarketKept' /\ QuoteKept'
    BY MarketStepKeeps, QuoteStepKeeps
  <1>3. MarketKept /\ QuoteKept => MarketSwitch!HoldsFullDelay /\ QuoteSwitch!HoldsFullDelay
    BY KeptHolds
  <1> QED
    BY <1>1, <1>2, <1>3, BrakesRefineSwitches, PTL
    DEF BrakesImplementSwitches, MarketStep, QuoteStep, MarketSwitch!SwitchSpec, QuoteSwitch!SwitchSpec

=============================================================================
