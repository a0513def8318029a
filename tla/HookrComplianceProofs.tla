------------------------- MODULE HookrComplianceProofs -------------------------
(* Proofs about HookrCompliance, and through it about the epochs of          *)
(* HookrGoverned, for every set of accounts, lists, wallets, tiers and       *)
(* sources, every delay and grace period and every agenda.                   *)
EXTENDS HookrComplianceGuard, TLAPS

Governed == GovernedTypeOK(ComplianceOperations, EpochKeys)

-----------------------------------------------------------------------------
(* Type correctness.                                                         *)

\* The clock is a positive number and delays are numbers.
LEMMA ClockType ==
  ASSUME Governed
  PROVE  /\ now \in Nat \ {0} /\ Delay \in Nat \ {0} /\ Grace \in Nat /\ MaxTtl \in Nat
         /\ MaxEpoch \in Nat
  BY DelayAssumption, GraceAssumption, BoundAssumption, ComplianceAssumption
  DEF Governed, GovernedTypeOK

\* A switch is an operation that is its own epoch key.
LEMMA SwitchKey ==
  ASSUME NEW s \in Switches
  PROVE  s \in ComplianceOperations /\ EpochKey(s) = s /\ s \in EpochKeys
  BY DEF ComplianceOperations, EpochKey, EpochKeys

\* The switches, by kind.
LEMMA SwitchForms ==
  /\ \A l \in Lists : <<"RESUME_LIST", l>> \in Switches
  /\ \A l \in Lists, a \in Accounts : <<"GRANT_ATTESTER", l, a>> \in Switches
  /\ \A a \in Accounts : <<"GRANT_OFFICER", a>> \in Switches /\ <<"GRANT_GUARDIAN", a>> \in Switches
  /\ \A s \in Switches :
       \/ \E l \in Lists : s = <<"RESUME_LIST", l>>
       \/ \E l \in Lists, a \in Accounts : s = <<"GRANT_ATTESTER", l, a>>
       \/ \E a \in Accounts : s = <<"GRANT_OFFICER", a>>
       \/ \E a \in Accounts : s = <<"GRANT_GUARDIAN", a>>
  BY DEF Switches

\* Writing one ready time keeps the table's type.
LEMMA SetReadyType ==
  ASSUME Governed, NEW op, NEW e, NEW time \in Nat,
         readyAt' = [readyAt EXCEPT ![op] = [@ EXCEPT ![e] = time]]
  PROVE  readyAt' \in [ComplianceOperations -> [Epochs -> Nat]]
  BY DEF Governed, GovernedTypeOK

\* So do an announcement and an execution.
LEMMA TimelockType ==
  ASSUME Governed, NEW op, NEW key, Announce(op, key) \/ Consume(op, key)
  PROVE  readyAt' \in [ComplianceOperations -> [Epochs -> Nat]]
  <1>1. now + Delay \in Nat
    BY ClockType
  <1>2. CASE Announce(op, key)
    BY <1>1, <1>2, SetReadyType DEF Announce, SetReady
  <1>3. CASE Consume(op, key)
    BY <1>3, SetReadyType DEF Consume, SetReady
  <1> QED
    BY <1>2, <1>3

\* A brake keeps the epochs inside their bound.
LEMMA BrakeType ==
  ASSUME Governed, heldSince \in [Switches -> Nat], NEW s \in Switches, BrakeSwitch(s)
  PROVE  Governed' /\ heldSince' \in [Switches -> Nat]
  <1>1. s \in EpochKeys /\ now \in Nat
    BY SwitchKey, ClockType
  <1>2. epoch' \in [EpochKeys -> Epochs]
    BY <1>1, ClockType DEF BrakeSwitch, InvalidateQueued, Governed, GovernedTypeOK, Epochs
  <1> QED
    BY <1>1, <1>2 DEF BrakeSwitch, Governed, GovernedTypeOK

\* Executing a compliance operation keeps the timelock's type.
LEMMA ExecuteType ==
  ASSUME Governed, NEW caller, NEW op, Execute(caller, op)
  PROVE  Governed' /\ heldSince' = heldSince
  BY TimelockType DEF Execute, Governed, GovernedTypeOK

\* The handover of ownership keeps it.
LEMMA HandoverType ==
  ASSUME Governed, NEW caller \in Accounts, Handover(caller)
  PROVE  Governed'
  <1>1. ASSUME NEW next \in Accounts, TransferOwnership(caller, next)
        PROVE  Governed'
    BY <1>1, TimelockType DEF TransferOwnership, Governed, GovernedTypeOK
  <1>2. CASE CancelNomination(caller)
    BY <1>2 DEF CancelNomination, Governed, GovernedTypeOK
  <1>3. CASE AcceptOwnership(caller)
    BY <1>3 DEF AcceptOwnership, Governed, GovernedTypeOK
  <1> QED
    BY <1>1, <1>2, <1>3 DEF Handover

\* Everything but the timelock.
RolesTypeOK ==
  /\ created \subseteq Lists /\ suspended \subseteq created
  /\ attesters \in [Lists -> [Accounts -> [since : Nat, validFrom : Nat]]]
  /\ credentials \in [Lists -> [Wallets -> CredentialState]]
  /\ sanctioned \subseteq Wallets
  /\ officers \subseteq Accounts /\ guardians \subseteq Accounts
  /\ source \in Sources \cup {NoOne}
  /\ sourceDown \subseteq Sources
  /\ sourceLists \in [Sources -> SUBSET Wallets]
  /\ heldSince \in [Switches -> Nat]

Typed == Governed /\ RolesTypeOK

\* The proofs' form of the type invariant is the module's.
LEMMA TypedIsTypeOK == Typed <=> ComplianceTypeOK
  BY DEF Typed, Governed, RolesTypeOK, ComplianceTypeOK

\* What one account does outside the lists keeps the type.
LEMMA AccountType ==
  ASSUME Typed, NEW caller \in Accounts, By(caller)
  PROVE  Typed'
  <1> USE DEF Typed, RolesTypeOK, listVars, roleVars, sanctionVars, sourceVars, complianceVars
  <1>1. ASSUME NEW op \in Agenda, Queue(caller, op)
        PROVE  Typed'
    BY <1>1, TimelockType DEF Queue, Governed, GovernedTypeOK
  <1>2. ASSUME NEW op \in ComplianceOperations, NEW e \in Epochs, Cancel(caller, op, e), UNCHANGED complianceVars
        PROVE  Typed'
    BY <1>2, SetReadyType DEF Cancel, Governed, GovernedTypeOK
  <1>3. CASE Handover(caller) /\ UNCHANGED complianceVars
    BY <1>3, HandoverType
  <1>4. ASSUME NEW ws \in SUBSET Wallets, NEW listed \in BOOLEAN, SetSanctioned(caller, ws, listed)
        PROVE  Typed'
    BY <1>4 DEF SetSanctioned, governanceVars, Governed, GovernedTypeOK
  <1>5. CASE RenounceOfficer(caller)
    BY <1>5 DEF RenounceOfficer, governanceVars, Governed, GovernedTypeOK
  <1>6. ASSUME NEW a \in Accounts, RevokeOfficer(caller, a)
        PROVE  Typed'
    BY <1>6, BrakeType, SwitchForms DEF RevokeOfficer
  <1>7. ASSUME NEW a \in Accounts, RevokeGuardian(caller, a)
        PROVE  Typed'
    BY <1>7, BrakeType, SwitchForms DEF RevokeGuardian
  <1>8. ASSUME NEW a \in Accounts, GrantOfficer(caller, a)
        PROVE  Typed'
    BY <1>8, ExecuteType DEF GrantOfficer
  <1>9. ASSUME NEW a \in Accounts, GrantGuardian(caller, a)
        PROVE  Typed'
    BY <1>9, ExecuteType DEF GrantGuardian
  <1>10. CASE ClearSanctionsSource(caller)
    BY <1>10 DEF ClearSanctionsSource, governanceVars, Governed, GovernedTypeOK
  <1>11. ASSUME NEW s \in Sources \cup {NoOne}, SetSanctionsSource(caller, s)
         PROVE  Typed'
    BY <1>11, ExecuteType DEF SetSanctionsSource
  <1> QED
    BY <1>1, <1>2, <1>3, <1>4, <1>5, <1>6, <1>7, <1>8, <1>9, <1>10, <1>11 DEF By

\* A write into one list's credentials keeps their type.
LEMMA CredentialType ==
  ASSUME RolesTypeOK, NEW l \in Lists, NEW table \in [Wallets -> CredentialState],
         credentials' = [credentials EXCEPT ![l] = table]
  PROVE  credentials' \in [Lists -> [Wallets -> CredentialState]]
  BY DEF RolesTypeOK

\* A write into one list's attesters keeps theirs.
LEMMA AttesterType ==
  ASSUME RolesTypeOK, NEW l \in Lists,
         NEW row \in [Accounts -> [since : Nat, validFrom : Nat]],
         attesters' = [attesters EXCEPT ![l] = row]
  PROVE  attesters' \in [Lists -> [Accounts -> [since : Nat, validFrom : Nat]]]
  BY DEF RolesTypeOK

\* So does what one account does to a list.
LEMMA ListType ==
  ASSUME Typed, NEW caller \in Accounts, NEW l \in Lists, ByOnList(caller, l)
  PROVE  Typed'
  <1> USE DEF Typed, RolesTypeOK, listVars, roleVars, sanctionVars, sourceVars
  <1>1. /\ \A a \in Accounts : attesters[l][a] \in [since : Nat, validFrom : Nat]
        /\ credentials[l] \in [Wallets -> CredentialState]
        /\ now \in Nat
    BY ClockType
  <1>2. ASSUME UNCHANGED governanceVars
        PROVE  Governed'
    BY <1>2 DEF governanceVars, Governed, GovernedTypeOK
  <1>3. ASSUME NEW ws \in SUBSET Wallets, NEW tiersOf \in [ws -> SUBSET Tiers],
               NEW time \in ExpiryTimes, Attest(caller, l, tiersOf, time)
        PROVE  Typed'
    <2>1. time \in Nat
      BY BoundAssumption, ComplianceAssumption DEF ExpiryTimes
    <2> DEFINE table == [w \in Wallets |->
                 IF w \in DOMAIN tiersOf
                 THEN [issuer |-> caller, expiresAt |-> time, issuedAt |-> now, tiers |-> tiersOf[w]]
                 ELSE credentials[l][w]]
    <2>2. table \in [Wallets -> CredentialState]
      BY <1>1, <2>1 DEF CredentialState
    <2>3. credentials' = [credentials EXCEPT ![l] = table]
      BY <1>3 DEF Attest
    <2> HIDE DEF table
    <2>4. credentials' \in [Lists -> [Wallets -> CredentialState]]
      BY <2>2, <2>3, CredentialType
    <2> QED
      BY <1>2, <1>3, <2>4 DEF Attest
  <1>4. ASSUME NEW ws \in SUBSET Wallets, RevokeCredential(caller, l, ws)
        PROVE  Typed'
    <2> DEFINE table == [w \in Wallets |->
                 IF w \in ws THEN [NoCredential EXCEPT !.issuer = caller, !.issuedAt = now]
                 ELSE credentials[l][w]]
    <2>1. [NoCredential EXCEPT !.issuer = caller, !.issuedAt = now] \in CredentialState
      BY <1>1 DEF NoCredential, CredentialState
    <2>2. table \in [Wallets -> CredentialState]
      BY <1>1, <2>1
    <2>3. credentials' = [credentials EXCEPT ![l] = table]
      BY <1>4 DEF RevokeCredential
    <2> HIDE DEF table
    <2>4. credentials' \in [Lists -> [Wallets -> CredentialState]]
      BY <2>2, <2>3, CredentialType
    <2> QED
      BY <1>2, <1>4, <2>4 DEF RevokeCredential
  <1>5. CASE RenounceAttester(caller, l)
    <2> DEFINE row == [attesters[l] EXCEPT ![caller] = [attesters[l][caller] EXCEPT !.since = 0]]
    <2>1. row \in [Accounts -> [since : Nat, validFrom : Nat]]
      BY <1>1
    <2>2. attesters' = [attesters EXCEPT ![l] = row]
      BY <1>5 DEF RenounceAttester
    <2> HIDE DEF row
    <2>3. attesters' \in [Lists -> [Accounts -> [since : Nat, validFrom : Nat]]]
      BY <2>1, <2>2, AttesterType
    <2> QED
      BY <1>2, <1>5, <2>3 DEF RenounceAttester
  <1>6. ASSUME NEW a \in Accounts, RevokeAttester(caller, l, a)
        PROVE  Typed'
    <2> DEFINE row == [attesters[l] EXCEPT ![a] = [attesters[l][a] EXCEPT !.since = 0]]
    <2>1. row \in [Accounts -> [since : Nat, validFrom : Nat]]
      BY <1>1
    <2>2. attesters' = [attesters EXCEPT ![l] = row]
      BY <1>6 DEF RevokeAttester
    <2> HIDE DEF row
    <2>3. attesters' \in [Lists -> [Accounts -> [since : Nat, validFrom : Nat]]]
      BY <2>1, <2>2, AttesterType
    <2> QED
      BY <1>6, <2>3, BrakeType, SwitchForms DEF RevokeAttester
  <1>7. ASSUME NEW a \in Accounts, GrantAttester(caller, l, a)
        PROVE  Typed'
    <2> DEFINE row == [attesters[l] EXCEPT ![a] = [since |-> now, validFrom |-> IF attesters[l][a].validFrom = 0 THEN now ELSE attesters[l][a].validFrom]]
    <2>1. row \in [Accounts -> [since : Nat, validFrom : Nat]]
      BY <1>1
    <2>2. attesters' = [attesters EXCEPT ![l] = row]
      BY <1>7 DEF GrantAttester
    <2> HIDE DEF row
    <2>3. attesters' \in [Lists -> [Accounts -> [since : Nat, validFrom : Nat]]]
      BY <2>1, <2>2, AttesterType
    <2> QED
      BY <1>7, <2>3, ExecuteType DEF GrantAttester
  <1>8. ASSUME NEW a \in Accounts, VoidCredentials(caller, l, a)
        PROVE  Typed'
    <2> DEFINE row == [attesters[l] EXCEPT ![a] = [attesters[l][a] EXCEPT !.validFrom = now]]
    <2>1. row \in [Accounts -> [since : Nat, validFrom : Nat]]
      BY <1>1
    <2>2. attesters' = [attesters EXCEPT ![l] = row]
      BY <1>8 DEF VoidCredentials
    <2> HIDE DEF row
    <2>3. attesters' \in [Lists -> [Accounts -> [since : Nat, validFrom : Nat]]]
      BY <2>1, <2>2, AttesterType
    <2> QED
      BY <1>8, <2>3, ExecuteType DEF VoidCredentials
  <1>9. CASE SuspendList(caller, l)
    BY <1>9, BrakeType, SwitchForms DEF SuspendList
  <1>10. CASE CreateList(caller, l)
    BY <1>10, ExecuteType DEF CreateList
  <1>11. CASE ResumeList(caller, l)
    BY <1>11, ExecuteType DEF ResumeList
  <1> QED
    BY <1>3, <1>4, <1>5, <1>6, <1>7, <1>8, <1>9, <1>10, <1>11 DEF ByOnList

\* The registry starts well typed.
LEMMA InitTyped ==
  ASSUME ComplianceInit
  PROVE  Typed
  <1>1. 0 \in Epochs /\ 1 \in 1..MaxTime
    BY BoundAssumption DEF Epochs
  <1>2. Governed
    BY <1>1, AccountAssumption DEF ComplianceInit, GovernedInit, Governed, GovernedTypeOK
  <1>3. NoCredential \in CredentialState
    BY DEF NoCredential, CredentialState
  <1> QED
    BY <1>2, <1>3 DEF ComplianceInit, Typed, RolesTypeOK

\* Every entry point, and every turn of the environment, keeps the types.
LEMMA StepTyped ==
  ASSUME Typed, [ComplianceNext]_vars
  PROVE  Typed'
  <1> USE DEF Typed, RolesTypeOK, listVars, roleVars, sanctionVars, sourceVars, complianceVars
  <1>1. ASSUME UNCHANGED governanceVars
        PROVE  Governed'
    BY <1>1 DEF governanceVars, Governed, GovernedTypeOK
  <1>2. ASSUME NEW caller \in Accounts, By(caller) \/ \E l \in Lists : ByOnList(caller, l)
        PROVE  Typed'
    BY <1>2, AccountType, ListType
  <1>3. ASSUME NEW l \in Lists, NEW w \in Wallets, NEW c \in Attestations, AttestBySig(l, w, c)
        PROVE  Typed'
    <2>1. c \in CredentialState
      BY BoundAssumption, ComplianceAssumption DEF Attestations, ExpiryTimes, CredentialState
    <2>2. [credentials[l] EXCEPT ![w] = c] \in [Wallets -> CredentialState]
      BY <2>1
    <2>3. credentials' = [credentials EXCEPT ![l] = [credentials[l] EXCEPT ![w] = c]]
      BY <1>3 DEF AttestBySig
    <2>4. credentials' \in [Lists -> [Wallets -> CredentialState]]
      BY <2>2, <2>3, CredentialType
    <2> QED
      BY <1>1, <1>3, <2>4 DEF AttestBySig
  <1>4. CASE Tick /\ UNCHANGED complianceVars
    BY <1>4, BoundAssumption DEF Tick, Governed, GovernedTypeOK
  <1>5. ASSUME NEW s \in Sources, SourceTurns(s)
        PROVE  Typed'
    BY <1>1, <1>5 DEF SourceTurns
  <1>6. CASE UNCHANGED vars
    BY <1>1, <1>6 DEF vars
  <1> QED
    BY <1>2, <1>3, <1>4, <1>5, <1>6 DEF ComplianceNext

\* Every reachable state of the compliance registry is well typed.
THEOREM ComplianceTypeCorrect == ComplianceSpec => []ComplianceTypeOK
  <1>1. ComplianceInit => Typed
    BY InitTyped
  <1>2. Typed /\ [ComplianceNext]_vars => Typed'
    BY StepTyped
  <1> QED
    BY <1>1, <1>2, TypedIsTypeOK, PTL DEF ComplianceSpec

-----------------------------------------------------------------------------
(* The brakes.                                                               *)

\* A switch is on when its role or list is.
LEMMA SwitchOn ==
  /\ \A l \in Lists : (IsOn(<<"RESUME_LIST", l>>) <=> l \notin suspended)
                   /\ (IsOn(<<"RESUME_LIST", l>>)' <=> l \notin suspended')
  /\ \A l \in Lists, a \in Accounts :
       /\ IsOn(<<"GRANT_ATTESTER", l, a>>) <=> attesters[l][a].since # 0
       /\ IsOn(<<"GRANT_ATTESTER", l, a>>)' <=> attesters'[l][a].since # 0
  /\ \A a \in Accounts : (IsOn(<<"GRANT_OFFICER", a>>) <=> a \in officers)
                      /\ (IsOn(<<"GRANT_OFFICER", a>>)' <=> a \in officers')
  /\ \A a \in Accounts : (IsOn(<<"GRANT_GUARDIAN", a>>) <=> a \in guardians)
                      /\ (IsOn(<<"GRANT_GUARDIAN", a>>)' <=> a \in guardians')
  BY DEF IsOn

\* Nothing is queued in an epoch that has not begun.
Unwritten ==
  \A op \in ComplianceOperations, e \in Epochs : e > epoch[EpochKey(op)] => readyAt[op][e] = 0

\* These switches keep their position and their announcement.
Stand(some) == \A s \in some : (IsOn(s)' <=> IsOn(s)) /\ Ready(s, s)' = Ready(s, s)

\* What a step can do to the switches, told by what it does to one of them.
Resting == UNCHANGED <<now, heldSince>> /\ Stand(Switches)

Passing == now' > now /\ UNCHANGED heldSince /\ Stand(Switches)

Announcing(s) ==
  /\ Ready(s, s) = 0 \/ now > Ready(s, s) + Grace
  /\ Ready(s, s)' = now + Delay
  /\ IsOn(s)' <=> IsOn(s)
  /\ UNCHANGED <<now, heldSince>> /\ Stand(Switches \ {s})

Withdrawing(s) ==
  /\ Ready(s, s)' = 0
  /\ IsOn(s)' <=> IsOn(s)
  /\ UNCHANGED <<now, heldSince>> /\ Stand(Switches \ {s})

Lifting(s) ==
  /\ Ready(s, s) # 0 /\ now >= Ready(s, s) /\ now <= Ready(s, s) + Grace
  /\ Ready(s, s)' = 0
  /\ IsOn(s)'
  /\ UNCHANGED <<now, heldSince>> /\ Stand(Switches \ {s})

Dropping(s) ==
  /\ Ready(s, s)' = Ready(s, s)
  /\ ~IsOn(s)'
  /\ UNCHANGED <<now, heldSince>> /\ Stand(Switches \ {s})

Braking(s) ==
  /\ Ready(s, s)' = 0
  /\ ~IsOn(s)'
  /\ heldSince' = [heldSince EXCEPT ![s] = now]
  /\ UNCHANGED now /\ Stand(Switches \ {s})

SwitchStep ==
  \/ Resting
  \/ Passing
  \/ \E s \in Switches :
       Announcing(s) \/ Withdrawing(s) \/ Lifting(s) \/ Dropping(s) \/ Braking(s)

\* Writing a ready time touches no other operation's, and in a current epoch
\* nothing that has not begun.
LEMMA WriteOne ==
  ASSUME Governed, Unwritten, NEW op \in ComplianceOperations, NEW e \in Epochs, NEW time \in Nat,
         readyAt' = [readyAt EXCEPT ![op] = [@ EXCEPT ![e] = time]], epoch' = epoch,
         time = 0 \/ e = epoch[EpochKey(op)]
  PROVE  /\ Unwritten'
         /\ \A s \in Switches \ {op} : Ready(s, s)' = Ready(s, s)
         /\ \A s \in Switches : s = op /\ e = epoch[s] => Ready(s, s)' = time
         /\ \A s \in Switches : e # epoch[s] => Ready(s, s)' = Ready(s, s)
  <1>1. /\ readyAt \in [ComplianceOperations -> [Epochs -> Nat]]
        /\ epoch \in [EpochKeys -> Epochs]
    BY DEF Governed, GovernedTypeOK
  <1>2. \A o \in ComplianceOperations, f \in Epochs :
          readyAt'[o][f] = IF o = op /\ f = e THEN time ELSE readyAt[o][f]
    BY <1>1
  <1>3. \A s \in Switches : s \in ComplianceOperations /\ epoch[s] \in Epochs
    BY <1>1, SwitchKey
  <1>4. EpochKey(op) \in EpochKeys /\ epoch[EpochKey(op)] \in Epochs
    BY <1>1 DEF EpochKeys
  <1>5. \A f \in Epochs : f > epoch[EpochKey(op)] => f # epoch[EpochKey(op)]
    BY <1>4, BoundAssumption DEF Epochs
  <1>6. Unwritten'
    BY <1>2, <1>5 DEF Unwritten
  <1> QED
    BY <1>2, <1>3, <1>6 DEF Ready

\* An operation's epoch is one.
LEMMA EpochType ==
  ASSUME Governed, NEW op \in ComplianceOperations
  PROVE  epoch[EpochKey(op)] \in Epochs
  BY DEF Governed, GovernedTypeOK, EpochKeys

\* What only moves the roles of governance, and what only consumes an operation
\* that restores nothing, leaves every switch alone.
LEMMA Elsewhere ==
  ASSUME UNCHANGED <<now, heldSince, suspended, attesters, officers, guardians>>
  PROVE  \A s \in Switches : IsOn(s)' <=> IsOn(s)
  BY SwitchForms, SwitchOn

\* A step outside the timelock and the roles moves no switch.
LEMMA TimelockRests ==
  ASSUME UNCHANGED <<now, heldSince, suspended, attesters, officers, guardians, readyAt, epoch>>, Unwritten
  PROVE  Resting /\ Unwritten'
  <1>1. Stand(Switches)
    BY Elsewhere DEF Stand, Ready
  <1> QED
    BY <1>1 DEF Resting, Unwritten

\* A brake starts an epoch in which nothing is queued.
LEMMA BrakeBrakes ==
  ASSUME Typed, Unwritten, NEW s \in Switches, BrakeSwitch(s), ~IsOn(s)',
         \A t \in Switches \ {s} : IsOn(t)' <=> IsOn(t)
  PROVE  Braking(s) /\ Unwritten'
  <1>1. /\ readyAt \in [ComplianceOperations -> [Epochs -> Nat]]
        /\ epoch \in [EpochKeys -> Epochs] /\ s \in EpochKeys /\ epoch[s] \in Epochs
        /\ readyAt' = readyAt
        /\ epoch[s] < MaxEpoch /\ epoch' = [epoch EXCEPT ![s] = epoch[s] + 1]
    BY SwitchKey DEF Typed, Governed, GovernedTypeOK, BrakeSwitch, InvalidateQueued
  <1>2. epoch[s] + 1 \in Epochs /\ epoch[s] + 1 > epoch[s]
    BY <1>1, BoundAssumption DEF Epochs
  <1>3. Ready(s, s)' = 0
    <2>1. readyAt[s][epoch[s] + 1] = 0
      BY <1>2, SwitchKey DEF Unwritten
    <2> QED
      BY <1>1, <2>1 DEF Ready
  <1>4. \A t \in Switches \ {s} : Ready(t, t)' = Ready(t, t)
    BY <1>1, SwitchKey DEF Ready
  <1>5. Unwritten'
    <2> SUFFICES ASSUME NEW op \in ComplianceOperations, NEW e \in Epochs, e > epoch'[EpochKey(op)]
                 PROVE  readyAt[op][e] = 0
      BY <1>1 DEF Unwritten
    <2>1. EpochKey(op) \in EpochKeys /\ epoch[EpochKey(op)] \in Epochs
      BY <1>1 DEF EpochKeys
    <2>2. epoch'[EpochKey(op)] = IF EpochKey(op) = s THEN epoch[s] + 1 ELSE epoch[EpochKey(op)]
      BY <1>1, <2>1
    <2>3. e > epoch[EpochKey(op)]
      BY <1>1, <2>1, <2>2, BoundAssumption DEF Epochs
    <2> QED
      BY <2>3 DEF Unwritten
  <1> QED
    BY <1>3, <1>4, <1>5 DEF Braking, Stand, BrakeSwitch

\* Executing a switch's operation lifts it.
LEMMA ExecuteLifts ==
  ASSUME Typed, Unwritten, NEW caller, NEW s \in Switches, Execute(caller, s), IsOn(s)',
         \A t \in Switches \ {s} : IsOn(t)' <=> IsOn(t)
  PROVE  Lifting(s) /\ Unwritten'
  <1>1. s \in ComplianceOperations /\ EpochKey(s) = s /\ epoch[s] \in Epochs /\ 0 \in Nat
    BY SwitchKey, EpochType DEF Typed
  <1>2. readyAt' = [readyAt EXCEPT ![s] = [@ EXCEPT ![epoch[s]] = 0]] /\ epoch' = epoch
    BY <1>1 DEF Execute, Consume, SetReady
  <1>3. Unwritten' /\ Ready(s, s)' = 0 /\ \A t \in Switches \ {s} : Ready(t, t)' = Ready(t, t)
    BY <1>1, <1>2, WriteOne DEF Typed
  <1> QED
    BY <1>1, <1>3 DEF Lifting, Stand, Execute, Consume

\* Executing another operation leaves the switches alone.
LEMMA ExecuteRests ==
  ASSUME Typed, Unwritten, NEW caller, NEW op \in ComplianceOperations, op \notin Switches,
         Execute(caller, op), \A s \in Switches : IsOn(s)' <=> IsOn(s)
  PROVE  Resting /\ Unwritten'
  <1>1. epoch[EpochKey(op)] \in Epochs /\ 0 \in Nat
    BY EpochType DEF Typed
  <1>2. readyAt' = [readyAt EXCEPT ![op] = [@ EXCEPT ![epoch[EpochKey(op)]] = 0]] /\ epoch' = epoch
    BY <1>1 DEF Execute, Consume, SetReady
  <1>3. Unwritten' /\ \A s \in Switches : Ready(s, s)' = Ready(s, s)
    BY <1>1, <1>2, WriteOne DEF Typed
  <1> QED
    BY <1>3 DEF Resting, Stand, Execute

\* Queueing announces one lift, or nothing a switch knows of.
LEMMA QueueSwitches ==
  ASSUME Typed, Unwritten, NEW caller, NEW op \in ComplianceOperations, Queue(caller, op)
  PROVE  SwitchStep /\ Unwritten'
  <1>1. epoch[EpochKey(op)] \in Epochs /\ now + Delay \in Nat
    BY EpochType, ClockType DEF Typed
  <1>2. /\ readyAt' = [readyAt EXCEPT ![op] = [@ EXCEPT ![epoch[EpochKey(op)]] = now + Delay]]
        /\ epoch' = epoch
    BY DEF Queue, Announce, SetReady
  <1>3. \A s \in Switches : IsOn(s)' <=> IsOn(s)
    BY Elsewhere DEF Queue, complianceVars, roleVars, listVars
  <1>4. Unwritten' /\ \A s \in Switches \ {op} : Ready(s, s)' = Ready(s, s)
    BY <1>1, <1>2, WriteOne DEF Typed
  <1>5. UNCHANGED <<now, heldSince>>
    BY DEF Queue, complianceVars, roleVars
  <1>6. CASE op \in Switches
    <2>1. EpochKey(op) = op
      BY <1>6, SwitchKey
    <2>2. Ready(op, op)' = now + Delay
      BY <1>1, <1>2, <1>6, <2>1, WriteOne DEF Typed
    <2>3. Announcing(op)
      BY <1>3, <1>4, <1>5, <1>6, <2>1, <2>2 DEF Announcing, Stand, Queue, Announce
    <2> QED
      BY <1>4, <1>6, <2>3 DEF SwitchStep
  <1>7. CASE op \notin Switches
    BY <1>3, <1>4, <1>5, <1>7 DEF Resting, Stand, SwitchStep
  <1> QED
    BY <1>6, <1>7

\* Cancelling takes an announcement back, or touches none.
LEMMA CancelSwitches ==
  ASSUME Typed, Unwritten, NEW caller, NEW op \in ComplianceOperations, NEW e \in Epochs,
         Cancel(caller, op, e), UNCHANGED complianceVars
  PROVE  SwitchStep /\ Unwritten'
  <1>1. readyAt' = [readyAt EXCEPT ![op] = [@ EXCEPT ![e] = 0]] /\ epoch' = epoch /\ 0 \in Nat
    BY DEF Cancel
  <1>2. /\ Unwritten'
        /\ \A s \in Switches \ {op} : Ready(s, s)' = Ready(s, s)
        /\ \A s \in Switches : s = op /\ e = epoch[s] => Ready(s, s)' = 0
        /\ \A s \in Switches : e # epoch[s] => Ready(s, s)' = Ready(s, s)
    BY <1>1, WriteOne DEF Typed
  <1>3. UNCHANGED <<now, heldSince>> /\ \A s \in Switches : IsOn(s)' <=> IsOn(s)
    BY Elsewhere DEF Cancel, complianceVars, roleVars, listVars
  <1>4. CASE op \in Switches /\ e = epoch[op]
    <2>1. Withdrawing(op)
      BY <1>2, <1>3, <1>4 DEF Withdrawing, Stand
    <2> QED
      BY <1>2, <1>4, <2>1 DEF SwitchStep
  <1>5. CASE ~(op \in Switches /\ e = epoch[op])
    <2>1. \A s \in Switches : Ready(s, s)' = Ready(s, s)
      BY <1>2, <1>5
    <2> QED
      BY <1>2, <1>3, <2>1 DEF Resting, Stand, SwitchStep
  <1> QED
    BY <1>4, <1>5

\* A step outside the timelock that moves one switch off is a drop.
LEMMA DropDrops ==
  ASSUME Unwritten, NEW s \in Switches, ~IsOn(s)', UNCHANGED <<now, heldSince, readyAt, epoch>>,
         \A t \in Switches \ {s} : IsOn(t)' <=> IsOn(t)
  PROVE  SwitchStep /\ Unwritten'
  <1>1. Dropping(s)
    BY DEF Dropping, Stand, Ready
  <1> QED
    BY <1>1 DEF SwitchStep, Unwritten

\* What one account does outside the lists.
LEMMA AccountSwitches ==
  ASSUME Typed, Unwritten, NEW caller \in Accounts, By(caller)
  PROVE  SwitchStep /\ Unwritten'
  <1> USE DEF roleVars, listVars, governanceVars
  <1>1. ASSUME NEW op \in Agenda, Queue(caller, op)
        PROVE  SwitchStep /\ Unwritten'
    BY <1>1, QueueSwitches, AgendaAssumption
  <1>2. ASSUME NEW op \in ComplianceOperations, NEW e \in Epochs, Cancel(caller, op, e), UNCHANGED complianceVars
        PROVE  SwitchStep /\ Unwritten'
    BY <1>2, CancelSwitches
  <1>3. CASE Handover(caller) /\ UNCHANGED complianceVars
    <2>1. ASSUME NEW next \in Accounts, TransferOwnership(caller, next)
          PROVE  Resting /\ Unwritten'
      <3> DEFINE op == <<"TRANSFER_OWNER", next>>
      <3>1. op \in ComplianceOperations /\ op \notin Switches
        BY DEF ComplianceOperations, TransferOperations, Switches
      <3>2. EpochKey(op) = TransferKey /\ epoch[TransferKey] \in Epochs /\ 0 \in Nat
        BY <3>1, EpochType DEF EpochKey, TransferKey, Typed
      <3>3. readyAt' = [readyAt EXCEPT ![op] = [@ EXCEPT ![epoch[TransferKey]] = 0]] /\ epoch' = epoch
        BY <2>1 DEF TransferOwnership, Consume, SetReady
      <3>4. Unwritten' /\ \A s \in Switches : Ready(s, s)' = Ready(s, s)
        BY <3>1, <3>2, <3>3, WriteOne DEF Typed
      <3>5. UNCHANGED <<now, heldSince>> /\ \A s \in Switches : IsOn(s)' <=> IsOn(s)
        BY <1>3, <2>1, Elsewhere DEF TransferOwnership, complianceVars
      <3> QED
        BY <3>4, <3>5 DEF Resting, Stand
    <2>2. ASSUME CancelNomination(caller) \/ AcceptOwnership(caller)
          PROVE  Resting /\ Unwritten'
      BY <1>3, <2>2, TimelockRests DEF CancelNomination, AcceptOwnership, complianceVars
    <2> QED
      BY <1>3, <2>1, <2>2 DEF Handover, SwitchStep
  <1>4. ASSUME NEW ws \in SUBSET Wallets, NEW listed \in BOOLEAN, SetSanctioned(caller, ws, listed)
        PROVE  SwitchStep /\ Unwritten'
    BY <1>4, TimelockRests DEF SetSanctioned, SwitchStep
  <1>5. CASE RenounceOfficer(caller)
    <2> DEFINE s == <<"GRANT_OFFICER", caller>>
    <2>1. s \in Switches /\ ~IsOn(s)'
      BY <1>5, SwitchForms, SwitchOn DEF RenounceOfficer
    <2>2. \A t \in Switches \ {s} : IsOn(t)' <=> IsOn(t)
      BY <1>5, SwitchForms, SwitchOn DEF RenounceOfficer
    <2>3. UNCHANGED <<now, heldSince, readyAt, epoch>>
      BY <1>5 DEF RenounceOfficer
    <2> QED
      BY <2>1, <2>2, <2>3, DropDrops
  <1>6. ASSUME NEW a \in Accounts, RevokeOfficer(caller, a)
        PROVE  SwitchStep /\ Unwritten'
    <2> DEFINE s == <<"GRANT_OFFICER", a>>
    <2>1. s \in Switches /\ ~IsOn(s)' /\ BrakeSwitch(s)
      BY <1>6, SwitchForms, SwitchOn DEF RevokeOfficer
    <2>2. \A t \in Switches \ {s} : IsOn(t)' <=> IsOn(t)
      BY <1>6, SwitchForms, SwitchOn DEF RevokeOfficer
    <2> QED
      BY <2>1, <2>2, BrakeBrakes DEF SwitchStep
  <1>7. ASSUME NEW a \in Accounts, RevokeGuardian(caller, a)
        PROVE  SwitchStep /\ Unwritten'
    <2> DEFINE s == <<"GRANT_GUARDIAN", a>>
    <2>1. s \in Switches /\ ~IsOn(s)' /\ BrakeSwitch(s)
      BY <1>7, SwitchForms, SwitchOn DEF RevokeGuardian
    <2>2. \A t \in Switches \ {s} : IsOn(t)' <=> IsOn(t)
      BY <1>7, SwitchForms, SwitchOn DEF RevokeGuardian
    <2> QED
      BY <2>1, <2>2, BrakeBrakes DEF SwitchStep
  <1>8. ASSUME NEW a \in Accounts, GrantOfficer(caller, a)
        PROVE  SwitchStep /\ Unwritten'
    <2> DEFINE s == <<"GRANT_OFFICER", a>>
    <2>1. s \in Switches /\ IsOn(s)' /\ Execute(caller, s)
      BY <1>8, SwitchForms, SwitchOn DEF GrantOfficer
    <2>2. \A t \in Switches \ {s} : IsOn(t)' <=> IsOn(t)
      BY <1>8, SwitchForms, SwitchOn DEF GrantOfficer
    <2> QED
      BY <2>1, <2>2, ExecuteLifts DEF SwitchStep
  <1>9. ASSUME NEW a \in Accounts, GrantGuardian(caller, a)
        PROVE  SwitchStep /\ Unwritten'
    <2> DEFINE s == <<"GRANT_GUARDIAN", a>>
    <2>1. s \in Switches /\ IsOn(s)' /\ Execute(caller, s)
      BY <1>9, SwitchForms, SwitchOn DEF GrantGuardian
    <2>2. \A t \in Switches \ {s} : IsOn(t)' <=> IsOn(t)
      BY <1>9, SwitchForms, SwitchOn DEF GrantGuardian
    <2> QED
      BY <2>1, <2>2, ExecuteLifts DEF SwitchStep
  <1>10. CASE ClearSanctionsSource(caller)
    BY <1>10, TimelockRests DEF ClearSanctionsSource, SwitchStep
  <1>11. ASSUME NEW s \in Sources \cup {NoOne}, SetSanctionsSource(caller, s)
         PROVE  SwitchStep /\ Unwritten'
    <2> DEFINE op == <<"SET_SANCTIONS_SOURCE", s>>
    <2>1. op \in ComplianceOperations /\ op \notin Switches /\ Execute(caller, op)
      BY <1>11 DEF SetSanctionsSource, ComplianceOperations, Switches
    <2>2. \A t \in Switches : IsOn(t)' <=> IsOn(t)
      BY <1>11, Elsewhere DEF SetSanctionsSource, Execute
    <2> QED
      BY <2>1, <2>2, ExecuteRests DEF SwitchStep
  <1> QED
    BY <1>1, <1>2, <1>3, <1>4, <1>5, <1>6, <1>7, <1>8, <1>9, <1>10, <1>11 DEF By

\* What one account does to a list.
LEMMA ListSwitches ==
  ASSUME Typed, Unwritten, NEW caller \in Accounts, NEW l \in Lists, ByOnList(caller, l)
  PROVE  SwitchStep /\ Unwritten'
  <1> USE DEF roleVars, listVars, governanceVars
  <1>1. /\ attesters \in [Lists -> [Accounts -> [since : Nat, validFrom : Nat]]]
        /\ now \in Nat \ {0} /\ suspended \subseteq created
    BY ClockType DEF Typed, RolesTypeOK
  <1>2. ASSUME NEW tiersOf, NEW time, Attest(caller, l, tiersOf, time)
        PROVE  SwitchStep /\ Unwritten'
    BY <1>2, TimelockRests DEF Attest, SwitchStep
  <1>3. ASSUME NEW ws \in SUBSET Wallets, RevokeCredential(caller, l, ws)
        PROVE  SwitchStep /\ Unwritten'
    BY <1>3, TimelockRests DEF RevokeCredential, SwitchStep
  <1>4. ASSUME NEW a \in Accounts, attesters' = [attesters EXCEPT ![l][a].since = 0],
               suspended' = suspended, officers' = officers, guardians' = guardians
        PROVE  /\ ~IsOn(<<"GRANT_ATTESTER", l, a>>)'
               /\ \A t \in Switches \ {<<"GRANT_ATTESTER", l, a>>} : IsOn(t)' <=> IsOn(t)
    <2>1. \A m \in Lists, b \in Accounts :
            attesters'[m][b].since = IF m = l /\ b = a THEN 0 ELSE attesters[m][b].since
      BY <1>1, <1>4
    <2> QED
      BY <1>4, <2>1, SwitchForms, SwitchOn
  <1>5. CASE RenounceAttester(caller, l)
    <2>1. <<"GRANT_ATTESTER", l, caller>> \in Switches /\ UNCHANGED <<now, heldSince, readyAt, epoch>>
      BY <1>5, SwitchForms DEF RenounceAttester
    <2> QED
      BY <1>4, <1>5, <2>1, DropDrops DEF RenounceAttester
  <1>6. ASSUME NEW a \in Accounts, RevokeAttester(caller, l, a)
        PROVE  SwitchStep /\ Unwritten'
    <2>1. <<"GRANT_ATTESTER", l, a>> \in Switches /\ BrakeSwitch(<<"GRANT_ATTESTER", l, a>>)
      BY <1>6, SwitchForms DEF RevokeAttester
    <2> QED
      BY <1>4, <1>6, <2>1, BrakeBrakes DEF RevokeAttester, SwitchStep
  <1>7. ASSUME NEW a \in Accounts, GrantAttester(caller, l, a)
        PROVE  SwitchStep /\ Unwritten'
    <2> DEFINE s == <<"GRANT_ATTESTER", l, a>>
    <2>1. s \in Switches /\ Execute(caller, s)
      BY <1>7, SwitchForms DEF GrantAttester
    <2>2. \A m \in Lists, b \in Accounts :
            attesters'[m][b].since = IF m = l /\ b = a THEN now ELSE attesters[m][b].since
      BY <1>1, <1>7 DEF GrantAttester
    <2>3. IsOn(s)' /\ \A t \in Switches \ {s} : IsOn(t)' <=> IsOn(t)
      BY <1>1, <1>7, <2>2, SwitchForms, SwitchOn DEF GrantAttester
    <2> QED
      BY <2>1, <2>3, ExecuteLifts DEF SwitchStep
  <1>8. ASSUME NEW a \in Accounts, VoidCredentials(caller, l, a)
        PROVE  SwitchStep /\ Unwritten'
    <2> DEFINE op == <<"VOID_CREDENTIALS", l, a>>
    <2>1. op \in ComplianceOperations /\ op \notin Switches /\ Execute(caller, op)
      BY <1>8 DEF VoidCredentials, ComplianceOperations, Switches
    <2>2. \A m \in Lists, b \in Accounts : attesters'[m][b].since = attesters[m][b].since
      BY <1>1, <1>8 DEF VoidCredentials
    <2>3. \A t \in Switches : IsOn(t)' <=> IsOn(t)
      BY <1>8, <2>2, SwitchForms, SwitchOn DEF VoidCredentials
    <2> QED
      BY <2>1, <2>3, ExecuteRests DEF SwitchStep
  <1>9. CASE SuspendList(caller, l)
    <2> DEFINE s == <<"RESUME_LIST", l>>
    <2>1. s \in Switches /\ ~IsOn(s)' /\ BrakeSwitch(s)
      BY <1>9, SwitchForms, SwitchOn DEF SuspendList
    <2>2. \A t \in Switches \ {s} : IsOn(t)' <=> IsOn(t)
      BY <1>9, SwitchForms, SwitchOn DEF SuspendList
    <2> QED
      BY <2>1, <2>2, BrakeBrakes DEF SwitchStep
  <1>10. CASE CreateList(caller, l)
    <2> DEFINE op == <<"CREATE_LIST", l>>
    <2>1. op \in ComplianceOperations /\ op \notin Switches /\ Execute(caller, op)
      BY <1>10 DEF CreateList, ComplianceOperations, Switches
    <2>2. \A t \in Switches : IsOn(t)' <=> IsOn(t)
      BY <1>10, Elsewhere DEF CreateList, Execute
    <2> QED
      BY <2>1, <2>2, ExecuteRests DEF SwitchStep
  <1>11. CASE ResumeList(caller, l)
    <2> DEFINE s == <<"RESUME_LIST", l>>
    <2>1. s \in Switches /\ IsOn(s)' /\ Execute(caller, s)
      BY <1>11, SwitchForms, SwitchOn DEF ResumeList
    <2>2. \A t \in Switches \ {s} : IsOn(t)' <=> IsOn(t)
      BY <1>11, SwitchForms, SwitchOn DEF ResumeList
    <2> QED
      BY <2>1, <2>2, ExecuteLifts DEF SwitchStep
  <1> QED
    BY <1>2, <1>3, <1>5, <1>6, <1>7, <1>8, <1>9, <1>10, <1>11 DEF ByOnList

\* Every step of the registry is one step of its switches.
LEMMA StepSwitches ==
  ASSUME Typed, Unwritten, [ComplianceNext]_vars
  PROVE  SwitchStep /\ Unwritten'
  <1>1. ASSUME NEW caller \in Accounts, By(caller) \/ \E l \in Lists : ByOnList(caller, l)
        PROVE  SwitchStep /\ Unwritten'
    BY <1>1, AccountSwitches, ListSwitches
  <1>2. ASSUME NEW l \in Lists, NEW w \in Wallets, NEW c \in Attestations, AttestBySig(l, w, c)
        PROVE  SwitchStep /\ Unwritten'
    BY <1>2, TimelockRests DEF AttestBySig, governanceVars, roleVars, listVars, SwitchStep
  <1>3. CASE Tick /\ UNCHANGED complianceVars
    <2>1. now' > now
      BY <1>3, ClockType DEF Tick, Typed
    <2>2. UNCHANGED <<heldSince, suspended, attesters, officers, guardians, readyAt, epoch>>
      BY <1>3 DEF Tick, complianceVars, roleVars, listVars
    <2>3. Stand(Switches)
      BY <2>2, SwitchForms, SwitchOn DEF Stand, Ready
    <2> QED
      BY <2>1, <2>2, <2>3 DEF Passing, SwitchStep, Unwritten
  <1>4. ASSUME NEW s \in Sources, SourceTurns(s)
        PROVE  SwitchStep /\ Unwritten'
    BY <1>4, TimelockRests DEF SourceTurns, governanceVars, roleVars, listVars, SwitchStep
  <1>5. CASE UNCHANGED vars
    BY <1>5, TimelockRests DEF vars, governanceVars, complianceVars, roleVars, listVars, SwitchStep
  <1> QED
    BY <1>1, <1>2, <1>3, <1>4, <1>5 DEF ComplianceNext

-----------------------------------------------------------------------------
(* The promise.                                                              *)

\* What waits was queued after the last brake: it matures a full delay later.
Aged ==
  \A s \in Switches :
    /\ heldSince[s] <= now
    /\ Ready(s, s) # 0 => Ready(s, s) > Delay /\ Ready(s, s) >= heldSince[s] + Delay

RoleInvariant == Typed /\ Unwritten /\ Aged /\ RoleBrakesHold

\* The ready time of a switch is a number.
LEMMA ReadyType ==
  ASSUME Typed
  PROVE  \A s \in Switches : Ready(s, s) \in Nat /\ heldSince[s] \in Nat
  BY SwitchKey DEF Typed, Governed, GovernedTypeOK, RolesTypeOK, Ready

\* Each kind of switch step keeps the promise.
LEMMA StepKeepsBrakes ==
  ASSUME RoleInvariant, Typed', SwitchStep
  PROVE  Aged' /\ RoleBrakesHold'
  <1>1. /\ now \in Nat \ {0} /\ now' \in Nat /\ Delay \in Nat \ {0}
        /\ \A s \in Switches : Ready(s, s) \in Nat /\ heldSince[s] \in Nat
        /\ heldSince \in [Switches -> Nat]
    BY ClockType, ReadyType DEF RoleInvariant, Typed, RolesTypeOK, Governed, GovernedTypeOK
  <1> DEFINE Kept(s) == /\ heldSince'[s] <= now'
                        /\ Ready(s, s)' # 0 =>
                             Ready(s, s)' > Delay /\ Ready(s, s)' >= heldSince'[s] + Delay
                        /\ heldSince'[s] # 0 /\ now' < heldSince'[s] + Delay => ~IsOn(s)'
  <1>2. SUFFICES \A s \in Switches : Kept(s)
    BY DEF Aged, RoleBrakesHold
  <1>3. ASSUME NEW s \in Switches, (IsOn(s)' <=> IsOn(s)), Ready(s, s)' = Ready(s, s),
               now' >= now, heldSince'[s] = heldSince[s]
        PROVE  Kept(s)
    BY <1>1, <1>3 DEF RoleInvariant, Aged, RoleBrakesHold
  <1>4. CASE Resting \/ Passing
    <2>1. now' >= now /\ heldSince' = heldSince /\ Stand(Switches)
      BY <1>1, <1>4 DEF Resting, Passing
    <2> QED
      BY <1>3, <2>1 DEF Stand
  <1>5. ASSUME NEW s \in Switches,
               Announcing(s) \/ Withdrawing(s) \/ Lifting(s) \/ Dropping(s) \/ Braking(s)
        PROVE  \A t \in Switches : Kept(t)
    <2>1. /\ now' = now /\ Stand(Switches \ {s})
          /\ \A t \in Switches \ {s} : heldSince'[t] = heldSince[t]
      BY <1>1, <1>5 DEF Announcing, Withdrawing, Lifting, Dropping, Braking
    <2>2. \A t \in Switches \ {s} : Kept(t)
      BY <1>1, <1>3, <2>1 DEF Stand
    <2> SUFFICES Kept(s)
      BY <2>2
    <2> SUFFICES Kept(s)
      BY <2>2
    <2>3. /\ heldSince[s] \in Nat /\ Ready(s, s) \in Nat /\ heldSince[s] <= now
          /\ Ready(s, s) # 0 => Ready(s, s) > Delay /\ Ready(s, s) >= heldSince[s] + Delay
          /\ heldSince[s] # 0 /\ now < heldSince[s] + Delay => ~IsOn(s)
      BY <1>1 DEF RoleInvariant, Aged, RoleBrakesHold
    <2>4. CASE Announcing(s)
      <3>1. heldSince'[s] = heldSince[s] /\ Ready(s, s)' = now + Delay /\ (IsOn(s)' <=> IsOn(s))
        BY <2>4 DEF Announcing
      <3>2. now + Delay > Delay /\ now + Delay >= heldSince[s] + Delay
        BY <1>1, <2>3
      <3> QED
        BY <2>1, <2>3, <3>1, <3>2
    <2>5. CASE Withdrawing(s)
      <3>1. heldSince'[s] = heldSince[s] /\ Ready(s, s)' = 0 /\ (IsOn(s)' <=> IsOn(s))
        BY <2>5 DEF Withdrawing
      <3> QED
        BY <2>1, <2>3, <3>1
    <2>6. CASE Lifting(s)
      <3>1. heldSince'[s] = heldSince[s] /\ Ready(s, s)' = 0
        BY <2>6 DEF Lifting
      <3>2. ~(now < heldSince[s] + Delay)
        BY <1>1, <2>3, <2>6 DEF Lifting
      <3> QED
        BY <2>1, <2>3, <3>1, <3>2
    <2>7. CASE Dropping(s)
      <3>1. heldSince'[s] = heldSince[s] /\ Ready(s, s)' = Ready(s, s) /\ ~IsOn(s)'
        BY <2>7 DEF Dropping
      <3> QED
        BY <2>1, <2>3, <3>1
    <2>8. CASE Braking(s)
      <3>1. heldSince'[s] = now /\ Ready(s, s)' = 0 /\ ~IsOn(s)'
        BY <1>1, <2>8 DEF Braking
      <3> QED
        BY <1>1, <2>1, <3>1
    <2> QED
      BY <1>5, <2>4, <2>5, <2>6, <2>7, <2>8
  <1> QED
    BY <1>4, <1>5 DEF SwitchStep

\* At the start nothing waits and no role is granted.
LEMMA InitRoles ==
  ASSUME ComplianceInit
  PROVE  RoleInvariant
  <1>1. Typed
    BY InitTyped
  <1>2. \A op \in ComplianceOperations, e \in Epochs : readyAt[op][e] = 0
    BY DEF ComplianceInit, GovernedInit
  <1>3. \A s \in Switches : heldSince[s] = 0
    BY DEF ComplianceInit
  <1>4. \A s \in Switches : Ready(s, s) = 0
    BY <1>1, <1>2, SwitchKey DEF Ready, Typed, Governed, GovernedTypeOK
  <1>5. now \in Nat
    BY <1>1, ClockType DEF Typed
  <1> QED
    BY <1>1, <1>2, <1>3, <1>4, <1>5 DEF RoleInvariant, Unwritten, Aged, RoleBrakesHold

\* The roles' invariant holds in every reachable state.
LEMMA RoleInvariantHolds == ComplianceSpec => []RoleInvariant
  <1>1. ComplianceInit => RoleInvariant
    BY InitRoles
  <1>2. RoleInvariant /\ [ComplianceNext]_vars => RoleInvariant'
    <2> SUFFICES ASSUME RoleInvariant, [ComplianceNext]_vars
                 PROVE  RoleInvariant'
      OBVIOUS
    <2>1. Typed' /\ SwitchStep /\ Unwritten'
      BY StepTyped, StepSwitches DEF RoleInvariant
    <2>2. Aged' /\ RoleBrakesHold'
      BY <2>1, StepKeepsBrakes
    <2> QED
      BY <2>1, <2>2 DEF RoleInvariant
  <1> QED
    BY <1>1, <1>2, PTL DEF ComplianceSpec

\* A suspended list, a revoked attester, officer or guardian stays withdrawn for
\* a full delay, whatever the owner had queued and in whatever epoch.
THEOREM RoleBrakesHoldFullDelay == ComplianceSpec => []RoleBrakesHold
  <1>1. RoleInvariant => RoleBrakesHold
    BY DEF RoleInvariant
  <1> QED
    BY <1>1, RoleInvariantHolds, PTL

-----------------------------------------------------------------------------
(* Refinement.                                                               *)

\* What the mapping makes of the epochs: a position and an announcement time
\* for each switch.
On == [s \in Switches |-> IsOn(s)]

AnnouncedAt == [s \in Switches |-> IF Ready(s, s) = 0 THEN 0 ELSE Ready(s, s) - Delay]

\* Each switch of a role has one lift, itself.
LEMMA LiftsAreSwitches ==
  /\ RoleSwitch!AllLifts = Switches
  /\ \A s \in Switches : [t \in Switches |-> {t}][s] = {s}
  BY DEF RoleSwitch!AllLifts

\* Positions are Booleans.
LEMMA OnType ==
  ASSUME NEW s \in Switches
  PROVE  IsOn(s) \in BOOLEAN /\ IsOn(s)' \in BOOLEAN
  <1>1. s[1] \in {"RESUME_LIST", "GRANT_ATTESTER", "GRANT_OFFICER", "GRANT_GUARDIAN"}
    BY SwitchForms
  <1>2. CASE s[1] = "RESUME_LIST"
    <2>1. IsOn(s) = (s[2] \notin suspended) /\ IsOn(s)' = (s[2] \notin suspended')
      BY <1>2 DEF IsOn
    <2> QED
      BY <2>1
  <1>3. CASE s[1] = "GRANT_ATTESTER"
    <2>1. /\ IsOn(s) = (attesters[s[2]][s[3]].since # 0)
          /\ IsOn(s)' = (attesters'[s[2]][s[3]].since # 0)
      BY <1>3 DEF IsOn
    <2> QED
      BY <2>1
  <1>4. CASE s[1] = "GRANT_OFFICER"
    <2>1. IsOn(s) = (s[2] \in officers) /\ IsOn(s)' = (s[2] \in officers')
      BY <1>4 DEF IsOn
    <2> QED
      BY <2>1
  <1>5. CASE s[1] = "GRANT_GUARDIAN"
    <2>1. IsOn(s) = (s[2] \in guardians) /\ IsOn(s)' = (s[2] \in guardians')
      BY <1>5 DEF IsOn
    <2> QED
      BY <2>1
  <1> QED
    BY <1>1, <1>2, <1>3, <1>4, <1>5

\* The start is a start of the abstract switches.
LEMMA InitRefines ==
  ASSUME ComplianceInit
  PROVE  RoleSwitch!SwitchInit
  <1>1. now \in Nat \ {0}
    BY InitTyped, ClockType DEF Typed
  <1>2. heldSince = [s \in Switches |-> 0]
    BY DEF ComplianceInit
  <1>3. \A s \in Switches : Ready(s, s) = 0
    BY InitTyped, SwitchKey DEF ComplianceInit, GovernedInit, Ready, Typed, Governed, GovernedTypeOK
  <1>4. AnnouncedAt = [s \in Switches |-> 0]
    BY <1>3 DEF AnnouncedAt
  <1>5. On \in [Switches -> BOOLEAN]
    BY OnType DEF On
  <1> QED
    BY <1>1, <1>2, <1>4, <1>5, LiftsAreSwitches DEF RoleSwitch!SwitchInit, AnnouncedAt, On

\* A switch that stands shows nothing.
LEMMA StandShows ==
  ASSUME NEW some \in SUBSET Switches, Stand(some)
  PROVE  \A t \in some : On'[t] = On[t] /\ AnnouncedAt'[t] = AnnouncedAt[t]
  BY OnType DEF Stand, On, AnnouncedAt

\* A step of the role switches is a step of the abstract ones or a stutter.
LEMMA StepRefines ==
  ASSUME RoleInvariant, Typed', SwitchStep
  PROVE  [RoleSwitch!SwitchNext]_(RoleSwitch!switchVars)
  <1>1. /\ now \in Nat \ {0} /\ Delay \in Nat \ {0} /\ Grace \in Nat
        /\ \A s \in Switches : Ready(s, s) \in Nat /\ heldSince[s] \in Nat
    BY ClockType, ReadyType DEF RoleInvariant, Typed
  <1>2. /\ \A s \in Switches : AnnouncedAt[s] = IF Ready(s, s) = 0 THEN 0 ELSE Ready(s, s) - Delay
        /\ \A s \in Switches : AnnouncedAt'[s] = IF Ready(s, s)' = 0 THEN 0 ELSE Ready(s, s)' - Delay
        /\ \A s \in Switches : On[s] = IsOn(s) /\ On'[s] = IsOn(s)'
    BY DEF AnnouncedAt, On
  <1>3. ASSUME NEW s \in Switches, NEW time, \A t \in Switches \ {s} : AnnouncedAt'[t] = AnnouncedAt[t],
               AnnouncedAt'[s] = time
        PROVE  AnnouncedAt' = [AnnouncedAt EXCEPT ![s] = time]
    BY <1>3 DEF AnnouncedAt
  <1>4. ASSUME NEW s \in Switches, NEW position, \A t \in Switches \ {s} : On'[t] = On[t],
               On'[s] = position
        PROVE  On' = [On EXCEPT ![s] = position]
    BY <1>4 DEF On
  <1>5. ASSUME Stand(Switches)
        PROVE  On' = On /\ AnnouncedAt' = AnnouncedAt
    <2>1. \A t \in Switches : On'[t] = On[t] /\ AnnouncedAt'[t] = AnnouncedAt[t]
      BY <1>5, StandShows
    <2> QED
      BY <2>1 DEF On, AnnouncedAt
  <1>6. ASSUME NEW s \in Switches, Stand(Switches \ {s})
        PROVE  \A t \in Switches \ {s} : On'[t] = On[t] /\ AnnouncedAt'[t] = AnnouncedAt[t]
    BY <1>6, StandShows
  <1>7. CASE Resting
    BY <1>5, <1>7 DEF Resting, RoleSwitch!switchVars, On, AnnouncedAt
  <1>8. CASE Passing
    <2>1. RoleSwitch!TimePasses
      BY <1>5, <1>8 DEF Passing, RoleSwitch!TimePasses, On, AnnouncedAt, Typed, Governed, GovernedTypeOK
    <2> QED
      BY <2>1 DEF RoleSwitch!SwitchNext
  <1>9. ASSUME NEW s \in Switches, Announcing(s)
        PROVE  RoleSwitch!AnnounceLift(s)
    <2>1. AnnouncedAt[s] = 0 \/ now > AnnouncedAt[s] + Delay + Grace
      BY <1>1, <1>2, <1>9 DEF Announcing
    <2>2. On'[s] = On[s] /\ AnnouncedAt'[s] = now
      BY <1>1, <1>2, <1>9, OnType DEF Announcing
    <2>3. On' = On /\ AnnouncedAt' = [AnnouncedAt EXCEPT ![s] = now] /\ UNCHANGED <<now, heldSince>>
      BY <1>3, <1>6, <1>9, <2>2 DEF Announcing, On
    <2> QED
      BY <2>1, <2>3 DEF RoleSwitch!AnnounceLift, On, AnnouncedAt
  <1>10. ASSUME NEW s \in Switches, Withdrawing(s)
         PROVE  RoleSwitch!Withdraw(s)
    <2>1. On'[s] = On[s] /\ AnnouncedAt'[s] = 0
      BY <1>2, <1>10, OnType DEF Withdrawing
    <2>2. On' = On /\ AnnouncedAt' = [AnnouncedAt EXCEPT ![s] = 0] /\ UNCHANGED <<now, heldSince>>
      BY <1>3, <1>6, <1>10, <2>1 DEF Withdrawing, On
    <2> QED
      BY <2>2 DEF RoleSwitch!Withdraw, On, AnnouncedAt
  <1>11. ASSUME NEW s \in Switches, Lifting(s)
         PROVE  RoleSwitch!Lift(s, s)
    <2>1. Ready(s, s) # 0 /\ Ready(s, s) > Delay /\ Ready(s, s) >= heldSince[s] + Delay
      BY <1>11 DEF RoleInvariant, Aged, Lifting
    <2>2. AnnouncedAt[s] # 0 /\ AnnouncedAt[s] >= heldSince[s] /\ now >= AnnouncedAt[s] + Delay
             /\ now <= AnnouncedAt[s] + Delay + Grace
      BY <1>1, <1>2, <1>11, <2>1 DEF Lifting
    <2>3. On'[s] = TRUE /\ AnnouncedAt'[s] = 0
      BY <1>2, <1>11, OnType DEF Lifting
    <2>4. On' = [On EXCEPT ![s] = TRUE] /\ AnnouncedAt' = [AnnouncedAt EXCEPT ![s] = 0]
             /\ UNCHANGED <<now, heldSince>>
      BY <1>3, <1>4, <1>6, <1>11, <2>3 DEF Lifting
    <2> QED
      BY <2>2, <2>4 DEF RoleSwitch!Lift, On, AnnouncedAt
  <1>12. ASSUME NEW s \in Switches, Dropping(s)
         PROVE  RoleSwitch!SwitchOff(s)
    <2>1. On'[s] = FALSE /\ AnnouncedAt'[s] = AnnouncedAt[s]
      BY <1>2, <1>12, OnType DEF Dropping
    <2>2. On' = [On EXCEPT ![s] = FALSE] /\ AnnouncedAt' = AnnouncedAt /\ UNCHANGED <<now, heldSince>>
      BY <1>4, <1>6, <1>12, <2>1 DEF Dropping, AnnouncedAt
    <2> QED
      BY <2>2 DEF RoleSwitch!SwitchOff, On, AnnouncedAt
  <1>13. ASSUME NEW s \in Switches, Braking(s)
         PROVE  RoleSwitch!Brake(s)
    <2>1. On'[s] = FALSE /\ AnnouncedAt'[s] = 0
      BY <1>2, <1>13, OnType DEF Braking
    <2>2. On' = [On EXCEPT ![s] = FALSE] /\ heldSince' = [heldSince EXCEPT ![s] = now] /\ now' = now
      BY <1>4, <1>6, <1>13, <2>1 DEF Braking
    <2>3. AnnouncedAt' = [l \in Switches |-> IF l \in {s} THEN 0 ELSE AnnouncedAt[l]]
      BY <1>6, <1>13, <2>1 DEF Braking, AnnouncedAt
    <2>4. {s} \in SUBSET ([t \in Switches |-> {t}][s])
      BY LiftsAreSwitches
    <2> QED
      BY <2>2, <2>3, <2>4, LiftsAreSwitches DEF RoleSwitch!Brake, On, AnnouncedAt
  <1> QED
    BY <1>7, <1>8, <1>9, <1>10, <1>11, <1>12, <1>13, LiftsAreSwitches
    DEF SwitchStep, RoleSwitch!SwitchNext

\* HookrGoverned's epochs keep the promise the registry keeps by timestamps.
THEOREM RolesRefineSwitches == ComplianceSpec => RolesImplementSwitches
  <1>1. ComplianceInit => RoleSwitch!SwitchInit
    BY InitRefines
  <1>2. RoleInvariant /\ [ComplianceNext]_vars => [RoleSwitch!SwitchNext]_(RoleSwitch!switchVars)
    BY StepTyped, StepSwitches, StepRefines DEF RoleInvariant
  <1> QED
    BY <1>1, <1>2, RoleInvariantHolds, PTL DEF ComplianceSpec, RolesImplementSwitches, RoleSwitch!SwitchSpec

-----------------------------------------------------------------------------
(* Credentials.                                                              *)

\* No credential claims to have been issued in the future.
IssuedOK == \A l \in Lists, w \in Wallets : credentials[l][w].issuedAt <= now

\* A list once created exists for good, and time does not run back.
Onward == created \subseteq created' /\ now <= now'

\* What a write to one list has to be for the credentials to advance.
WriteAdvances(l) ==
  \A w \in Wallets :
    LET c == credentials[l][w]
        d == credentials'[l][w]
    IN  d # c =>
          /\ Counts(l, w) => d.issuer = c.issuer
          /\ d.issuedAt >= c.issuedAt /\ d.issuedAt <= now
          /\ d.issuedAt = c.issuedAt /\ d.expiresAt # 0 => d.issuedAt = now
          /\ d.expiresAt <= now + MaxTtl

\* The fields of a credential are typed.
LEMMA CredentialFields ==
  ASSUME Typed, NEW l \in Lists, NEW w \in Wallets
  PROVE  /\ credentials[l][w].issuedAt \in Nat /\ credentials[l][w].expiresAt \in Nat
         /\ credentials[l][w].issuer \in Accounts \cup {NoOne}
         /\ now \in Nat /\ MaxTtl \in Nat
  <1>1. credentials[l][w] \in CredentialState
    BY DEF Typed, RolesTypeOK
  <1> QED
    BY <1>1, ClockType DEF Typed, CredentialState

\* A write to one list is a step that keeps newer credentials, and no credential of
\* the future comes of it.
LEMMA WriteStep ==
  ASSUME IssuedOK, NEW l \in Lists, WriteAdvances(l), now' = now,
         \A k \in Lists : k # l => credentials'[k] = credentials[k]
  PROVE  CredentialStep /\ IssuedOK'
  <1>1. CredentialStep
    BY DEF CredentialStep, WriteAdvances
  <1>2. IssuedOK'
    BY DEF IssuedOK, WriteAdvances
  <1> QED
    BY <1>1, <1>2

\* Writing one list's table leaves the others alone.
LEMMA OneTable ==
  ASSUME Typed, NEW l \in Lists, NEW table, credentials' = [credentials EXCEPT ![l] = table]
  PROVE  credentials'[l] = table /\ \A k \in Lists : k # l => credentials'[k] = credentials[k]
  BY DEF Typed, RolesTypeOK

\* A step that leaves the credentials alone keeps them.
LEMMA CredentialsRest ==
  ASSUME Typed, Typed', IssuedOK, credentials' = credentials, now <= now'
  PROVE  CredentialStep /\ IssuedOK'
  <1>1. now \in Nat /\ now' \in Nat
    BY ClockType DEF Typed, Governed, GovernedTypeOK
  <1>2. IssuedOK'
    BY <1>1, CredentialFields DEF IssuedOK
  <1> QED
    BY <1>2 DEF CredentialStep

\* What one account does outside the lists writes no credential.
LEMMA AccountOnward ==
  ASSUME NEW caller \in Accounts, By(caller), now \in Nat
  PROVE  credentials' = credentials /\ Onward
  <1> USE DEF listVars, roleVars, sanctionVars, sourceVars, complianceVars, governanceVars, Onward
  <1>1. ASSUME NEW op \in Agenda, Queue(caller, op)
        PROVE  credentials' = credentials /\ Onward
    BY <1>1 DEF Queue
  <1>2. ASSUME NEW op \in ComplianceOperations, NEW e \in Epochs, Cancel(caller, op, e), UNCHANGED complianceVars
        PROVE  credentials' = credentials /\ Onward
    BY <1>2 DEF Cancel
  <1>3. CASE Handover(caller) /\ UNCHANGED complianceVars
    <2>1. credentials' = credentials /\ created' = created
      BY <1>3
    <2>2. now' = now
      BY <1>3 DEF Handover, TransferOwnership, CancelNomination, AcceptOwnership
    <2> QED
      BY <2>1, <2>2
  <1>4. ASSUME NEW ws \in SUBSET Wallets, NEW listed \in BOOLEAN, SetSanctioned(caller, ws, listed)
        PROVE  credentials' = credentials /\ Onward
    BY <1>4 DEF SetSanctioned
  <1>5. CASE RenounceOfficer(caller) \/ ClearSanctionsSource(caller)
    BY <1>5 DEF RenounceOfficer, ClearSanctionsSource
  <1>6. ASSUME NEW a \in Accounts,
               RevokeOfficer(caller, a) \/ RevokeGuardian(caller, a) \/ GrantOfficer(caller, a) \/ GrantGuardian(caller, a)
        PROVE  credentials' = credentials /\ Onward
    BY <1>6 DEF RevokeOfficer, RevokeGuardian, GrantOfficer, GrantGuardian, BrakeSwitch, Execute
  <1>7. ASSUME NEW s \in Sources \cup {NoOne}, SetSanctionsSource(caller, s)
        PROVE  credentials' = credentials /\ Onward
    BY <1>7 DEF SetSanctionsSource, Execute
  <1> QED
    BY <1>1, <1>2, <1>3, <1>4, <1>5, <1>6, <1>7 DEF By

\* An attester writes over what it may replace, and nothing of the future.
LEMMA AttestStep ==
  ASSUME Typed, IssuedOK, NEW caller \in Accounts, NEW l \in Lists, NEW ws \in SUBSET Wallets,
         NEW tiersOf \in [ws -> SUBSET Tiers], NEW time \in ExpiryTimes, Attest(caller, l, tiersOf, time)
  PROVE  CredentialStep /\ IssuedOK' /\ Onward
  <1> DEFINE new(w) == [issuer |-> caller, expiresAt |-> time, issuedAt |-> now, tiers |-> tiersOf[w]]
             table == [w \in Wallets |-> IF w \in ws THEN new(w) ELSE credentials[l][w]]
  <1>1. now \in Nat /\ MaxTtl \in Nat /\ time \in Nat
    BY ClockType, BoundAssumption, ComplianceAssumption DEF Typed, ExpiryTimes
  <1>2. \A w \in ws : new(w) \in CredentialState
    BY <1>1 DEF CredentialState
  <1>3. \A w \in Wallets : credentials[l][w] \in CredentialState
    BY DEF Typed, RolesTypeOK
  <1>4. table \in [Wallets -> CredentialState]
    BY <1>2, <1>3
  <1>5. credentials' = [credentials EXCEPT ![l] = table] /\ now' = now /\ created' = created
    BY DEF Attest, governanceVars, listVars
  <1>6. /\ time <= now + MaxTtl
        /\ \A w \in ws : now >= credentials[l][w].issuedAt /\ MayReplace(l, w, caller)
    BY DEF Attest, ValidExpiry
  <1>7. ASSUME NEW w \in ws, Counts(l, w)
        PROVE  credentials[l][w].issuer = caller
    BY <1>6, <1>7 DEF MayReplace, Counts, HasCredential
  <1>8. \A w \in ws : new(w).issuer = caller /\ new(w).issuedAt = now /\ new(w).expiresAt = time
    OBVIOUS
  <1>9. \A w \in Wallets : table[w] = IF w \in ws THEN new(w) ELSE credentials[l][w]
    OBVIOUS
  <1> HIDE DEF table, new
  <1>20. credentials'[l] = table /\ \A k \in Lists : k # l => credentials'[k] = credentials[k]
    BY <1>5, OneTable
  <1>10. WriteAdvances(l)
    BY <1>1, <1>6, <1>7, <1>8, <1>9, <1>20 DEF WriteAdvances
  <1> QED
    BY <1>1, <1>5, <1>10, <1>20, WriteStep DEF Onward

\* A revocation is of the caller's own, and dated now.
LEMMA RevokeStep ==
  ASSUME Typed, IssuedOK, NEW caller \in Accounts, NEW l \in Lists, NEW ws \in SUBSET Wallets,
         RevokeCredential(caller, l, ws)
  PROVE  CredentialStep /\ IssuedOK' /\ Onward
  <1> DEFINE new == [NoCredential EXCEPT !.issuer = caller, !.issuedAt = now]
             table == [w \in Wallets |-> IF w \in ws THEN new ELSE credentials[l][w]]
  <1>1. now \in Nat /\ MaxTtl \in Nat
    BY ClockType DEF Typed
  <1>2. new \in CredentialState /\ new.issuer = caller /\ new.issuedAt = now /\ new.expiresAt = 0
    BY <1>1 DEF NoCredential, CredentialState
  <1>3. \A w \in Wallets : credentials[l][w] \in CredentialState
    BY DEF Typed, RolesTypeOK
  <1>4. table \in [Wallets -> CredentialState]
    BY <1>2, <1>3
  <1>5. credentials' = [credentials EXCEPT ![l] = table] /\ now' = now /\ created' = created
    BY DEF RevokeCredential, governanceVars, listVars
  <1>6. \A w \in ws : credentials[l][w].issuer \in {NoOne, caller}
    BY DEF RevokeCredential
  <1>7. ASSUME NEW w \in ws, Counts(l, w)
        PROVE  credentials[l][w].issuer = caller
    BY <1>6, <1>7 DEF Counts, HasCredential
  <1>8. \A w \in Wallets : credentials[l][w].issuedAt <= now /\ credentials[l][w].issuedAt \in Nat
    BY CredentialFields DEF IssuedOK
  <1>9. \A w \in Wallets : table[w] = IF w \in ws THEN new ELSE credentials[l][w]
    OBVIOUS
  <1> HIDE DEF table, new
  <1>20. credentials'[l] = table /\ \A k \in Lists : k # l => credentials'[k] = credentials[k]
    BY <1>5, OneTable
  <1>10. WriteAdvances(l)
    BY <1>1, <1>2, <1>7, <1>8, <1>9, <1>20 DEF WriteAdvances
  <1> QED
    BY <1>1, <1>5, <1>10, <1>20, WriteStep DEF Onward

\* A signed credential is newer than the one it replaces.
LEMMA AttestBySigStep ==
  ASSUME Typed, IssuedOK, NEW l \in Lists, NEW w \in Wallets, NEW c \in Attestations, AttestBySig(l, w, c)
  PROVE  CredentialStep /\ IssuedOK' /\ Onward
  <1> DEFINE table == [credentials[l] EXCEPT ![w] = c]
  <1>1. now \in Nat /\ MaxTtl \in Nat
    BY ClockType DEF Typed
  <1>2. c \in CredentialState
    BY BoundAssumption, ComplianceAssumption DEF Attestations, ExpiryTimes, CredentialState
  <1>3. c.issuedAt \in Nat /\ c.expiresAt \in Nat
    BY <1>2 DEF CredentialState
  <1>4. credentials[l] \in [Wallets -> CredentialState]
    BY DEF Typed, RolesTypeOK
  <1>5. table \in [Wallets -> CredentialState]
    BY <1>2, <1>4
  <1>6. credentials' = [credentials EXCEPT ![l] = table] /\ now' = now /\ created' = created
    BY DEF AttestBySig, governanceVars, listVars
  <1>7. /\ c.issuedAt <= now /\ c.issuedAt > credentials[l][w].issuedAt
        /\ c.expiresAt <= now + MaxTtl
        /\ MayReplace(l, w, c.issuer)
    BY DEF AttestBySig, ValidExpiry
  <1>8. Counts(l, w) => credentials[l][w].issuer = c.issuer
    BY <1>7 DEF MayReplace, Counts, HasCredential
  <1>9. credentials[l][w].issuedAt \in Nat
    BY CredentialFields
  <1>10. \A v \in Wallets : table[v] = IF v = w THEN c ELSE credentials[l][v]
    BY <1>4
  <1> HIDE DEF table
  <1>20. credentials'[l] = table /\ \A k \in Lists : k # l => credentials'[k] = credentials[k]
    BY <1>6, OneTable
  <1>11. WriteAdvances(l)
    BY <1>1, <1>3, <1>7, <1>8, <1>9, <1>10, <1>20 DEF WriteAdvances
  <1> QED
    BY <1>1, <1>6, <1>11, <1>20, WriteStep DEF Onward

\* Every step keeps newer credentials, and lists and the clock go on.
LEMMA CredentialsAdvance ==
  ASSUME Typed, Typed', IssuedOK, [ComplianceNext]_vars
  PROVE  CredentialStep /\ IssuedOK' /\ Onward
  <1> USE DEF listVars, roleVars, sanctionVars, sourceVars, complianceVars, governanceVars
  <1>0. now \in Nat
    BY ClockType DEF Typed
  <1>1. ASSUME credentials' = credentials, Onward
        PROVE  CredentialStep /\ IssuedOK' /\ Onward
    BY <1>1, CredentialsRest DEF Onward
  <1>2. ASSUME NEW caller \in Accounts, By(caller)
        PROVE  CredentialStep /\ IssuedOK' /\ Onward
    BY <1>0, <1>1, <1>2, AccountOnward
  <1>3. ASSUME NEW caller \in Accounts, NEW l \in Lists, ByOnList(caller, l)
        PROVE  CredentialStep /\ IssuedOK' /\ Onward
    <2>1. CASE RenounceAttester(caller, l) \/ SuspendList(caller, l) \/ CreateList(caller, l) \/ ResumeList(caller, l)
      <3>1. credentials' = credentials /\ now' = now /\ created \subseteq created'
        BY <2>1 DEF RenounceAttester, SuspendList, CreateList, ResumeList, BrakeSwitch, Execute
      <3> QED
        BY <1>0, <1>1, <3>1 DEF Onward
    <2>2. ASSUME NEW a \in Accounts,
                 RevokeAttester(caller, l, a) \/ GrantAttester(caller, l, a) \/ VoidCredentials(caller, l, a)
          PROVE  CredentialStep /\ IssuedOK' /\ Onward
      <3>1. credentials' = credentials /\ now' = now /\ created' = created
        BY <2>2 DEF RevokeAttester, GrantAttester, VoidCredentials, BrakeSwitch, Execute
      <3> QED
        BY <1>0, <1>1, <3>1 DEF Onward
    <2> QED
      BY <1>3, <2>1, <2>2, AttestStep, RevokeStep DEF ByOnList
  <1>4. CASE Tick /\ UNCHANGED complianceVars
    <2>1. credentials' = credentials /\ now' = now + 1 /\ created' = created
      BY <1>4 DEF Tick
    <2> QED
      BY <1>0, <1>1, <2>1 DEF Onward
  <1>5. ASSUME NEW s \in Sources, SourceTurns(s)
        PROVE  CredentialStep /\ IssuedOK' /\ Onward
    BY <1>0, <1>1, <1>5 DEF SourceTurns, Onward
  <1>6. CASE UNCHANGED vars
    BY <1>0, <1>1, <1>6 DEF vars, Onward
  <1> QED
    BY <1>2, <1>3, <1>4, <1>5, <1>6, AttestBySigStep DEF ComplianceNext

\* At the start nobody holds a credential.
LEMMA InitIssued ==
  ASSUME ComplianceInit
  PROVE  IssuedOK
  <1>1. now = 1 /\ \A l \in Lists, w \in Wallets : credentials[l][w].issuedAt = 0
    BY DEF ComplianceInit, GovernedInit, NoCredential
  <1> QED
    BY <1>1 DEF IssuedOK

\* While a credential counts only its issuer changes it, nothing older ever replaces it
\* and nothing written outlives MAX_CREDENTIAL_TTL, whoever submits what was ever signed,
\* however late (HookrCompliance.attest, attestBySig, revokeCredential, _refuseHeld).
THEOREM NewerStand == ComplianceSpec => NewerCredentialsStand
  <1>1. ComplianceInit => Typed /\ IssuedOK
    BY InitTyped, InitIssued
  <1>2. Typed /\ IssuedOK /\ [ComplianceNext]_vars => (Typed /\ IssuedOK)' /\ [CredentialStep]_vars
    BY StepTyped, CredentialsAdvance
  <1> QED
    BY <1>1, <1>2, PTL DEF ComplianceSpec, NewerCredentialsStand

-----------------------------------------------------------------------------
(* The guard of a pool.                                                      *)

\* What a pool was bound to is there, and stays.
TermsOK == terms # NotBound => terms \in Terms /\ (terms.list # NoOne => terms.list \in created)

GuardInvariant == Typed /\ IssuedOK /\ TermsOK

\* Every step of the guard's world keeps it: terms are bound once, and lists stay.
LEMMA GuardSteps ==
  ASSUME GuardInvariant, [GuardNext]_guardVars
  PROVE  GuardInvariant'
  <1>1. ASSUME [ComplianceNext]_vars, terms' = terms
        PROVE  GuardInvariant'
    <2>1. Typed /\ Typed' /\ IssuedOK
      BY <1>1, StepTyped DEF GuardInvariant
    <2>2. IssuedOK' /\ created \subseteq created'
      BY <1>1, <2>1, CredentialsAdvance DEF Onward
    <2> QED
      BY <1>1, <2>1, <2>2 DEF GuardInvariant, TermsOK
  <1>2. ASSUME NEW t \in BindableTerms, Bind(t)
        PROVE  GuardInvariant'
    <2>1. [ComplianceNext]_vars /\ created' = created
      BY <1>2 DEF Bind, vars, complianceVars, listVars
    <2>2. Typed' /\ IssuedOK'
      BY <2>1, StepTyped, CredentialsAdvance DEF GuardInvariant
    <2>3. TermsOK'
      BY <1>2, <2>1, TermsAssumption DEF Bind, TermsOK
    <2> QED
      BY <2>2, <2>3 DEF GuardInvariant
  <1>3. ASSUME NEW next, FamilyTurns(next)
        PROVE  GuardInvariant'
    BY <1>1, <1>3 DEF FamilyTurns
  <1>4. CASE LaunchTurns
    BY <1>1, <1>4 DEF LaunchTurns
  <1>5. CASE UNCHANGED guardVars
    BY <1>1, <1>5 DEF guardVars
  <1> QED
    BY <1>1, <1>2, <1>3, <1>4, <1>5 DEF GuardNext

\* A holder with the right tiers, whoever issued its credential and however old it is,
\* can always sell unless a sanction stands: no suspension, revocation, void or expiry
\* closes its exit (HookrComplianceGuard._exit).
THEOREM ExitsStayOpen == GuardSpec => []CredentialedExitsOpen
  <1>1. GuardInit => GuardInvariant
    BY InitTyped, InitIssued DEF GuardInit, GuardInvariant, TermsOK
  <1>2. GuardInvariant /\ [GuardNext]_guardVars => GuardInvariant'
    BY GuardSteps
  <1>3. ASSUME GuardInvariant, terms # NotBound, terms.list # NoOne, NEW w \in Wallets,
               RightTiers(w), ~Listed(w), SourceFailed => "HALT_SELLS_WHEN_SOURCE_DOWN" \notin terms.flags
        PROVE  ExitOpen(w)
    <2>1. terms.list \in created
      BY <1>3 DEF GuardInvariant, TermsOK
    <2>2. CredentialDecision(terms.list, w, terms.requireAll, terms.blockAny)
            \in {"ALLOW", "LIST_SUSPENDED", "ISSUER_REVOKED", "EXPIRED"}
      BY <1>3, <2>1 DEF CredentialDecision, RightTiers
    <2>3. \A kyc : Exit(w, kyc)
      BY <1>3, <2>2 DEF Exit
    <2>4. AuthenticatedAdmitted(Sells(w))
      <3>1. PICK x : x = Sells(w)
        OBVIOUS
      <3>4. /\ x.isBuy = FALSE /\ x.authenticated = TRUE /\ x.sender = "router"
            /\ x.payer = w /\ x.beneficiary = w
        BY <3>1 DEF Sells
      <3>2. Exit(x.payer, "KYC_ON_SELL" \in terms.flags)
        BY <2>3, <3>4
      <3>3. AuthenticatedAdmitted(x)
        BY <3>2, <3>4 DEF AuthenticatedAdmitted
      <3> QED
        BY <3>1, <3>3
    <2> QED
      BY <1>3, <2>4 DEF ExitOpen, Admitted, Sells
  <1>4. GuardInvariant => CredentialedExitsOpen
    BY <1>3 DEF CredentialedExitsOpen
  <1> QED
    BY <1>1, <1>2, <1>4, PTL DEF GuardSpec

=============================================================================
