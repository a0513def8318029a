--------------------------- MODULE HookrCompliance ---------------------------
(* Sanctions and credentials, on the timelock of HookrGoverned.  Officers    *)
(* sanction wallets; attesters of a list write credentials or sign them for  *)
(* anyone to submit; guardians and the owner restrict at once, and what they *)
(* restrict comes back only through the timelock.                            *)
(*                                                                           *)
(* A batch is the set of wallets it names: the code checks and writes them   *)
(* one by one in a transaction that applies wholly or not at all.  An        *)
(* attestation is whatever an attester signed, with any issue time.  The     *)
(* external sanctions source is a contract nobody here controls: it lists    *)
(* any wallets and fails at any time.                                        *)
EXTENDS HookrGoverned

CONSTANTS Lists,       \* list ids, without the reserved zero
          Wallets,     \* wallets sanctioned or credentialed
          Tiers,       \* the bits of a tier mask
          Sources,     \* sanctions source contracts
          MaxTtl,      \* MAX_CREDENTIAL_TTL
          Agenda       \* bound: the operations the owner may queue in an instance

ASSUME ComplianceAssumption ==
  /\ MaxTtl \in Nat \ {0}
  /\ NoOne \notin Sources

VARIABLES created,     \* State.lists[listId].exists, as a set
          suspended,   \* State.lists[listId].suspended, as a set
          attesters,   \* State.attesters
          credentials, \* State.credentials
          sanctioned,  \* State.sanctioned, as a set
          officers,    \* State.officers, as a set
          guardians,   \* State.guardians, as a set
          source,      \* State.sanctionsSource
          sourceDown,  \* external: the sources that fail when asked
          sourceLists, \* external: the wallets each source lists
          heldSince    \* history: when each switch was last braked

roleVars == <<attesters, officers, guardians, heldSince>>
listVars == <<created, suspended>>
sanctionVars == <<sanctioned, source>>
sourceVars == <<sourceDown, sourceLists>>
complianceVars == <<roleVars, listVars, credentials, sanctionVars, sourceVars>>

\* The permissions a brake withdraws, each restored by one operation.
Switches ==
  {<<"RESUME_LIST", l>> : l \in Lists}
    \cup {<<"GRANT_ATTESTER", l, a>> : l \in Lists, a \in Accounts}
    \cup {<<kind, a>> : kind \in {"GRANT_OFFICER", "GRANT_GUARDIAN"}, a \in Accounts}

ComplianceOperations ==
  Switches
    \cup TransferOperations
    \cup {<<"CREATE_LIST", l>> : l \in Lists}
    \cup {<<"VOID_CREDENTIALS", l, a>> : l \in Lists, a \in Accounts}
    \cup {<<"SET_SANCTIONS_SOURCE", s>> : s \in Sources \cup {NoOne}}

\* _epochKey: grants and resumptions are keyed by subject, the rest by kind.
EpochKey(op) == IF op \in Switches THEN op ELSE <<op[1]>>

EpochKeys == {EpochKey(op) : op \in ComplianceOperations}

ASSUME AgendaAssumption == Agenda \subseteq ComplianceOperations

NoCredential == [issuer |-> NoOne, expiresAt |-> 0, issuedAt |-> 0, tiers |-> {}]

CredentialState ==
  [issuer : Accounts \cup {NoOne}, expiresAt : Nat, issuedAt : Nat, tiers : SUBSET Tiers]

ComplianceInit ==
  /\ GovernedInit(ComplianceOperations, EpochKeys)
  /\ created = {} /\ suspended = {}
  /\ attesters = [l \in Lists |-> [a \in Accounts |-> [since |-> 0, validFrom |-> 0]]]
  /\ credentials = [l \in Lists |-> [w \in Wallets |-> NoCredential]]
  /\ sanctioned = {} /\ officers = {} /\ guardians = {}
  /\ source = NoOne
  /\ sourceDown = {}
  /\ sourceLists = [s \in Sources |-> {}]
  /\ heldSince = [s \in Switches |-> 0]

ComplianceTypeOK ==
  /\ GovernedTypeOK(ComplianceOperations, EpochKeys)
  /\ created \subseteq Lists /\ suspended \subseteq created
  /\ attesters \in [Lists -> [Accounts -> [since : Nat, validFrom : Nat]]]
  /\ credentials \in [Lists -> [Wallets -> CredentialState]]
  /\ sanctioned \subseteq Wallets
  /\ officers \subseteq Accounts /\ guardians \subseteq Accounts
  /\ source \in Sources \cup {NoOne}
  /\ sourceDown \subseteq Sources
  /\ sourceLists \in [Sources -> SUBSET Wallets]
  /\ heldSince \in [Switches -> Nat]

-----------------------------------------------------------------------------
(* What check() and sanctionStatus() answer.                                 *)

SourceFailed == source # NoOne /\ source \in sourceDown

Listed(w) ==
  \/ w \in sanctioned
  \/ source # NoOne /\ source \notin sourceDown /\ w \in sourceLists[source]

\* _issuerValid: the issuer is active and issued it after its last void.
IssuerValid(l, c) ==
  /\ attesters[l][c.issuer].since # 0
  /\ c.issuedAt >= attesters[l][c.issuer].validFrom

HasCredential(c) == c.issuer # NoOne /\ c.expiresAt # 0

\* _credentialDecision: the first failing step names the decision.
CredentialDecision(l, w, requireAll, blockAny) ==
  LET c == credentials[l][w]
  IN  IF l \notin created THEN "UNKNOWN_LIST"
      ELSE IF l \in suspended THEN "LIST_SUSPENDED"
      ELSE IF ~HasCredential(c) THEN "NO_CREDENTIAL"
      ELSE IF ~IssuerValid(l, c) THEN "ISSUER_REVOKED"
      ELSE IF c.expiresAt <= now THEN "EXPIRED"
      ELSE IF ~(requireAll \subseteq c.tiers) THEN "MISSING_TIERS"
      ELSE IF c.tiers \cap blockAny # {} THEN "BLOCKED_TIERS"
      ELSE "ALLOW"

\* check(): sanctions first, then the list; no list asks for sanctions only.
Check(l, w, requireAll, blockAny) ==
  IF w \in sanctioned THEN "SANCTIONED"
  ELSE IF SourceFailed THEN "SOURCE_FAILED"
  ELSE IF Listed(w) THEN "SANCTIONED"
  ELSE IF l \notin Lists THEN "ALLOW"
  ELSE CredentialDecision(l, w, requireAll, blockAny)

Counts(l, w) ==
  LET c == credentials[l][w] IN HasCredential(c) /\ IssuerValid(l, c) /\ c.expiresAt > now

-----------------------------------------------------------------------------
(* Immediate powers.                                                         *)

OnlyGuardianOrOwner(caller) == caller = owner \/ caller \in guardians

OnlyAttester(caller, l) == attesters[l][caller].since # 0

SetSanctioned(caller, ws, listed) ==
  /\ caller \in officers
  /\ sanctioned' = IF listed THEN sanctioned \cup ws ELSE sanctioned \ ws
  /\ UNCHANGED <<governanceVars, roleVars, listVars, credentials, source, sourceVars>>

\* _refuseHeld: another issuer's credential stands while it counts.
MayReplace(l, w, writer) ==
  LET c == credentials[l][w]
  IN  c.issuer \notin {NoOne, writer} /\ c.expiresAt > now => ~IssuerValid(l, c)

\* _expiry
ValidExpiry(time) == now < time /\ time <= now + MaxTtl

\* attest and attestBatch: one expiry, a tier mask for each wallet.
Attest(caller, l, tiersOf, expiresAt) ==
  /\ OnlyAttester(caller, l)
  /\ ValidExpiry(expiresAt)
  /\ \A w \in DOMAIN tiersOf :
       now >= credentials[l][w].issuedAt /\ MayReplace(l, w, caller)
  /\ credentials' = [credentials EXCEPT ![l] =
       [w \in Wallets |->
          IF w \in DOMAIN tiersOf
          THEN [issuer |-> caller, expiresAt |-> expiresAt, issuedAt |-> now, tiers |-> tiersOf[w]]
          ELSE @[w]]]
  /\ UNCHANGED <<governanceVars, roleVars, listVars, sanctionVars, sourceVars>>

\* Fault: a signed credential replaces a newer one.
AttestBySigReplayed(l, w, c) ==
  /\ OnlyAttester(c.issuer, l)
  /\ c.issuedAt <= now
  /\ c.issuedAt >= attesters[l][c.issuer].validFrom
  /\ ValidExpiry(c.expiresAt)
  /\ MayReplace(l, w, c.issuer)
  /\ credentials' = [credentials EXCEPT ![l] = [@ EXCEPT ![w] = c]]
  /\ UNCHANGED <<governanceVars, roleVars, listVars, sanctionVars, sourceVars>>

\* Anyone submits a credential its issuer signed.  The signature's deadline is
\* one more way to refuse it.
AttestBySig(l, w, c) ==
  /\ OnlyAttester(c.issuer, l)
  /\ c.issuedAt <= now
  /\ c.issuedAt > credentials[l][w].issuedAt
  /\ c.issuedAt >= attesters[l][c.issuer].validFrom
  /\ ValidExpiry(c.expiresAt)
  /\ MayReplace(l, w, c.issuer)
  /\ credentials' = [credentials EXCEPT ![l] = [@ EXCEPT ![w] = c]]
  /\ UNCHANGED <<governanceVars, roleVars, listVars, sanctionVars, sourceVars>>

RevokeCredential(caller, l, ws) ==
  /\ OnlyAttester(caller, l)
  /\ \A w \in ws : credentials[l][w].issuer \in {NoOne, caller}
  /\ credentials' = [credentials EXCEPT ![l] =
       [w \in Wallets |->
          IF w \in ws THEN [NoCredential EXCEPT !.issuer = caller, !.issuedAt = now] ELSE @[w]]]
  /\ UNCHANGED <<governanceVars, roleVars, listVars, sanctionVars, sourceVars>>

RenounceAttester(caller, l) ==
  /\ OnlyAttester(caller, l)
  /\ attesters' = [attesters EXCEPT ![l][caller].since = 0]
  /\ UNCHANGED <<governanceVars, officers, guardians, heldSince, listVars, credentials, sanctionVars, sourceVars>>

RenounceOfficer(caller) ==
  /\ caller \in officers
  /\ officers' = officers \ {caller}
  /\ UNCHANGED <<governanceVars, attesters, guardians, heldSince, listVars, credentials, sanctionVars, sourceVars>>

-----------------------------------------------------------------------------
(* The brakes.                                                               *)

BrakeSwitch(s) ==
  /\ InvalidateQueued(s)
  /\ heldSince' = [heldSince EXCEPT ![s] = now]
  /\ UNCHANGED <<now, owner, pendingOwner, readyAt>>

RevokeAttester(caller, l, a) ==
  /\ OnlyGuardianOrOwner(caller)
  /\ attesters[l][a].since # 0
  /\ attesters' = [attesters EXCEPT ![l][a].since = 0]
  /\ BrakeSwitch(<<"GRANT_ATTESTER", l, a>>)
  /\ UNCHANGED <<officers, guardians, listVars, credentials, sanctionVars, sourceVars>>

RevokeOfficer(caller, a) ==
  /\ OnlyGuardianOrOwner(caller)
  /\ a \in officers
  /\ officers' = officers \ {a}
  /\ BrakeSwitch(<<"GRANT_OFFICER", a>>)
  /\ UNCHANGED <<attesters, guardians, listVars, credentials, sanctionVars, sourceVars>>

\* Also on a suspended list, to void a queued resumption.
SuspendList(caller, l) ==
  /\ OnlyGuardianOrOwner(caller)
  /\ l \in created
  /\ suspended' = suspended \cup {l}
  /\ BrakeSwitch(<<"RESUME_LIST", l>>)
  /\ UNCHANGED <<attesters, officers, guardians, created, credentials, sanctionVars, sourceVars>>

RevokeGuardian(caller, a) ==
  /\ OnlyOwner(caller)
  /\ a \in guardians
  /\ guardians' = guardians \ {a}
  /\ BrakeSwitch(<<"GRANT_GUARDIAN", a>>)
  /\ UNCHANGED <<attesters, officers, listVars, credentials, sanctionVars, sourceVars>>

\* Only a source that fails is removed at once.
ClearSanctionsSource(caller) ==
  /\ OnlyGuardianOrOwner(caller)
  /\ SourceFailed
  /\ source' = NoOne
  /\ UNCHANGED <<governanceVars, roleVars, listVars, credentials, sanctioned, sourceVars>>

-----------------------------------------------------------------------------
(* The timelock.                                                             *)

\* _checkQueue, for a known kind with canonical arguments.
CheckQueue(op) == op[1] = "RESUME_LIST" => op[2] \in suspended

Queue(caller, op) ==
  /\ OnlyOwner(caller)
  /\ CheckQueue(op)
  /\ Announce(op, EpochKey(op))
  /\ UNCHANGED <<now, owner, pendingOwner, epoch, complianceVars>>

\* onlyOwner and _consume, for an operation that leaves the roles of governance alone.
Execute(caller, op) ==
  /\ OnlyOwner(caller)
  /\ Consume(op, EpochKey(op))
  /\ UNCHANGED <<now, owner, pendingOwner, epoch, heldSince>>

CreateList(caller, l) ==
  /\ l \notin created
  /\ Execute(caller, <<"CREATE_LIST", l>>)
  /\ created' = created \cup {l}
  /\ UNCHANGED <<suspended, attesters, officers, guardians, credentials, sanctionVars, sourceVars>>

\* The first grant sets validFrom; a later one keeps it.
GrantAttester(caller, l, a) ==
  /\ l \in created
  /\ attesters[l][a].since = 0
  /\ Execute(caller, <<"GRANT_ATTESTER", l, a>>)
  /\ attesters' = [attesters EXCEPT ![l][a] =
       [since |-> now, validFrom |-> IF @.validFrom = 0 THEN now ELSE @.validFrom]]
  /\ UNCHANGED <<listVars, officers, guardians, credentials, sanctionVars, sourceVars>>

VoidCredentials(caller, l, a) ==
  /\ l \in created
  /\ Execute(caller, <<"VOID_CREDENTIALS", l, a>>)
  /\ attesters' = [attesters EXCEPT ![l][a].validFrom = now]
  /\ UNCHANGED <<listVars, officers, guardians, credentials, sanctionVars, sourceVars>>

GrantOfficer(caller, a) ==
  /\ Execute(caller, <<"GRANT_OFFICER", a>>)
  /\ officers' = officers \cup {a}
  /\ UNCHANGED <<listVars, attesters, guardians, credentials, sanctionVars, sourceVars>>

GrantGuardian(caller, a) ==
  /\ Execute(caller, <<"GRANT_GUARDIAN", a>>)
  /\ guardians' = guardians \cup {a}
  /\ UNCHANGED <<listVars, attesters, officers, credentials, sanctionVars, sourceVars>>

\* A new source must answer a probe; removing one needs none.
SetSanctionsSource(caller, s) ==
  /\ s \notin sourceDown
  /\ Execute(caller, <<"SET_SANCTIONS_SOURCE", s>>)
  /\ source' = s
  /\ UNCHANGED <<listVars, attesters, officers, guardians, credentials, sanctioned, sourceVars>>

ResumeList(caller, l) ==
  /\ l \in suspended
  /\ Execute(caller, <<"RESUME_LIST", l>>)
  /\ suspended' = suspended \ {l}
  /\ UNCHANGED <<created, attesters, officers, guardians, credentials, sanctionVars, sourceVars>>

-----------------------------------------------------------------------------

\* The external source changes its mind.
SourceTurns(s) ==
  /\ \/ sourceDown' \in {sourceDown \cup {s}, sourceDown \ {s}} /\ UNCHANGED sourceLists
     \/ /\ \E ws \in SUBSET Wallets : sourceLists' = [sourceLists EXCEPT ![s] = ws]
        /\ UNCHANGED sourceDown
  /\ UNCHANGED <<governanceVars, roleVars, listVars, credentials, sanctionVars>>

-----------------------------------------------------------------------------

vars == <<governanceVars, complianceVars>>

ExpiryTimes == 1..MaxTime + MaxTtl + 1

\* Whatever an attester may have signed.
Attestations == [issuer : Accounts, expiresAt : ExpiryTimes, issuedAt : 1..MaxTime, tiers : SUBSET Tiers]

\* What one account can make the contract do.
By(caller) ==
  \/ \E op \in Agenda : Queue(caller, op)
  \/ /\ \/ \E op \in ComplianceOperations, e \in Epochs : Cancel(caller, op, e)
        \/ Handover(caller)
     /\ UNCHANGED complianceVars
  \/ \E ws \in SUBSET Wallets, listed \in BOOLEAN : SetSanctioned(caller, ws, listed)
  \/ RenounceOfficer(caller)
  \/ \E a \in Accounts :
       \/ RevokeOfficer(caller, a)
       \/ RevokeGuardian(caller, a)
       \/ GrantOfficer(caller, a)
       \/ GrantGuardian(caller, a)
  \/ ClearSanctionsSource(caller)
  \/ \E s \in Sources \cup {NoOne} : SetSanctionsSource(caller, s)

ByOnList(caller, l) ==
  \/ \E ws \in SUBSET Wallets : \E tiersOf \in [ws -> SUBSET Tiers], time \in ExpiryTimes :
       Attest(caller, l, tiersOf, time)
  \/ \E ws \in SUBSET Wallets : RevokeCredential(caller, l, ws)
  \/ RenounceAttester(caller, l)
  \/ \E a \in Accounts :
       \/ RevokeAttester(caller, l, a)
       \/ GrantAttester(caller, l, a)
       \/ VoidCredentials(caller, l, a)
  \/ SuspendList(caller, l)
  \/ CreateList(caller, l)
  \/ ResumeList(caller, l)

ComplianceNext ==
  \/ \E caller \in Accounts : By(caller) \/ \E l \in Lists : ByOnList(caller, l)
  \/ \E l \in Lists, w \in Wallets, c \in Attestations : AttestBySig(l, w, c)
  \/ Tick /\ UNCHANGED complianceVars
  \/ \E s \in Sources : SourceTurns(s)

ComplianceSpec == ComplianceInit /\ [][ComplianceNext]_vars

-----------------------------------------------------------------------------
(* Brakes by epoch.                                                          *)

IsOn(s) ==
  CASE s[1] = "RESUME_LIST" -> s[2] \notin suspended
    [] s[1] = "GRANT_ATTESTER" -> attesters[s[2]][s[3]].since # 0
    [] s[1] = "GRANT_OFFICER" -> s[2] \in officers
    [] s[1] = "GRANT_GUARDIAN" -> s[2] \in guardians

\* Suspending a list and revoking an attester, an officer or a guardian each
\* hold for at least a full delay, whatever was queued before
\* (HookrGoverned._invalidateQueued).
RoleBrakesHold ==
  \A s \in Switches : heldSince[s] # 0 /\ now < heldSince[s] + Delay => ~IsOn(s)

RoleSwitch ==
  INSTANCE BrakedSwitches WITH
    LiftsOf <- [s \in Switches |-> {s}],
    on <- [s \in Switches |-> IsOn(s)],
    brakedAt <- heldSince,
    announcedAt <- [s \in Switches |-> IF Ready(s, s) = 0 THEN 0 ELSE Ready(s, s) - Delay]

\* A brake that voids by epoch implements the same promise as the registry's
\* brakes by timestamp.
RolesImplementSwitches == RoleSwitch!SwitchSpec

-----------------------------------------------------------------------------
(* Credentials.                                                              *)

\* While a credential counts, only its own issuer changes it, and no write of
\* any kind replaces a credential by one issued earlier, so neither a revocation
\* nor a renewal is undone by an attestation signed before it.  What is written
\* ends within MAX_CREDENTIAL_TTL: if the attesters disappear, all lapse.
CredentialStep ==
  \A l \in Lists, w \in Wallets :
    LET c == credentials[l][w]
        d == credentials'[l][w]
    IN  d # c =>
          /\ Counts(l, w) => d.issuer = c.issuer
          /\ d.issuedAt >= c.issuedAt
          /\ d.issuedAt = c.issuedAt /\ d.expiresAt # 0 => d.issuedAt = now
          /\ d.expiresAt <= now + MaxTtl

NewerCredentialsStand == [][CredentialStep]_vars

=============================================================================
