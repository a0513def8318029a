-------------------------- MODULE RegistryAdmissions -------------------------
(* The part of HookrRegistry that says which modules a new pool may install: *)
(* admissions for a scope (a root, a root factory, or a Rules module as the  *)
(* scope of its own parts), their revocation for good, and the bonds that    *)
(* can make a stored admission read as empty.                                *)
(*                                                                           *)
(* The terms of an admission (gas, caps, phases, schema) are checked against *)
(* fixed ranges when it is queued and executed; the admissions here are the  *)
(* ones that pass.                                                           *)
EXTENDS RegistryMarkets, FiniteSets

CONSTANTS Modules,     \* implementations
          Kinds,       \* the kinds a run admits: a subset of the three below
          TrustedRoot, \* the root a Rules module reports, NoOne if it reports none
          Bonds,       \* IHookrModuleBond contracts
          MaxCopies    \* MAX_OWNED_COPIES

Rules == "RULES"
Advisory == "ADVISORY"
Gate == "GATE"
None == "NONE"

Scopes == Roots \cup Factories \cup Modules

ASSUME AdmissionAssumption ==
  /\ Kinds \subseteq {Rules, Advisory, Gate}
  /\ TrustedRoot \in [Modules -> Roots \cup {NoOne}]
  /\ NoOne \notin Roots \cup Modules \cup Bonds
  /\ Modules \cap (Roots \cup Factories) = {}
  /\ Roots \cap Factories = {}

VARIABLES admissions, \* State.admissions: the stored kind, None for none
          revoked,    \* State.revoked, as a set of <<scope, implementation>>
          bondOf,     \* Bonds.bondOf, NoOne for none
          covering    \* external: the bonds that answer covers() with true

admissionVars == <<admissions, revoked, bondOf, covering>>

AdmissionOperations ==
  {<<"ADMIT", s, m, k>> : s \in Scopes, m \in Modules, k \in Kinds}
    \cup {<<"SET_ADMISSION_BOND", s, m, b>> : s \in Scopes, m \in Modules, b \in Bonds}

AdmissionInit ==
  /\ admissions = [s \in Scopes |-> [m \in Modules |-> None]]
  /\ revoked = {}
  /\ bondOf = [s \in Scopes |-> [m \in Modules |-> NoOne]]
  /\ covering = Bonds

AdmissionTypeOK ==
  /\ admissions \in [Scopes -> [Modules -> {None, Rules, Advisory, Gate}]]
  /\ revoked \subseteq Scopes \X Modules
  /\ bondOf \in [Scopes -> [Modules -> Bonds \cup {NoOne}]]
  /\ covering \subseteq Bonds

-----------------------------------------------------------------------------

BondCovers(s, m) == bondOf[s][m] \in covering \cup {NoOne}

\* admission(scope, implementation): what a pool that binds reads.
Admitted(s, m) == IF BondCovers(s, m) THEN admissions[s][m] ELSE None

\* _partScopeRoot: the active root a Rules module answers to while that root
\* holds a live RULES admission of it; NoOne when the module is no part scope.
PartScopeRoot(s) ==
  IF s \notin Modules THEN NoOne
  ELSE LET r == TrustedRoot[s]
       IN  IF r # NoOne /\ roots[r].active /\ Admitted(r, s) = Rules THEN r ELSE NoOne

\* frozenScope: unlike PartScopeRoot it reads neither the bond nor the root's
\* lifecycle, since the freeze outlasts both.
FrozenScope(s) ==
  \/ s \in Roots /\ roots[s].frozen
  \/ /\ s \in Modules
     /\ TrustedRoot[s] # NoOne
     /\ admissions[TrustedRoot[s]][s] = Rules
     /\ roots[TrustedRoot[s]].frozen

\* Fault: a part scope does not inherit its root's freeze.
CheckAdmissionUnfrozenPart(s, m, k) ==
  /\ \/ s \in Roots /\ roots[s].active /\ ~roots[s].frozen
     \/ s \in rootFactories /\ k = Advisory
     \/ PartScopeRoot(s) # NoOne /\ k = Rules /\ m # s
  /\ admissions[s][m] = None
  /\ <<s, m>> \notin revoked

\* Fault: the freeze of a root is not read.
CheckAdmissionUnfrozen(s, m, k) ==
  /\ \/ s \in Roots /\ roots[s].active
     \/ s \in rootFactories /\ k = Advisory
     \/ PartScopeRoot(s) # NoOne /\ k = Rules /\ m # s
  /\ admissions[s][m] = None
  /\ <<s, m>> \notin revoked

\* Fault: the revocations are not read.
CheckAdmissionAnew(s, m, k) ==
  /\ \/ s \in Roots /\ roots[s].active /\ ~roots[s].frozen
     \/ s \in rootFactories /\ k = Advisory
     \/ /\ PartScopeRoot(s) # NoOne
        /\ ~roots[PartScopeRoot(s)].frozen
        /\ k = Rules
        /\ m # s
  /\ admissions[s][m] = None

\* _checkAdmission: which branch a scope takes and what it then admits.
CheckAdmission(s, m, k) ==
  /\ \/ s \in Roots /\ roots[s].active /\ ~roots[s].frozen
     \/ s \in rootFactories /\ k = Advisory
     \/ /\ PartScopeRoot(s) # NoOne
        /\ ~roots[PartScopeRoot(s)].frozen
        /\ k = Rules
        /\ m # s
  /\ admissions[s][m] = None
  /\ <<s, m>> \notin revoked

CheckBond(s, m, b) ==
  /\ admissions[s][m] # None
  /\ bondOf[s][m] = NoOne
  /\ b \in covering

CheckAdmissionOperation(op) ==
  /\ op[1] = "ADMIT" => CheckAdmission(op[2], op[3], op[4])
  /\ op[1] = "SET_ADMISSION_BOND" => CheckBond(op[2], op[3], op[4])

-----------------------------------------------------------------------------

Admit(caller, s, m, k) ==
  /\ OnlyOwner(caller)
  /\ CheckAdmission(s, m, k)
  /\ Consume(<<"ADMIT", s, m, k>>)
  /\ admissions' = [admissions EXCEPT ![s][m] = k]
  /\ UNCHANGED <<now, roleVars, marketVars, revoked, bondOf, covering>>

\* _revoke, for every implementation of a list at once.
Revoke(s, implementations) ==
  /\ \A m \in implementations : admissions[s][m] # None
  /\ admissions' = [admissions EXCEPT ![s] =
       [m \in Modules |-> IF m \in implementations THEN None ELSE admissions[s][m]]]
  /\ revoked' = revoked \cup ({s} \X implementations)
  /\ UNCHANGED <<now, readyAt, roleVars, marketVars, bondOf, covering>>

RevokeFactoryAdmissions(caller, s, implementations) ==
  /\ OnlyBrake(caller)
  /\ s \in Roots => ~roots[s].registered
  /\ \A m \in implementations : admissions[s][m] = Advisory
  /\ Revoke(s, implementations)

\* Fault: the guardian may revoke on a frozen root too.
RevokeModuleAdmissionAnywhere(caller, s, m) ==
  /\ OnlyBrake(caller)
  /\ Revoke(s, {m})

RevokeModuleAdmission(caller, s, m) ==
  /\ OnlyBrake(caller)
  /\ caller # owner => ~FrozenScope(s)
  /\ Revoke(s, {m})

PinModuleBond(caller, s, m, b) ==
  /\ OnlyOwner(caller)
  /\ CheckBond(s, m, b)
  /\ Consume(<<"SET_ADMISSION_BOND", s, m, b>>)
  /\ bondOf' = [bondOf EXCEPT ![s][m] = b]
  /\ UNCHANGED <<now, roleVars, marketVars, admissions, revoked, covering>>

\* External: a bond starts or stops covering, or its contract stops answering.
BondTurns(b) ==
  /\ covering' = IF b \in covering THEN covering \ {b} ELSE covering \cup {b}
  /\ UNCHANGED <<now, readyAt, roleVars, marketVars, admissions, revoked, bondOf>>

\* _checkCompanion and _copyAdmissions: the companion's RULES admission and
\* the template's ADVISORY and GATE admissions that `copies' names.
CopyAdmissions(r, template, templateRules, companion, copies) ==
  /\ Admitted(template, templateRules) = Rules
  /\ TrustedRoot[companion] = r
  /\ companion \notin copies
  /\ \A m \in copies :
       /\ Admitted(template, m) \in {Advisory, Gate}
       /\ admissions[r][m] = None
  /\ \A k \in {Advisory, Gate} :
       Cardinality({m \in copies : admissions[template][m] = k}) <= MaxCopies
  /\ admissions' = [admissions EXCEPT ![r] =
       [m \in Modules |-> IF m = companion THEN Rules
                          ELSE IF m \in copies THEN admissions[template][m]
                          ELSE admissions[r][m]]]
  /\ bondOf' = [bondOf EXCEPT ![r] =
       [m \in Modules |-> IF m \in copies /\ bondOf[template][m] # NoOne
                          THEN bondOf[template][m] ELSE bondOf[r][m]]]
  /\ UNCHANGED <<revoked, covering>>

AdmissionAction(caller) ==
  \E s \in Scopes :
    \/ \E implementations \in SUBSET Modules : RevokeFactoryAdmissions(caller, s, implementations)
    \/ \E m \in Modules :
         \/ \E k \in Kinds : Admit(caller, s, m, k)
         \/ RevokeModuleAdmission(caller, s, m)
         \/ \E b \in Bonds : PinModuleBond(caller, s, m, b)

=============================================================================
