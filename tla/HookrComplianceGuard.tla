------------------------- MODULE HookrComplianceGuard -------------------------
(* The advisory that asks HookrCompliance before each swap and each add of   *)
(* liquidity of one pool.  Its terms are frozen when the pool is bound; what *)
(* it answers then follows the registry's state, the launcher's views and    *)
(* the root's curated router.                                                *)
EXTENDS HookrCompliance

CONSTANT BindableTerms \* bound: the terms an instance may bind

Flags ==
  {"CHECK_BENEFICIARY", "KYC_ON_SELL", "HALT_SELLS_WHEN_SOURCE_DOWN",
   "RESTRICTED_SUBJECT", "ACCEPT_CURATED", "DIRECT_LP_IF_PERMITTED"}

Terms ==
  [list : Lists \cup {NoOne}, requireAll : SUBSET Tiers, blockAny : SUBSET Tiers, flags : SUBSET Flags]

NotBound == [list |-> NoOne, requireAll |-> {}, blockAny |-> {}, flags |-> {"NOT_BOUND"}]

ASSUME TermsAssumption == BindableTerms \subseteq Terms

VARIABLES terms,       \* State.bound for one binder and pool
          familyOwner, \* external: the launcher's owner of the pool's family, NoOne if a view fails
          launching    \* external: the launcher's launchBuyPool() names the pool

guardVars == <<vars, terms, familyOwner, launching>>

GuardInit ==
  /\ ComplianceInit
  /\ terms = NotBound
  /\ familyOwner \in Wallets
  /\ launching = FALSE

-----------------------------------------------------------------------------

\* bind: once, with terms that fit together, for a launcher that knows the
\* family.
Bind(t) ==
  /\ terms = NotBound
  /\ t.requireAll \cap t.blockAny = {}
  /\ t.list # NoOne => t.list \in created
  /\ "ACCEPT_CURATED" \in t.flags => "RESTRICTED_SUBJECT" \in t.flags \/ t.list = NoOne
  /\ familyOwner # NoOne
  /\ terms' = t
  /\ UNCHANGED <<vars, familyOwner, launching>>

Entry(w) == Check(terms.list, w, terms.requireAll, terms.blockAny) = "ALLOW"

\* Fault: a seller needs what a buyer needs.
ExitAsEntry(w, kyc) ==
  /\ ~Listed(w)
  /\ SourceFailed => "HALT_SELLS_WHEN_SOURCE_DOWN" \notin terms.flags
  /\ kyc /\ terms.list # NoOne =>
       CredentialDecision(terms.list, w, terms.requireAll, terms.blockAny) = "ALLOW"

\* _exit: the sanction rule, then the credential when sellers need one.  What
\* a role can do to a list or an issuer, and expiry, do not stop an exit.
Exit(w, kyc) ==
  /\ ~Listed(w)
  /\ SourceFailed => "HALT_SELLS_WHEN_SOURCE_DOWN" \notin terms.flags
  /\ kyc /\ terms.list # NoOne =>
       CredentialDecision(terms.list, w, terms.requireAll, terms.blockAny)
         \in {"ALLOW", "LIST_SUSPENDED", "ISSUER_REVOKED", "EXPIRED"}

\* The one unauthenticated swap admitted: the launcher's exact-input buy in the
\* pool it is launching, delivered to the family owner.
LaunchBuyAdmitted(x) ==
  /\ x.isBuy /\ x.exactInput /\ x.sender = "launcher" /\ launching
  /\ familyOwner # NoOne /\ Entry(familyOwner)

\* _swap for an authenticated context.
AuthenticatedAdmitted(x) ==
  LET curated == x.sender = "curated"
  IN  /\ curated => "ACCEPT_CURATED" \in terms.flags
      /\ IF x.isBuy THEN Entry(x.payer) ELSE Exit(x.payer, "KYC_ON_SELL" \in terms.flags)
      /\ "CHECK_BENEFICIARY" \in terms.flags /\ ~curated /\ x.beneficiary # x.payer =>
           IF x.isBuy THEN Entry(x.beneficiary) ELSE Exit(x.beneficiary, FALSE)

Admitted(x) ==
  /\ terms # NotBound
  /\ IF x.authenticated THEN AuthenticatedAdmitted(x) ELSE LaunchBuyAdmitted(x)

LaunchBuy == [isBuy |-> TRUE, exactInput |-> TRUE, authenticated |-> FALSE, sender |-> "launcher"]

\* _liquidity: the launcher adds for the family owner, another sender for
\* itself and only where the terms let it.
AddAdmitted(sender) ==
  /\ terms # NotBound
  /\ IF sender = "launcher"
     THEN familyOwner # NoOne /\ Entry(familyOwner)
     ELSE "DIRECT_LP_IF_PERMITTED" \in terms.flags /\ Entry(sender)

-----------------------------------------------------------------------------

\* A family changes hands, or a view of the launcher fails.
FamilyTurns(next) ==
  /\ familyOwner' = next
  /\ UNCHANGED <<vars, terms, launching>>

LaunchTurns ==
  /\ launching' = ~launching
  /\ UNCHANGED <<vars, terms, familyOwner>>

GuardNext ==
  \/ ComplianceNext /\ UNCHANGED <<terms, familyOwner, launching>>
  \/ \E t \in BindableTerms : Bind(t)
  \/ \E next \in Wallets \cup {NoOne} : FamilyTurns(next)
  \/ LaunchTurns

GuardSpec == GuardInit /\ [][GuardNext]_guardVars

-----------------------------------------------------------------------------
(* Exits.                                                                    *)

Sells(w) ==
  [isBuy |-> FALSE, exactInput |-> TRUE, authenticated |-> TRUE, sender |-> "router", payer |-> w, beneficiary |-> w]

ExitOpen(w) == Admitted(Sells(w))

\* Nothing tightened the sanctions of this wallet in this step.
SanctionsRelaxed(w) ==
  /\ Listed(w)' => Listed(w)
  /\ SourceFailed' => SourceFailed

\* The wallet holds a credential with the tiers the pool asks for, whoever
\* issued it and however old it is.
RightTiers(w) ==
  LET c == credentials[terms.list][w]
  IN  HasCredential(c) /\ terms.requireAll \subseteq c.tiers /\ terms.blockAny \cap c.tiers = {}

\* Once such a wallet holds the pool's token it can sell it, also where sellers
\* need a credential: the sanctions are the only reason to refuse it, whatever
\* was suspended, revoked, voided or expired since.
CredentialedExitsOpen ==
  terms # NotBound /\ terms.list # NoOne =>
    \A w \in Wallets :
      /\ RightTiers(w) /\ ~Listed(w)
      /\ SourceFailed => "HALT_SELLS_WHEN_SOURCE_DOWN" \notin terms.flags
      => ExitOpen(w)

\* What the guard's comment on KYC_ON_SELL says of every role: no step that
\* leaves a wallet's sanctions alone closes its exit.  Attesters are a role.
NoRoleFreezesExits ==
  [][terms # NotBound =>
       \A w \in Wallets :
         RightTiers(w) /\ ExitOpen(w) /\ SanctionsRelaxed(w) => ExitOpen(w)']_guardVars

=============================================================================
