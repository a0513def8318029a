--------------------------- MODULE RegistryMarkets ---------------------------
(* The part of HookrRegistry that decides where new pools may open: the      *)
(* global pause, the launchers, the roots and the root factories, with the   *)
(* external-hook records, which must stay apart from the roots.              *)
(*                                                                           *)
(* The checks on deployed code (codehash equality, permission flags, the     *)
(* reported registry and PoolManager) are a property of the address, not of  *)
(* a history: the sets below hold addresses that pass them.  What does       *)
(* depend on time is whether an address holds code at all: a factory root    *)
(* has none until the transaction in which its factory deploys and           *)
(* registers it (HookrRootFactory.deploy, HookrOwnedRootFactory.deploy).     *)
EXTENDS RegistryTimelock

CONSTANTS Launchers,
          CuratedRoots, \* roots deployed by hand, registered by REGISTER_ROOT
          PairRoots,    \* roots HookrRootFactory deploys
          OwnedRoots,   \* roots HookrOwnedRootFactory deploys
          Factories,
          Hooks         \* addresses considered for external-hook records

Roots == CuratedRoots \cup PairRoots \cup OwnedRoots

ASSUME RootAssumption ==
  /\ CuratedRoots \cap PairRoots = {}
  /\ CuratedRoots \cap OwnedRoots = {}
  /\ PairRoots \cap OwnedRoots = {}
  /\ NoOne \notin Factories

VARIABLES paused,        \* State.newMarketsPaused
          launchers,     \* State.launchers, as the set of active ones
          roots,         \* State.roots
          rootFactories, \* State.rootFactories, as the set of active ones
          registrar,     \* Owned.roots[root].factory, NoOne for a root that is not owned
          recorded,      \* Records.hooks, as the set of recorded hooks
          delistedAt,    \* Records.delistedAt
          heldSince      \* history: when each untimed brake last took effect

marketVars == <<paused, launchers, roots, rootFactories, registrar, recorded, delistedAt, heldSince>>

\* The switches whose brake leaves no timestamp in the code.
Markets == "newMarkets"
UntimedSwitches ==
  {<<Markets>>} \cup {<<"launcher", l>> : l \in Launchers}
    \cup {<<"factory", f>> : f \in Factories} \cup {<<"root", r>> : r \in Roots}

RootState ==
  [registered : BOOLEAN, active : BOOLEAN, frozen : BOOLEAN, closed : BOOLEAN,
   factory : Factories \cup {NoOne}]

Unregistered ==
  [registered |-> FALSE, active |-> FALSE, frozen |-> FALSE, closed |-> FALSE,
   factory |-> NoOne]

MarketOperations ==
  {<<"SET_LAUNCHER", l, on>> : l \in Launchers, on \in BOOLEAN}
    \cup {<<"REGISTER_ROOT", r>> : r \in Roots}
    \cup {<<"RETIRE_ROOT", r>> : r \in Roots}
    \cup {<<"REOPEN_ROOT", r>> : r \in Roots}
    \cup {<<"SET_ROOT_FACTORY", f, on>> : f \in Factories, on \in BOOLEAN}
    \cup {<<"RESUME_NEW_MARKETS">>}
    \cup {<<"RECORD_EXTERNAL_HOOK", h>> : h \in Hooks}

MarketInit ==
  /\ paused = FALSE
  /\ launchers = {}
  /\ roots = [r \in Roots |-> Unregistered]
  /\ rootFactories = {}
  /\ registrar = [r \in Roots |-> NoOne]
  /\ recorded = {}
  /\ delistedAt = [h \in Hooks |-> 0]
  /\ heldSince = [s \in UntimedSwitches |-> 0]

MarketTypeOK ==
  /\ paused \in BOOLEAN
  /\ launchers \subseteq Launchers
  /\ roots \in [Roots -> RootState]
  /\ rootFactories \subseteq Factories
  /\ registrar \in [Roots -> Factories \cup {NoOne}]
  /\ recorded \subseteq Hooks
  /\ delistedAt \in [Hooks -> Nat]
  /\ heldSince \in [UntimedSwitches -> Nat]

-----------------------------------------------------------------------------
(* Checks run when an operation is queued and again when it executes.        *)

\* A curated root is deployed before anyone names it; a factory root only in
\* the transaction that registers it.
HoldsCode(account) ==
  account \in PairRoots \cup OwnedRoots => roots[account].registered

CheckAdmitLauncher(l) == l \notin launchers

\* Fault: the external-hook records are not read.
CheckRootOnly(r) == HoldsCode(r) /\ ~roots[r].registered

CheckRoot(r) == HoldsCode(r) /\ ~roots[r].registered /\ r \notin recorded

\* Fault: a reopening can be queued while the root is open.
CheckReopenActive(r) == roots[r].active

CheckReopen(r) == roots[r].active /\ roots[r].closed

CheckRootFactory(f, on) == on => f \notin rootFactories

CheckRecord(h) == HoldsCode(h) /\ (h \in Roots => ~roots[h].registered)

\* checkQueued, for the kinds of this module.
CheckMarketOperation(op) ==
  /\ op[1] = "SET_LAUNCHER" => (op[3] => CheckAdmitLauncher(op[2]))
  /\ op[1] = "REGISTER_ROOT" => CheckRoot(op[2])
  /\ op[1] = "RETIRE_ROOT" => roots[op[2]].registered
  /\ op[1] = "REOPEN_ROOT" => CheckReopen(op[2])
  /\ op[1] = "SET_ROOT_FACTORY" => CheckRootFactory(op[2], op[3])
  /\ op[1] = "RESUME_NEW_MARKETS" => paused
  /\ op[1] = "RECORD_EXTERNAL_HOOK" => CheckRecord(op[2])

RootOpen(r) == roots[r].active /\ ~roots[r].closed /\ ~paused

-----------------------------------------------------------------------------

Hold(switch) == heldSince' = [heldSince EXCEPT ![switch] = now]

SetLauncher(caller, l, on) ==
  /\ OnlyOwner(caller)
  /\ on => CheckAdmitLauncher(l)
  /\ Consume(<<"SET_LAUNCHER", l, on>>)
  /\ launchers' = IF on THEN launchers \cup {l} ELSE launchers \ {l}
  /\ UNCHANGED <<now, roleVars, paused, roots, rootFactories, registrar, recorded, delistedAt, heldSince>>

DeactivateLauncher(caller, l) ==
  /\ OnlyBrake(caller)
  /\ l \in launchers
  /\ launchers' = launchers \ {l}
  /\ Hold(<<"launcher", l>>)
  /\ UNCHANGED <<now, readyAt, roleVars, paused, roots, rootFactories, registrar, recorded, delistedAt>>

RegisterRoot(caller, r) ==
  /\ OnlyOwner(caller)
  /\ CheckRoot(r)
  /\ Consume(<<"REGISTER_ROOT", r>>)
  /\ roots' = [roots EXCEPT ![r] = [Unregistered EXCEPT !.registered = TRUE, !.active = TRUE]]
  /\ UNCHANGED <<now, roleVars, paused, launchers, rootFactories, registrar, recorded, delistedAt, heldSince>>

\* Called by the pair-root factory in the transaction that deploys the root.
RegisterFactoryRoot(f, r) ==
  /\ r \in PairRoots
  /\ f \in rootFactories
  /\ ~paused
  /\ ~roots[r].registered
  /\ roots' = [roots EXCEPT ![r] = [Unregistered EXCEPT !.registered = TRUE, !.active = TRUE, !.factory = f]]
  /\ UNCHANGED <<now, readyAt, roleVars, paused, launchers, rootFactories, registrar, recorded, delistedAt, heldSince>>

RetireRoot(caller, r) ==
  /\ OnlyOwner(caller)
  /\ Consume(<<"RETIRE_ROOT", r>>)
  /\ roots[r].registered
  /\ roots' = [roots EXCEPT ![r].active = FALSE]
  /\ UNCHANGED <<now, roleVars, paused, launchers, rootFactories, registrar, recorded, delistedAt, heldSince>>

FreezeRoot(caller, r) ==
  /\ OnlyOwner(caller)
  /\ roots[r].registered
  /\ ~roots[r].frozen
  /\ roots' = [roots EXCEPT ![r].frozen = TRUE]
  /\ UNCHANGED <<now, readyAt, roleVars, paused, launchers, rootFactories, registrar, recorded, delistedAt, heldSince>>

CloseRoot(caller, r) ==
  /\ OnlyBrake(caller)
  /\ roots[r].registered
  /\ ~roots[r].closed
  /\ roots' = [roots EXCEPT ![r].closed = TRUE]
  /\ Hold(<<"root", r>>)
  /\ UNCHANGED <<now, readyAt, roleVars, paused, launchers, rootFactories, registrar, recorded, delistedAt>>

ReopenRoot(caller, r) ==
  /\ OnlyOwner(caller)
  /\ CheckReopen(r)
  /\ Consume(<<"REOPEN_ROOT", r>>)
  /\ roots' = [roots EXCEPT ![r].closed = FALSE]
  /\ UNCHANGED <<now, roleVars, paused, launchers, rootFactories, registrar, recorded, delistedAt, heldSince>>

SetRootFactory(caller, f, on) ==
  /\ OnlyOwner(caller)
  /\ CheckRootFactory(f, on)
  /\ Consume(<<"SET_ROOT_FACTORY", f, on>>)
  /\ rootFactories' = IF on THEN rootFactories \cup {f} ELSE rootFactories \ {f}
  /\ UNCHANGED <<now, roleVars, paused, launchers, roots, registrar, recorded, delistedAt, heldSince>>

DeactivateRootFactory(caller, f) ==
  /\ OnlyBrake(caller)
  /\ f \in rootFactories
  /\ rootFactories' = rootFactories \ {f}
  /\ Hold(<<"factory", f>>)
  /\ UNCHANGED <<now, readyAt, roleVars, paused, launchers, roots, registrar, recorded, delistedAt>>

PauseNewMarkets(caller) ==
  /\ OnlyBrake(caller)
  /\ ~paused
  /\ paused' = TRUE
  /\ Hold(<<Markets>>)
  /\ UNCHANGED <<now, readyAt, roleVars, launchers, roots, rootFactories, registrar, recorded, delistedAt>>

ResumeNewMarkets(caller) ==
  /\ OnlyOwner(caller)
  /\ paused
  /\ Consume(<<"RESUME_NEW_MARKETS">>)
  /\ paused' = FALSE
  /\ UNCHANGED <<now, roleVars, launchers, roots, rootFactories, registrar, recorded, delistedAt, heldSince>>

SetExternalHook(caller, h) ==
  /\ OnlyOwner(caller)
  /\ CheckRecord(h)
  /\ ConsumeAfter(<<"RECORD_EXTERNAL_HOOK", h>>, delistedAt[h])
  /\ recorded' = recorded \cup {h}
  /\ UNCHANGED <<now, roleVars, paused, launchers, roots, rootFactories, registrar, delistedAt, heldSince>>

DropExternalHookRecord(caller, h) ==
  /\ OnlyBrake(caller)
  /\ recorded' = recorded \ {h}
  /\ delistedAt' = [delistedAt EXCEPT ![h] = now]
  /\ UNCHANGED <<now, readyAt, roleVars, paused, launchers, roots, rootFactories, registrar, heldSince>>

MarketAction(caller) ==
  \/ \E l \in Launchers :
       \/ \E on \in BOOLEAN : SetLauncher(caller, l, on)
       \/ DeactivateLauncher(caller, l)
  \/ \E r \in Roots :
       \/ RegisterRoot(caller, r)
       \/ RetireRoot(caller, r)
       \/ FreezeRoot(caller, r)
       \/ CloseRoot(caller, r)
       \/ ReopenRoot(caller, r)
  \/ \E f \in Factories :
       \/ \E on \in BOOLEAN : SetRootFactory(caller, f, on)
       \/ DeactivateRootFactory(caller, f)
  \/ PauseNewMarkets(caller)
  \/ ResumeNewMarkets(caller)
  \/ \E h \in Hooks :
       \/ SetExternalHook(caller, h)
       \/ DropExternalHookRecord(caller, h)

=============================================================================
