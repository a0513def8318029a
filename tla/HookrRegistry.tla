---------------------------- MODULE HookrRegistry ----------------------------
(* The whole registry: the timelock with its markets, quotes, lanes and      *)
(* admissions.  Every operation of the contract that writes state is an      *)
(* action here.  Operations of one part leave the others unchanged; owned    *)
(* root registration is the one that writes several parts at once.           *)
EXTENDS RegistryQuotes, RegistryLanes, RegistryAdmissions

CONSTANT Agenda \* bound: the operations the owner may queue in an instance

vars == <<timelockVars, marketVars, quoteVars, laneVars, admissionVars>>

Operations ==
  GovernanceOperations \cup MarketOperations \cup QuoteOperations
    \cup LaneOperations \cup AdmissionOperations

ASSUME AgendaAssumption == Agenda \subseteq Operations

CheckQueued(op) ==
  /\ CheckMarketOperation(op)
  /\ CheckQuoteOperation(op)
  /\ CheckLaneOperation(op)
  /\ CheckAdmissionOperation(op)

Queue(caller, op) ==
  /\ OnlyOwner(caller)
  /\ CheckQueued(op)
  /\ Announce(op)
  /\ UNCHANGED <<now, roleVars, marketVars, quoteVars, laneVars, admissionVars>>

\* Called by the owned-root factory in the transaction that deploys the root
\* and its companion.
RegisterOwnedRoot(f, r, template, templateRules, companion, copies) ==
  /\ r \in OwnedRoots
  /\ f \in rootFactories
  /\ ~paused
  /\ roots[template].active
  /\ ~roots[template].closed
  /\ roots[template].factory = NoOne
  /\ registrar[template] = NoOne
  /\ ~roots[r].registered
  /\ r \notin recorded
  /\ roots' = [roots EXCEPT ![r] =
       [Unregistered EXCEPT !.registered = TRUE, !.active = TRUE, !.frozen = TRUE]]
  /\ registrar' = [registrar EXCEPT ![r] = f]
  /\ CopyAdmissions(r, template, templateRules, companion, copies)
  /\ CopyLane(r, template)
  /\ UNCHANGED <<timelockVars, paused, launchers, rootFactories, recorded, delistedAt, heldSince, quoteVars>>

-----------------------------------------------------------------------------

Init ==
  /\ TimelockInit(Operations)
  /\ MarketInit
  /\ QuoteInit
  /\ LaneInit
  /\ AdmissionInit

\* What one account can make the registry do.
By(caller) ==
  \/ \E op \in Agenda : Queue(caller, op)
  \/ /\ \/ \E op \in Operations : Cancel(caller, op)
        \/ Governance(caller)
     /\ UNCHANGED <<marketVars, quoteVars, laneVars, admissionVars>>
  \/ MarketAction(caller) /\ UNCHANGED <<quoteVars, laneVars, admissionVars>>
  \/ QuoteAction(caller) /\ UNCHANGED <<marketVars, laneVars, admissionVars>>
  \/ LaneAction(caller) /\ UNCHANGED <<quoteVars, admissionVars>>
  \/ AdmissionAction(caller) /\ UNCHANGED <<quoteVars, laneVars>>

\* The factories' calls, which any user of a factory can trigger.
ByFactory ==
  \E f \in Factories :
    \/ /\ \E r \in PairRoots : RegisterFactoryRoot(f, r)
       /\ UNCHANGED <<quoteVars, laneVars, admissionVars>>
    \/ \E r \in OwnedRoots, template \in Roots, rules, companion \in Modules :
         \E copies \in SUBSET Modules : RegisterOwnedRoot(f, r, template, rules, companion, copies)

Environment ==
  \/ Tick /\ UNCHANGED <<marketVars, quoteVars, laneVars, admissionVars>>
  \/ \E b \in Bonds : BondTurns(b) /\ UNCHANGED <<quoteVars, laneVars>>

Next ==
  \/ \E caller \in Accounts : By(caller)
  \/ ByFactory
  \/ Environment

Spec == Init /\ [][Next]_vars

-----------------------------------------------------------------------------

TypeOK ==
  /\ TimelockTypeOK(Operations)
  /\ MarketTypeOK
  /\ QuoteTypeOK
  /\ LaneTypeOK
  /\ AdmissionTypeOK

=============================================================================
