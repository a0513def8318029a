--------------------------- MODULE MCHookrRegistry ----------------------------
(* Instances of HookrRegistry for TLC.  Every behaviour looks at one part of *)
(* the contract, chosen at the start: the owner queues the operations of     *)
(* that part only, the tables of the other parts stay as they are, and the   *)
(* clock stops at the part's horizon.  One run covers several parts.         *)
EXTENDS HookrRegistryProperties

\* Model values.
CONSTANTS o, g, n,        \* owner, guardian, another account
          l1, r1, r2, p1, w1, f1, h1, a1, a2, c1, c2, e1, m1, m2, m3, b1

MCClassOf == [a \in Assets |-> c1]

\* Rules modules answer to one root: m1 to r1, m3 (a companion) to w1.
MCTrustedRoot ==
  [m \in Modules |-> CASE m = m1 -> r1 [] m = m3 -> w1 [] OTHER -> NoOne]

MarketAgenda == {<<"SET_LAUNCHER", l1, TRUE>>, <<"SET_LAUNCHER", l1, FALSE>>, <<"RESUME_NEW_MARKETS">>}

RootAgenda ==
  {<<"REGISTER_ROOT", r1>>, <<"RETIRE_ROOT", r1>>, <<"REOPEN_ROOT", r1>>, <<"RECORD_EXTERNAL_HOOK", r1>>}

FactoryAgenda ==
  {<<"SET_ROOT_FACTORY", f1, TRUE>>, <<"SET_ROOT_FACTORY", f1, FALSE>>, <<"RECORD_EXTERNAL_HOOK", p1>>}

QuoteAgenda == {<<"SET_QUOTE", a1, TRUE>>, <<"REOPEN_QUOTE", a1>>, <<"ANY_QUOTE">>}

ClassAgenda ==
  {<<"SET_QUOTE_CLASS", c1>>, <<"SET_QUOTE", a1, FALSE>>, <<"ADD_SETTLEMENT", a1>>}

IndexAgenda ==
  {<<"ADD_SETTLEMENT", x>> : x \in {a1, a2, NoOne}}

LaneAgenda ==
  {<<"REGISTER_ROOT", r1>>} \cup {<<kind, r1, e1, gas>> : kind \in {"OPEN_LANE", "LANE_ON"}, gas \in {2}}

AllKinds == {Rules, Advisory, Gate}

AdmissionAgenda ==
  {<<"REGISTER_ROOT", r1>>, <<"ADMIT", r1, m1, Rules>>, <<"ADMIT", r1, m2, Gate>>,
   <<"ADMIT", m1, m2, Rules>>, <<"SET_ADMISSION_BOND", r1, m1, b1>>}

OwnedAgenda ==
  {<<"REGISTER_ROOT", r1>>, <<"SET_ROOT_FACTORY", f1, TRUE>>, <<"ADMIT", r1, m1, Rules>>,
   <<"ADMIT", r1, m2, Gate>>, <<"ADMIT", w1, m2, Gate>>}

OwnedLaneAgenda ==
  {<<"REGISTER_ROOT", r1>>, <<"SET_ROOT_FACTORY", f1, TRUE>>, <<"ADMIT", r1, m1, Rules>>,
   <<"OPEN_LANE", r1, e1, 1>>, <<"LANE_ON", w1, e1, 1>>}

GuardianAgenda ==
  {<<"REGISTER_ROOT", r1>>, <<"ADMIT", r1, m1, Rules>>, <<"SET_GUARDIAN", g>>, <<"TRANSFER_OWNER", g>>}

-----------------------------------------------------------------------------

CONSTANT Focuses \* the parts a run looks at

VARIABLE focus

Agendas ==
  [markets |-> MarketAgenda, roots |-> RootAgenda, factories |-> FactoryAgenda,
   quotes |-> QuoteAgenda, classes |-> ClassAgenda, indexes |-> IndexAgenda,
   lanes |-> LaneAgenda, admissions |-> AdmissionAgenda, owned |-> OwnedAgenda,
   ownedLane |-> OwnedLaneAgenda, roles |-> GuardianAgenda]

Horizon ==
  [markets |-> 4, roots |-> 4, factories |-> 4, quotes |-> 4, classes |-> 3, indexes |-> 2,
   lanes |-> 4, admissions |-> 4, owned |-> 3, ownedLane |-> 3, roles |-> 3]

AgendaOfFocuses == UNION {Agendas[f] : f \in Focuses}

OfMarkets == focus \in {"markets", "roots", "factories"}
OfQuotes == focus \in {"quotes", "classes", "indexes"}
OfAdmissions == focus \in {"admissions", "owned", "ownedLane", "roles"}

Watched ==
  CASE focus = "markets" -> {<<"launcher", l1>>, <<Markets>>}
    [] focus = "roots" -> {<<"root", r1>>}
    [] OTHER -> {<<"factory", f1>>, <<"root", p1>>}

InFocus ==
  /\ {op \in Operations : readyAt'[op] # 0} \subseteq Agendas[focus]
  /\ now' <= Horizon[focus]
  /\ focus # "markets" => UNCHANGED <<paused, launchers>>
  /\ focus \in {"markets", "factories"} => roots'[r1] = roots[r1]
  /\ focus \notin {"factories", "owned", "ownedLane"} => UNCHANGED rootFactories
  /\ OfQuotes => UNCHANGED marketVars
  /\ OfMarkets => \A s \in UntimedSwitches \ Watched : heldSince'[s] = heldSince[s]
  /\ OfQuotes \/ UNCHANGED quoteVars
  /\ focus = "quotes" => UNCHANGED <<settlement, removedAt, classes, classDroppedAt>>
  /\ focus = "classes" => UNCHANGED <<anyQuote, anyQuoteStoppedAt>> /\ NoOne \in Members(settlement)'
  /\ focus = "indexes" => UNCHANGED <<braked, lastBrakeAt, classes, classDroppedAt, anyQuote, anyQuoteStoppedAt>>
  /\ focus = "ownedLane" =>
       /\ revoked' = revoked
       /\ ~roots[r1].closed' /\ switches[r1][e1].brakedAt' = 0
  /\ focus \in {"lanes", "ownedLane"} \/ UNCHANGED laneVars
  /\ OfAdmissions \/ UNCHANGED admissionVars
  /\ focus \notin {"admissions", "owned"} => UNCHANGED covering

MCInit == Init /\ focus \in Focuses

MCNext == Next /\ InFocus /\ UNCHANGED focus

MCSpec == MCInit /\ [][MCNext]_<<vars, focus>>

=============================================================================
