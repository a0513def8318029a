----------------------- MODULE HookrRegistryProperties ------------------------
(* What HookrRegistry must guarantee, stated over its whole state.           *)
EXTENDS HookrRegistry

\* When a queued operation was announced: queue() wrote readyAt = time + delay.
AnnouncedAt(op) == IF readyAt[op] = 0 THEN 0 ELSE readyAt[op] - Delay

-----------------------------------------------------------------------------
(* The brakes that leave no timestamp.                                       *)

\* The one operation that can undo each untimed brake.
LiftOf(switch) ==
  CASE switch[1] = Markets -> <<"RESUME_NEW_MARKETS">>
    [] switch[1] = "launcher" -> <<"SET_LAUNCHER", switch[2], TRUE>>
    [] switch[1] = "factory" -> <<"SET_ROOT_FACTORY", switch[2], TRUE>>
    [] switch[1] = "root" -> <<"REOPEN_ROOT", switch[2]>>

Withdrawn(switch) ==
  CASE switch[1] = Markets -> paused
    [] switch[1] = "launcher" -> switch[2] \notin launchers
    [] switch[1] = "factory" -> switch[2] \notin rootFactories
    [] switch[1] = "root" -> roots[switch[2]].closed

\* No operation that undoes a brake can be waiting while the permission is in
\* force, ready to undo the next brake the moment it falls; and one that waits
\* while a brake holds was queued no earlier than that brake.  The brakes
\* without a timestamp rest on this alone.
NoLiftAheadOfBrake ==
  \A s \in UntimedSwitches :
    readyAt[LiftOf(s)] # 0 =>
      Withdrawn(s) /\ readyAt[LiftOf(s)] >= heldSince[s] + Delay

\* The registry's promise for pauseNewMarkets, deactivateLauncher,
\* deactivateRootFactory and closeRoot: a brake holds for one full delay,
\* whatever was queued, matured or cancelled before it fell.
UntimedBrakesHold ==
  \A s \in UntimedSwitches :
    heldSince[s] # 0 /\ now < heldSince[s] + Delay => Withdrawn(s)

-----------------------------------------------------------------------------
(* The position indexes and the lanes.                                       *)

\* An array and the 1-based index beside it name the same members in the same
\* places, after any sequence of pushes and swap-and-pop removals.
Agrees(index) ==
  /\ \A i \in 1..Len(index.list) : index.position[index.list[i]] = i
  /\ \A x \in DOMAIN index.position :
       index.position[x] # 0 =>
         /\ index.position[x] \in 1..Len(index.list)
         /\ index.list[index.position[x]] = x

\* The catalog, the class list and the settlement set stay consistent, and the
\* settlement set never outgrows its cap.
IndexesAgree ==
  /\ Agrees(catalog)
  /\ Agrees(classes)
  /\ Agrees(settlement)
  /\ Len(settlement.list) <= MaxSettlement

\* A closed lane stays closed for a full delay.
LaneClosed ==
  \A r \in Roots :
    lanes[r].closedAt # 0 /\ now < lanes[r].closedAt + Delay => lanes[r].executor = NoOne

\* An executor's switch becomes more permissive (on, or on with more gas) by a
\* matured opening or switch-on announced after its last brake.
ExecutorWidensByLift ==
  \A r \in Roots, e \in Executors :
    LET s == switches[r][e]
        t == switches'[r][e]
    IN  t.on /\ (~s.on \/ t.gasCap > s.gasCap) =>
          \E kind \in {"OPEN_LANE", "LANE_ON"}, g \in GasCaps :
            /\ readyAt[<<kind, r, e, g>>] > s.brakedAt + Delay
            /\ now >= readyAt[<<kind, r, e, g>>]
            /\ readyAt'[<<kind, r, e, g>>] = 0

\* Closing a root's lane holds for a full delay, for every executor and gas cap
\* an opening may name, and an executor's switch widens only by a matured
\* operation of its own on that root, announced after its last brake.  The copy
\* of a template's lane onto an owned root never does it.
LaneBrakesHold == [][ExecutorWidensByLift /\ LaneClosed']_vars

-----------------------------------------------------------------------------
(* Refinement: each encoding of a brake implements BrakedSwitches.           *)

Announcements(lifts) == [l \in lifts |-> AnnouncedAt(l)]

RecordSwitches == {<<"record", h>> : h \in Hooks}
MarketSwitches == UntimedSwitches \cup RecordSwitches
MarketLifts ==
  [s \in MarketSwitches |->
     IF s \in RecordSwitches THEN {<<"RECORD_EXTERNAL_HOOK", s[2]>>} ELSE {LiftOf(s)}]

MarketSwitch ==
  INSTANCE BrakedSwitches WITH
    Switches <- MarketSwitches,
    LiftsOf <- MarketLifts,
    on <- [s \in MarketSwitches |-> IF s \in RecordSwitches THEN s[2] \in recorded ELSE ~Withdrawn(s)],
    brakedAt <- [s \in MarketSwitches |-> IF s \in RecordSwitches THEN delistedAt[s[2]] ELSE heldSince[s]],
    announcedAt <- Announcements(UNION {MarketLifts[s] : s \in MarketSwitches})

QuoteSwitches ==
  {<<"asset", a>> : a \in Assets} \cup {<<"class", c>> : c \in Classes}
    \cup {<<"any">>} \cup {<<"settlement", x>> : x \in Currencies}

QuoteLifts ==
  [s \in QuoteSwitches |->
     CASE s[1] = "asset" -> {<<"SET_QUOTE", s[2], TRUE>>, <<"REOPEN_QUOTE", s[2]>>}
       [] s[1] = "class" -> {<<"SET_QUOTE_CLASS", s[2]>>}
       [] s[1] = "any" -> {<<"ANY_QUOTE">>}
       [] s[1] = "settlement" -> {<<"ADD_SETTLEMENT", s[2]>>}]

QuoteSwitch ==
  INSTANCE BrakedSwitches WITH
    Switches <- QuoteSwitches,
    LiftsOf <- QuoteLifts,
    on <- [s \in QuoteSwitches |->
             CASE s[1] = "asset" -> s[2] \notin braked
               [] s[1] = "class" -> classes.position[s[2]] # 0
               [] s[1] = "any" -> anyQuote
               [] s[1] = "settlement" -> settlement.position[s[2]] # 0],
    brakedAt <- [s \in QuoteSwitches |->
             CASE s[1] = "asset" -> lastBrakeAt[s[2]]
               [] s[1] = "class" -> classDroppedAt[s[2]]
               [] s[1] = "any" -> anyQuoteStoppedAt
               [] s[1] = "settlement" -> removedAt[s[2]]],
    announcedAt <- Announcements(UNION {QuoteLifts[s] : s \in QuoteSwitches})

\* The pause, the launchers, the root factories, the root closures and the
\* external-hook records are braked switches.  So are each asset's quote brake,
\* the quote classes, any-quote mode and the settlement set, although an asset's
\* brake has two kinds of operation that lift it.
BrakesImplementSwitches == MarketSwitch!SwitchSpec /\ QuoteSwitch!SwitchSpec

-----------------------------------------------------------------------------
(* Roots, records and admissions.                                            *)

\* An admission is written once, keeps its terms, and ends only by a revocation
\* that is never undone; a bond is attached once and for good.
AdmissionStep ==
  \A s \in Scopes, m \in Modules :
    /\ admissions[s][m] # None =>
         \/ admissions'[s][m] = admissions[s][m]
         \/ admissions'[s][m] = None /\ <<s, m>> \in revoked'
    /\ <<s, m>> \in revoked => admissions'[s][m] = None /\ <<s, m>> \in revoked'
    /\ bondOf[s][m] # NoOne => bondOf'[s][m] = bondOf[s][m]

AdmissionLifecycle == [][AdmissionStep]_vars

\* Freezing a root seals it for good: no admission is added to it or to the
\* part scopes of its Rules modules, and only an owned root's lane can open.
FreezeStep ==
  \A r \in Roots : roots[r].frozen =>
    /\ roots'[r].frozen
    /\ \A s \in {r} \cup {p \in Modules : TrustedRoot[p] = r}, m \in Modules :
         admissions[s][m] = None => admissions'[s][m] = None
    /\ registrar[r] = NoOne => lanes'[r].executor \in {lanes[r].executor, NoOne}

FreezeSeals == [][FreezeStep]_vars

-----------------------------------------------------------------------------
(* Authority.                                                                *)

\* Nothing becomes more permissive in this step.
OnlyRestricts ==
  /\ \A r \in Roots : RootOpen(r)' => RootOpen(r)
  /\ launchers' \subseteq launchers
  /\ rootFactories' \subseteq rootFactories
  /\ recorded' \subseteq recorded
  /\ \A a \in Assets : IsQuote(a)' => IsQuote(a)
  /\ Members(settlement)' \subseteq Members(settlement)
  /\ \A r \in Roots, e \in Executors :
       /\ switches'[r][e].on => switches[r][e].on
       /\ switches'[r][e].gasCap <= switches[r][e].gasCap
       /\ lanes'[r].executor \in {lanes[r].executor, NoOne}
  /\ \A s \in Scopes, m \in Modules : admissions'[s][m] \in {admissions[s][m], None}
  /\ \A op \in Operations : readyAt'[op] \in {readyAt[op], 0}
  /\ guardian' = guardian

\* What an account other than the owner does, the guardian included, never
\* opens anything, and never revokes on a frozen root, where nothing could be
\* admitted in its place.
GuardianStep ==
  \A c \in Accounts : c # owner /\ By(c) =>
    /\ OnlyRestricts
    /\ \A r \in Roots : roots[r].frozen =>
         /\ admissions'[r] = admissions[r]
         /\ \A p \in Modules :
              TrustedRoot[p] = r /\ admissions[r][p] = Rules => admissions'[p] = admissions[p]

GuardianOnlyRestricts == [][GuardianStep]_vars

=============================================================================
