--------------------------- MODULE RegistryQuotes ----------------------------
(* The part of HookrRegistry that says which assets a new pool may be quoted *)
(* in (the catalog, the quote classes, any-quote mode, the per-asset brake)  *)
(* and which currencies a recapture may settle in.  The catalog, the class   *)
(* list and the settlement set are arrays with a 1-based index beside them,  *)
(* and a member leaves by swap and pop: both halves are kept here.           *)
EXTENDS RegistryTimelock, Sequences

CONSTANTS Assets,        \* ERC-20 quote assets
          Currencies,    \* addresses considered for the settlement set
          Classes,       \* runtime codehashes
          ClassOf,       \* an asset's runtime codehash
          MaxSettlement  \* HookrRegistryChecks.MAX_SETTLEMENT

ASSUME QuoteAssumption ==
  /\ MaxSettlement \in Nat \ {0}
  /\ ClassOf \in [Assets -> Classes]
  /\ NoOne \notin Assets

\* address(0) is native ETH.  The constructor seeds it; WETH and USDG join it
\* only on the one chain where their addresses hold code.
Native == NoOne

VARIABLES catalog,          \* [list, position]: State.quotes, State.quotePosition
          classes,          \* [list, position]: QuoteState.classes, .classPosition
          classDroppedAt,   \* QuoteState.classDroppedAt
          anyQuote,         \* QuoteState.anyQuote
          anyQuoteStoppedAt,\* QuoteState.anyQuoteStoppedAt
          braked,           \* QuoteState.brakes[asset].braked, as a set
          lastBrakeAt,      \* QuoteState.brakes[asset].lastBrakeAt
          settlement,       \* [list, position]: Settlement.currencies, .position
          removedAt         \* Settlement.removedAt

quoteVars ==
  <<catalog, classes, classDroppedAt, anyQuote, anyQuoteStoppedAt, braked, lastBrakeAt, settlement, removedAt>>

QuoteOperations ==
  {<<"SET_QUOTE", a, on>> : a \in Assets, on \in BOOLEAN}
    \cup {<<"REOPEN_QUOTE", a>> : a \in Assets}
    \cup {<<"SET_QUOTE_CLASS", c>> : c \in Classes}
    \cup {<<"ANY_QUOTE">>}
    \cup {<<"ADD_SETTLEMENT", x>> : x \in Currencies}

-----------------------------------------------------------------------------
(* An indexed set: a list without duplicates and each member's 1-based place *)
(* in it, zero for an address that is not a member.                          *)

EmptyIndex(universe) == [list |-> <<>>, position |-> [x \in universe |-> 0]]

IndexPush(index, x) ==
  [list |-> Append(index.list, x),
   position |-> [index.position EXCEPT ![x] = Len(index.list) + 1]]

\* Fault: the moved member keeps its old position.
IndexDropStale(index, x) ==
  LET length == Len(index.list)
      place == index.position[x]
  IN  IF place = 0
      THEN index
      ELSE [list |-> SubSeq([index.list EXCEPT ![place] = index.list[length]], 1, length - 1),
            position |-> [index.position EXCEPT ![x] = 0]]

\* Swap the last member into x's place, then pop, then clear x's position:
\* the writes in the order of the code, so that dropping the last member
\* writes its position before clearing it.
IndexDrop(index, x) ==
  LET length == Len(index.list)
      place == index.position[x]
      last == index.list[length]
      swapped == [index.list EXCEPT ![place] = last]
      moved == [index.position EXCEPT ![last] = place]
  IN  IF place = 0
      THEN index
      ELSE [list |-> SubSeq(swapped, 1, length - 1),
            position |-> [moved EXCEPT ![x] = 0]]

IsIndexOf(index, universe) ==
  /\ index.list \in Seq(universe)
  /\ index.position \in [universe -> Nat]

Members(index) == {x \in DOMAIN index.position : index.position[x] # 0}

-----------------------------------------------------------------------------

QuoteInit ==
  /\ catalog = EmptyIndex(Assets)
  /\ classes = EmptyIndex(Classes)
  /\ classDroppedAt = [c \in Classes |-> 0]
  /\ anyQuote = FALSE
  /\ anyQuoteStoppedAt = 0
  /\ braked = {}
  /\ lastBrakeAt = [a \in Assets |-> 0]
  /\ settlement = IF Native \in Currencies THEN IndexPush(EmptyIndex(Currencies), Native)
                  ELSE EmptyIndex(Currencies)
  /\ removedAt = [x \in Currencies |-> 0]

QuoteTypeOK ==
  /\ IsIndexOf(catalog, Assets)
  /\ IsIndexOf(classes, Classes)
  /\ classDroppedAt \in [Classes -> Nat]
  /\ anyQuote \in BOOLEAN
  /\ anyQuoteStoppedAt \in Nat
  /\ braked \subseteq Assets
  /\ lastBrakeAt \in [Assets -> Nat]
  /\ IsIndexOf(settlement, Currencies)
  /\ removedAt \in [Currencies -> Nat]

\* Fault: an asset's own brake does not reach its class.
IsQuoteByClass(a) ==
  catalog.position[a] # 0 \/ anyQuote \/ classes.position[ClassOf[a]] # 0

\* isQuote, for an ERC-20 asset that holds its own code and reports a supply.
IsQuote(a) ==
  \/ catalog.position[a] # 0
  \/ /\ a \notin braked
     /\ anyQuote \/ classes.position[ClassOf[a]] # 0

CheckSettlement(x) ==
  /\ settlement.position[x] = 0
  /\ Len(settlement.list) < MaxSettlement

CheckQuoteClass(c) == classes.position[c] = 0

CheckQuoteOperation(op) ==
  /\ op[1] = "REOPEN_QUOTE" => op[2] \in braked
  /\ op[1] = "SET_QUOTE_CLASS" => CheckQuoteClass(op[2])
  /\ op[1] = "ANY_QUOTE" => ~anyQuote
  /\ op[1] = "ADD_SETTLEMENT" => CheckSettlement(op[2])

-----------------------------------------------------------------------------

\* Fault: a listing queued before the asset's brake still lifts it.
SetQuoteDespiteBrake(caller, a, on) ==
  /\ OnlyOwner(caller)
  /\ Consume(<<"SET_QUOTE", a, on>>)
  /\ braked' = IF on THEN braked \ {a} ELSE braked
  /\ catalog' = IF ~on THEN IndexDrop(catalog, a)
                ELSE IF catalog.position[a] = 0 THEN IndexPush(catalog, a) ELSE catalog
  /\ UNCHANGED <<now, roleVars, classes, classDroppedAt, anyQuote, anyQuoteStoppedAt, lastBrakeAt, settlement, removedAt>>

SetQuote(caller, a, on) ==
  /\ OnlyOwner(caller)
  /\ ConsumeAfter(<<"SET_QUOTE", a, on>>, IF on THEN lastBrakeAt[a] ELSE 0)
  /\ braked' = IF on THEN braked \ {a} ELSE braked
  /\ catalog' = IF ~on THEN IndexDrop(catalog, a)
                ELSE IF catalog.position[a] = 0 THEN IndexPush(catalog, a) ELSE catalog
  /\ UNCHANGED <<now, roleVars, classes, classDroppedAt, anyQuote, anyQuoteStoppedAt, lastBrakeAt, settlement, removedAt>>

BrakeOneQuote(caller, a) ==
  /\ OnlyBrake(caller)
  /\ catalog' = IndexDrop(catalog, a)
  /\ braked' = braked \cup {a}
  /\ lastBrakeAt' = [lastBrakeAt EXCEPT ![a] = now]
  /\ UNCHANGED <<now, readyAt, roleVars, classes, classDroppedAt, anyQuote, anyQuoteStoppedAt, settlement, removedAt>>

ReopenSingleQuote(caller, a) ==
  /\ OnlyOwner(caller)
  /\ a \in braked
  /\ ConsumeAfter(<<"REOPEN_QUOTE", a>>, lastBrakeAt[a])
  /\ braked' = braked \ {a}
  /\ UNCHANGED <<now, roleVars, catalog, classes, classDroppedAt, anyQuote, anyQuoteStoppedAt, lastBrakeAt, settlement, removedAt>>

InstallQuoteClass(caller, c) ==
  /\ OnlyOwner(caller)
  /\ CheckQuoteClass(c)
  /\ ConsumeAfter(<<"SET_QUOTE_CLASS", c>>, classDroppedAt[c])
  /\ classes' = IndexPush(classes, c)
  /\ UNCHANGED <<now, roleVars, catalog, classDroppedAt, anyQuote, anyQuoteStoppedAt, braked, lastBrakeAt, settlement, removedAt>>

DropQuoteClass(caller, c) ==
  /\ OnlyBrake(caller)
  /\ classes' = IndexDrop(classes, c)
  /\ classDroppedAt' = [classDroppedAt EXCEPT ![c] = now]
  /\ UNCHANGED <<now, readyAt, roleVars, catalog, anyQuote, anyQuoteStoppedAt, braked, lastBrakeAt, settlement, removedAt>>

AuthorizeAnyQuote(caller) ==
  /\ OnlyOwner(caller)
  /\ ~anyQuote
  /\ ConsumeAfter(<<"ANY_QUOTE">>, anyQuoteStoppedAt)
  /\ anyQuote' = TRUE
  /\ UNCHANGED <<now, roleVars, catalog, classes, classDroppedAt, anyQuoteStoppedAt, braked, lastBrakeAt, settlement, removedAt>>

DismissAnyQuote(caller) ==
  /\ OnlyBrake(caller)
  /\ anyQuote' = FALSE
  /\ anyQuoteStoppedAt' = now
  /\ UNCHANGED <<now, readyAt, roleVars, catalog, classes, classDroppedAt, braked, lastBrakeAt, settlement, removedAt>>

AddSettlementCurrency(caller, x) ==
  /\ OnlyOwner(caller)
  /\ CheckSettlement(x)
  /\ ConsumeAfter(<<"ADD_SETTLEMENT", x>>, removedAt[x])
  /\ settlement' = IndexPush(settlement, x)
  /\ UNCHANGED <<now, roleVars, catalog, classes, classDroppedAt, anyQuote, anyQuoteStoppedAt, braked, lastBrakeAt, removedAt>>

RemoveSettlementCurrency(caller, x) ==
  /\ OnlyBrake(caller)
  /\ settlement' = IndexDrop(settlement, x)
  /\ removedAt' = [removedAt EXCEPT ![x] = now]
  /\ UNCHANGED <<now, readyAt, roleVars, catalog, classes, classDroppedAt, anyQuote, anyQuoteStoppedAt, braked, lastBrakeAt>>

QuoteAction(caller) ==
  \/ \E a \in Assets :
       \/ \E on \in BOOLEAN : SetQuote(caller, a, on)
       \/ BrakeOneQuote(caller, a)
       \/ ReopenSingleQuote(caller, a)
  \/ \E c \in Classes :
       \/ InstallQuoteClass(caller, c)
       \/ DropQuoteClass(caller, c)
  \/ AuthorizeAnyQuote(caller)
  \/ DismissAnyQuote(caller)
  \/ \E x \in Currencies :
       \/ AddSettlementCurrency(caller, x)
       \/ RemoveSettlementCurrency(caller, x)

=============================================================================
