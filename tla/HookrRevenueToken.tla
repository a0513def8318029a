--------------------------- MODULE HookrRevenueToken ---------------------------
(* A revenue token with its drop box: the shares and their history, the      *)
(* drops and the streamed income, each module's part of one transaction      *)
(* taken together.  block.number and block.timestamp are two clocks: on the  *)
(* chain the token runs on, the number is the parent chain's.                *)
EXTENDS HookrDropBox, HookrIncomeLedger

CONSTANTS Allocations, \* what a seal may mint
          Parts,       \* shares moved at once
          Amounts      \* amounts dropped, deposited, pushed or rebased

ASSUME AllocationAssumption == Allocations \subseteq [Accounts -> Nat]

ASSUME AmountsAssumption == Amounts \subseteq Nat

vars == <<sharesVars, boxVars, incomeVars>>

Init == SharesInit /\ DropBoxInit /\ IncomeInit

\* seal, by the tokenizer, once.
Seal(amounts) == MintAll(amounts) /\ UNCHANGED <<boxVars, incomeVars>>

\* transfer, transferFrom and the transfers by signature.
Transfer(from, to, value) ==
  Move(from, to, value) /\ SettleBoth(from, to) /\ UNCHANGED boxVars

\* The token's dropStray: what it holds of a currency that is none of its assets.
DropTokenStray(asset, amount) == asset \notin Assets /\ DropStray(asset, amount)

Shares ==
  \/ NextBlock /\ UNCHANGED <<boxVars, incomeVars>>
  \/ \E amounts \in Allocations : Seal(amounts)

Box ==
  /\ UNCHANGED incomeVars
  /\ \/ \E c \in Currencies, n \in Amounts :
          \/ Drop(c, n)
          \/ DropTokenStray(c, n)
          \/ ArriveAtBox(c, n)
          \/ ShrinkAtBox(c, n)
     \/ \E c \in Currencies : DropStray(c, 0)
     \/ \E h \in Accounts, i \in DropIds : ClaimDrop(h, i)

Income ==
  /\ UNCHANGED boxVars
  /\ \/ NextSecond \/ Poke
     \/ \E pulled \in [Assets -> Amounts \cup {0}] : Sync(pulled)
     \/ \E a \in Assets, n \in Amounts : DepositBonus(a, n) \/ Arrive(a, n) \/ Shrink(a, n)
     \/ \E h \in Accounts, a \in Assets : Claim(h, {a})
     \/ \E h \in Accounts : Claim(h, Assets)

Next ==
  \/ Shares \/ Box \/ Income
  \/ \E from, to \in Accounts, n \in Parts : Transfer(from, to, n)

Spec == Init /\ [][Next]_vars

=============================================================================
