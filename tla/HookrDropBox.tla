------------------------------ MODULE HookrDropBox ------------------------------
(* The drop box of a revenue token (HookrDropBox.sol, HookrDropHost.sol):    *)
(* anyone drops a currency for the holders, and each holder claims its share *)
(* of each drop by its balance at the end of the block before.  Every entry  *)
(* point holds the transient lock, so the code a payment runs can call none. *)
(* A claim by signature is the holder's claim sent by somebody else.         *)
(* Transfers of the currencies are exact; a rebasing one may grow or shrink  *)
(* at any time.                                                              *)
EXTENDS HookrBalanceHistory

CONSTANTS Currencies, \* what may be dropped: ETH and any ERC-20 but the token itself
          Rebasing,   \* those whose balances may shrink by themselves
          MaxDrops,   \* bound on the number of drops
          MaxHeld     \* bound on what the box holds of one currency

ASSUME DropAssumption ==
  Rebasing \subseteq Currencies /\ MaxDrops \in Nat /\ MaxHeld \in Nat

VARIABLES
  drops,   \* _drops
  claimed, \* the pairs of a drop and a holder that claimed it
  owedOf,  \* _owedOf: what the drops of a currency still owe
  boxHeld  \* what the box holds of a currency

boxVars == <<drops, claimed, owedOf, boxHeld>>

DropIds == DOMAIN drops

DropBoxInit ==
  /\ drops = <<>> /\ claimed = {}
  /\ owedOf = [c \in Currencies |-> 0] /\ boxHeld = [c \in Currencies |-> 0]

\* A holder's share of a drop, by its balance at the snapshot and rounded down.
Share(d, holder) == (BalanceAt(holder, d.snapshotBlock) * d.amount) \div d.earningSupply

\* What a claim pays of it: no more than the drop still holds.
Owed(d, holder) ==
  IF Share(d, holder) > d.amount - d.paid THEN d.amount - d.paid ELSE Share(d, holder)

\* _record: the token's snapshot, whose supply must not be zero, and the drop.
RecordDrop(asset, amount) ==
  LET supply == EarningSupplyAt(block - 1)
  IN  /\ Len(drops) < MaxDrops /\ supply # 0
      /\ RecordSnapshot
      /\ drops' = Append(drops, [asset |-> asset, snapshotBlock |-> block - 1,
                                 amount |-> amount, earningSupply |-> supply, paid |-> 0])
      /\ owedOf' = [owedOf EXCEPT ![asset] = @ + amount]
      /\ UNCHANGED claimed

Drop(asset, amount) ==
  /\ amount > 0 /\ boxHeld[asset] + amount <= MaxHeld
  /\ RecordDrop(asset, amount)
  /\ boxHeld' = [boxHeld EXCEPT ![asset] = @ + amount]

\* Fault: everything the box holds becomes a drop.
DropStrayAll(asset, arriving) ==
  LET held == boxHeld[asset] + arriving
  IN  /\ held > owedOf[asset] /\ held <= MaxHeld
      /\ RecordDrop(asset, held)
      /\ boxHeld' = [boxHeld EXCEPT ![asset] = held]

\* What the box holds above what its drops owe becomes a drop; arriving is what the
\* token's own dropStray sends along.
DropStray(asset, arriving) ==
  LET held == boxHeld[asset] + arriving
  IN  /\ held > owedOf[asset] /\ held <= MaxHeld
      /\ RecordDrop(asset, held - owedOf[asset])
      /\ boxHeld' = [boxHeld EXCEPT ![asset] = held]

\* claim and claimWithSig, of one drop.  A call that lists several is as many claims
\* in a row, with the payee's code run after each, and leaves no trace if one fails.
ClaimDrop(holder, i) ==
  LET due == Owed(drops[i], holder)
      asset == drops[i].asset
  IN  /\ <<i, holder>> \notin claimed /\ due # 0 /\ due <= boxHeld[asset]
      /\ claimed' = claimed \cup {<<i, holder>>}
      /\ drops' = [drops EXCEPT ![i].paid = @ + due]
      /\ owedOf' = [owedOf EXCEPT ![asset] = @ - due]
      /\ boxHeld' = [boxHeld EXCEPT ![asset] = @ - due]
      /\ UNCHANGED sharesVars

\* A plain transfer to the box, or a rebase up.
ArriveAtBox(asset, amount) ==
  /\ boxHeld[asset] + amount <= MaxHeld
  /\ boxHeld' = [boxHeld EXCEPT ![asset] = @ + amount]
  /\ UNCHANGED <<drops, claimed, owedOf>> /\ UNCHANGED sharesVars

\* A rebase down.
ShrinkAtBox(asset, amount) ==
  /\ asset \in Rebasing /\ amount <= boxHeld[asset]
  /\ boxHeld' = [boxHeld EXCEPT ![asset] = @ - amount]
  /\ UNCHANGED <<drops, claimed, owedOf>> /\ UNCHANGED sharesVars

=============================================================================
