-------------------------- MODULE MCHookrRevenueToken --------------------------
(* Instances of HookrRevenueToken for TLC.  A behaviour looks at the history *)
(* (x and the PoolManager trade, a unit is dropped in a block or not), at    *)
(* the drops of one currency, at a box that strays reach and of which one    *)
(* currency may shrink, or at the income of one asset, in one block.         *)
EXTENDS HookrRevenueTokenProperties

\* Model values.
CONSTANTS x, y,         \* holders
          pm,           \* the PoolManager
          eth, usd, mem \* ETH, an asset that may be slashed, a currency that rebases

CONSTANT Focuses \* the parts a run looks at

VARIABLE focus

\* Everything to one, or one share to each holder and the rest to the PoolManager.
Mints == {[a \in Accounts |-> IF a = h THEN ShareSupply ELSE 0] : h \in {x, pm}}
  \cup {[a \in Accounts |-> IF a = pm THEN ShareSupply - 2 ELSE 1]}

OnlyDropped(c) == \A d \in Currencies \ {c} : boxHeld'[d] = 0

InFocus ==
  /\ focus = "history" =>
       /\ UNCHANGED <<now, cash, claimed>> /\ {balance'[x], balance'[pm]} \subseteq {0, ShareSupply}
       /\ balance'[y] = 0 /\ (accounts' # accounts => balance' # balance)
       /\ block > 3 /\ balance' # balance => Current(earning).key # block
       /\ OnlyDropped(eth) /\ boxHeld'[eth] = Len(drops')
       /\ \A i, j \in DOMAIN drops' : i # j => drops'[i].snapshotBlock # drops'[j].snapshotBlock
  /\ focus # "history" => (live' /\ ~live => block = 1 /\ (focus = "income" \/ balance'[y] = 1))
  /\ focus = "drops" =>
       /\ UNCHANGED <<now, cash>> /\ OnlyDropped(eth) /\ boxHeld' = owedOf' /\ block' <= 3
       /\ \A i \in DOMAIN drops' : drops'[i].amount = 3 /\ drops'[i].snapshotBlock = i
  /\ focus = "box" =>
       /\ UNCHANGED <<now, cash>> /\ (\E c \in Currencies : OnlyDropped(c)) /\ block' <= 2 /\ Len(drops') <= 2
       /\ live => UNCHANGED balance
  /\ focus \in {"income", "slashing"} => UNCHANGED <<block, boxHeld>> /\ (live => balance'[y] = balance[y])
  /\ focus = "income" => cash'[usd] = 0
  /\ focus = "slashing" => cash'[eth] = 0 /\ now' <= 2

MCInit == Init /\ focus \in Focuses

MCNext == Next /\ InFocus /\ UNCHANGED focus

MCSpec == MCInit /\ [][MCNext]_<<vars, focus>>

=============================================================================
