---------------------------- MODULE HookrRecapture ----------------------------
(* What the Rules of one arb-recapture pool keep: claims per beneficiary,    *)
(* the liquidity owner's accrual, the LP shares that wait to be donated and  *)
(* the King of the Pool's epoch, with the root's calls that reach them.      *)
(*                                                                           *)
(* rules is the contract's storage for the pool, and each private function   *)
(* of the code is an operator from one such record to the next, as the code  *)
(* passes its storage pointer along.  Rates are over one scale, Bps.  Other  *)
(* pools of the same Rules add to both sides of the same ledger.             *)
EXTENDS Naturals, FiniteSetsExt, Functions

CONSTANTS Currencies, Quote,
          PoolCurrencies, \* the pool's two currencies
          Accounts, ProtocolRecipient, Integrator, RoyaltyTo, LiquidityOwner, NoOne,
          Bps,            \* 10,000 in the code
          ProtocolBps,    \* RECAPTURE_PROTOCOL_BPS
          PartnerBps,     \* the executor's frozen share
          TraderBps, PotBps, RoyaltyBps, IntegratorBps,
          ReleaseBlocks, PerSecond, \* PerSecond is L2_PER_SECOND, 10
          Period, MaxPrizeBps, PotReleaseBps, FullRelease, MinBuy,
          MaxPart,        \* type(int128).max, for a pending part and for one payment
          FlushMayFail,   \* a flush may fail: the root's call fails open
          HasSiblings,    \* the pool is a member of a family with several lane pools
          Watched,        \* the history follows one position
          Buyers,         \* bound: the accounts that swap
          Pushed,         \* bound: the currencies that are pushed and swept
          Amounts, Spends, \* bounds: what a push and a spend may be
          Fees,           \* bound: what a leg's advisory may take
          Settlements,    \* bound: the fees and refunds the root asks to be settled
          MaxOwed,        \* bound: no currency owes more
          MaxBlock, MaxSecond \* bounds: the clocks stop here

Beneficiaries == Accounts \cup {ProtocolRecipient, Integrator, RoyaltyTo, LiquidityOwner}

ASSUME CurrencyAssumption == Quote \in PoolCurrencies /\ PoolCurrencies \subseteq Currencies
ASSUME AccountAssumption == Buyers \subseteq Accounts /\ NoOne \notin Beneficiaries /\ IsFiniteSet(Accounts)
ASSUME RateAssumption ==
  /\ {ProtocolBps, TraderBps, PotBps, RoyaltyBps, IntegratorBps, PotReleaseBps, MaxPrizeBps} \subseteq Nat
  /\ Bps \in Nat \ {0} /\ PartnerBps \in Nat /\ PartnerBps < Bps
  /\ ProtocolBps <= Bps /\ TraderBps + PotBps <= Bps /\ PotReleaseBps <= Bps /\ IntegratorBps <= Bps
ASSUME PeriodAssumption ==
  /\ {ReleaseBlocks, PerSecond, Period} \subseteq Nat \ {0}
  /\ {FullRelease, MinBuy, MaxPart} \subseteq Nat
ASSUME EnvironmentAssumption == {FlushMayFail, HasSiblings, Watched} \subseteq BOOLEAN
ASSUME BoundAssumption ==
  /\ Pushed \subseteq Currencies /\ Amounts \cup Spends \subseteq Nat \ {0} /\ Fees \subseteq Nat \ {0}
  /\ Settlements \subseteq [rulesFee : Nat, advisoryFee : Nat, refund : Nat, advisoryRecipient : Accounts]
  /\ {MaxOwed, MaxBlock, MaxSecond} \subseteq Nat

VARIABLES rules,     \* HookrRules.State of the pool
          held,      \* the PoolManager claims the Rules hold, by currency
          claiming,  \* HookrRules._claiming: the receiver of a payment has control
          laneDue,   \* Record.laneDue of the root
          phase,     \* of the outer swap under way: idle, before or after
          tx,        \* transient storage, zero when a transaction starts
          liquidity, \* external: the pool has liquidity in range
          block,     \* HookrClock.l2Block
          second,    \* block.timestamp
          lp,        \* history: one liquidity position and what was donated to it in range
          seen       \* history: the last flush, when the leader led, the lead this transaction began with

vars == <<rules, held, claiming, laneDue, phase, tx, liquidity, block, second, lp, seen>>

None == [c \in PoolCurrencies |-> 0]

NotPrevious == [set |-> FALSE, epoch |-> 0, leader |-> NoOne, amount |-> 0]
NewTransaction == [sold |-> FALSE, previous |-> NotPrevious]

NoPosition ==
  [at |-> "none", byLeg |-> FALSE, added |-> 0, block |-> 0, second |-> 0,
   offered |-> None, received |-> None, releases |-> 0]

IsKing == PotBps # 0

-----------------------------------------------------------------------------
(* The ledger.                                                               *)

Owes(s, c, amount) == [s EXCEPT !.liabilities[c] = @ + amount]

Credits(s, c, who, amount) == [s EXCEPT !.claims[c][who] = @ + amount]

Accrues(s, c, amount) == [s EXCEPT !.accrued[c] = @ + amount]

-----------------------------------------------------------------------------
(* The pending donation.                                                     *)

\* The furthest mark a release may reach by now.
Pace == PerSecond * (second + 1)

\* Fault: the blocks are not capped by wall time.
AgeByBlocks(blocks, mark) == blocks

Age(blocks, mark) == Min({blocks, IF Pace > mark THEN Pace - mark ELSE 0})

\* Rounded up, and above zero whenever amount and age are.
Released(amount, age) ==
  IF age = 0 THEN 0
  ELSE IF age >= ReleaseBlocks THEN amount
  ELSE (amount * age + ReleaseBlocks - 1) \div ReleaseBlocks

AnyDue(s) == s.due # None
AnyFresh(s) == s.fresh # None
FreshMark(s) == s.freshTime * PerSecond

DueAge(s) == Age(block - s.releasedAt, s.dueMark)

\* Fault: a share is released in the block it accrued in.
FreshAgeAtOnce(s) == IF AnyFresh(s) THEN Age(block - s.freshBlock + 1, FreshMark(s)) ELSE 0

FreshAge(s) == IF AnyFresh(s) /\ s.freshBlock < block THEN Age(block - s.freshBlock, FreshMark(s)) ELSE 0

\* What a flush releases of each currency.
Out(s) == [c \in PoolCurrencies |-> Released(s.due[c], DueAge(s)) + Released(s.fresh[c], FreshAge(s))]

\* Fault: a merged share's age is counted from the pace.
MarkAhead(s) ==
  Max({IF AnyDue(s) THEN s.dueMark + DueAge(s) ELSE s.dueMark, IF FreshAge(s) # 0 THEN Pace + FreshAge(s) ELSE 0})

\* Where the wall-time allowance of what stays due stands after a release.
Mark(s) ==
  Max({IF AnyDue(s) THEN s.dueMark + DueAge(s) ELSE s.dueMark,
       IF FreshAge(s) # 0 THEN FreshMark(s) + FreshAge(s) ELSE 0,
       Pace - PerSecond})

\* The storage after a flush's own bookkeeping, before what it released is paid.
Flushed(s) ==
  LET merges == FreshAge(s) # 0
      due == [c \in PoolCurrencies |-> s.due[c] + (IF merges THEN s.fresh[c] ELSE 0)]
      t == [s EXCEPT !.fresh = IF merges THEN None ELSE @]
  IN  IF Out(s) # None
      THEN [t EXCEPT !.due = [c \in PoolCurrencies |-> due[c] - Out(s)[c]], !.releasedAt = block, !.dueMark = Mark(s)]
      ELSE [t EXCEPT !.releasedAt = IF due # None /\ block > @ THEN block ELSE @]

\* Fault: the burned claims are still owed.
DonatedStillOwed(s, out) == s

\* Released to the liquidity in range: the claims that back it are burned.
Donated(s, out) ==
  [s EXCEPT !.liabilities = [c \in Currencies |-> IF c \in PoolCurrencies THEN @[c] - out[c] ELSE @[c]]]

\* Released while no liquidity is in range.
AccruedOut(s, out) ==
  [s EXCEPT !.accrued = [c \in Currencies |-> IF c \in PoolCurrencies THEN @[c] + out[c] ELSE @[c]]]

FlushedRules(s) == IF liquidity THEN Donated(Flushed(s), Out(s)) ELSE AccruedOut(Flushed(s), Out(s))

\* flushRecapture's result: a share is still pending.
StillPending(s) == AnyDue(Flushed(s)) \/ AnyFresh(Flushed(s))

-----------------------------------------------------------------------------
(* An LP share.                                                              *)

\* A share accrued in an earlier block becomes due, from the later of the two
\* release blocks and the later of the two marks.
Aged(s) ==
  [s EXCEPT !.due = [c \in PoolCurrencies |-> @[c] + s.fresh[c]], !.fresh = None,
            !.freshBlock = block, !.freshTime = second,
            !.releasedAt = IF AnyFresh(s) THEN s.freshBlock ELSE @,
            !.dueMark = IF AnyFresh(s) THEN Max({@, FreshMark(s)}) ELSE @]

LpShare(s, c, amount) ==
  LET turns == s.freshBlock # block /\ \A x \in PoolCurrencies : s.due[x] + s.fresh[x] <= MaxPart
      t == IF turns THEN Aged(s) ELSE s
  IN  IF c \notin PoolCurrencies \/ ~liquidity THEN Accrues(s, c, amount)
      ELSE IF t.freshBlock = block /\ t.fresh[c] + amount + t.due[c] <= MaxPart
      THEN [t EXCEPT !.fresh[c] = @ + amount]
      ELSE Accrues(t, c, amount)

-----------------------------------------------------------------------------
(* King of the Pool.                                                         *)

Power(base, n) == LET power[m \in 0..n] == IF m = 0 THEN 1 ELSE base * power[m - 1] IN power[n]

\* The pot left after closed releases.  The code's fixed-point power rounds
\* down like this quotient, and is equal to it when half is released.
Carried(pot, closed) ==
  IF closed >= FullRelease THEN 0 ELSE (pot * Power(Bps - PotReleaseBps, closed)) \div Power(Bps, closed)

Crowned(s) ==
  LET prize == Min({(s.leaderAmount * MaxPrizeBps) \div Bps, s.pot})
  IN  IF s.leader = NoOne THEN s
      ELSE [Credits(s, Quote, s.leader, prize) EXCEPT !.pot = @ - prize, !.leader = NoOne, !.leaderAmount = 0]

\* _roll: closes every elapsed epoch, pays the leader, releases of the pot.
Rolled(s) ==
  LET closed == (second - s.epochStart) \div Period
      t == Crowned(s)
      carried == Carried(t.pot, closed)
      shared == IF carried # t.pot THEN LpShare(t, Quote, t.pot - carried) ELSE t
  IN  IF second < s.epochStart + Period THEN s
      ELSE [shared EXCEPT !.pot = carried, !.epochStart = @ + closed * Period]

\* Fault: a buy may lead after a sell of its transaction.
LeadsAfterSelling(s, x) ==
  /\ x.isBuy /\ x.authenticated
  /\ x.spend >= MinBuy /\ x.spend > s.leaderAmount
  /\ ~x.crossesNewLiquidity

\* A buy takes the lead.
Leads(s, x) ==
  /\ x.isBuy /\ x.authenticated
  /\ x.spend >= MinBuy /\ x.spend > s.leaderAmount
  /\ ~tx.sold /\ ~x.crossesNewLiquidity

\* A sell voids the lead its transaction took.
Voids(s, x) == ~x.isBuy /\ tx.previous.set /\ tx.previous.epoch = s.epochStart

Tracked(s, x) ==
  CASE Leads(s, x) -> [s EXCEPT !.leader = x.payer, !.leaderAmount = x.spend]
    [] Voids(s, x) -> [s EXCEPT !.leader = tx.previous.leader, !.leaderAmount = tx.previous.amount]
    [] OTHER -> s

\* The transient words: that the transaction sold, and who led when it began.
TrackedTransaction(s, x) ==
  CASE Leads(s, x) /\ ~tx.previous.set ->
         [tx EXCEPT !.previous = [set |-> TRUE, epoch |-> s.epochStart, leader |-> s.leader, amount |-> s.leaderAmount]]
    [] ~x.isBuy -> [sold |-> TRUE, previous |-> NotPrevious]
    [] OTHER -> tx

-----------------------------------------------------------------------------
(* The splits.                                                               *)

\* What the trader's own swap accounts for, net of the protocol's cut.
TraderPart(amount, rest, basis) == (((Min({basis, amount}) * rest) \div amount) * TraderBps) \div Bps

\* settleRecapture: one push of one currency.
Split(s, c, trader, amount, basis) ==
  LET profit == (amount * Bps) \div (Bps - PartnerBps)
      protocol == Min({(profit * ProtocolBps) \div Bps, amount})
      rest == amount - protocol
      toTrader == IF c = Quote /\ trader # NoOne THEN TraderPart(amount, rest, basis) ELSE 0
      toPot == IF c = Quote THEN (rest * PotBps) \div Bps ELSE 0
      toLp == rest - toTrader - toPot
      r == IF IsKing THEN Rolled(s) ELSE s
      t == IF toTrader # 0 THEN Credits(r, c, trader, toTrader) ELSE r
      u == Owes([Credits(t, c, ProtocolRecipient, protocol) EXCEPT !.pot = @ + toPot], c, amount)
  IN  IF toLp # 0 THEN LpShare(u, c, toLp) ELSE u

\* settleSwap's credits of the quote, once King of the Pool has been settled.
Allocated(s, x, z) ==
  LET royalty == IF x.isBuy THEN Min({(x.spend * RoyaltyBps) \div Bps, z.rulesFee}) ELSE 0
      cut == ((z.rulesFee - royalty) * IntegratorBps) \div Bps
      t == Credits(Credits(s, Quote, RoyaltyTo, royalty), Quote, Integrator, cut)
      u == Credits(t, Quote, ProtocolRecipient, z.rulesFee - royalty - cut)
      v == IF z.advisoryFee # 0 THEN Credits(u, Quote, z.advisoryRecipient, z.advisoryFee) ELSE u
      w == IF z.refund # 0 THEN Credits(v, Quote, x.payer, z.refund) ELSE v
  IN  Owes(w, Quote, z.rulesFee + z.advisoryFee + z.refund)

-----------------------------------------------------------------------------
(* The history.                                                              *)

Pending(s) == [c \in PoolCurrencies |-> s.due[c] + s.fresh[c]]

\* The position at the start of a stay in range, and whether a sibling's leg,
\* which no flush precedes, brought it there.
InRange(p, pending) ==
  [p EXCEPT !.at = "in", !.byLeg = (phase = "idle" /\ p.at = "out"), !.block = block, !.second = second,
            !.offered = pending, !.received = None, !.releases = 0]

OutOfRange(p) == [NoPosition EXCEPT !.at = "out", !.added = p.added]

\* What a flush gives to the position at most: all that it donates.
Paid(flushes) ==
  IF ~flushes \/ lp.at # "in" \/ Out(rules) = None THEN lp
  ELSE [lp EXCEPT !.received = [c \in PoolCurrencies |-> @[c] + Out(rules)[c]], !.releases = @ + 1]

\* A share that accrues while the position is in range is offered to it too.
Offers ==
  lp' = IF lp.at # "in" THEN lp
        ELSE [lp EXCEPT !.offered = [c \in PoolCurrencies |-> @[c] + Pending(rules')[c] - Pending(rules)[c]]]

\* Since when the leader leads: a lead starts now, a voided one falls back to
\* the one the transaction began with.
LeadsSince(s, x) == IF Leads(s, x) THEN second ELSE IF Voids(s, x) THEN seen.began ELSE seen.ledAt

LedAt(since) == seen' = [seen EXCEPT !.ledAt = IF rules'.leader = NoOne THEN 0 ELSE since]

-----------------------------------------------------------------------------
Init ==
  /\ block = 1 /\ second = 1
  /\ rules = [claims |-> [c \in Currencies |-> [a \in Beneficiaries |-> 0]],
              liabilities |-> [c \in Currencies |-> 0], accrued |-> [c \in Currencies |-> 0],
              due |-> None, fresh |-> None, freshBlock |-> 0, freshTime |-> 0, releasedAt |-> 0, dueMark |-> 0,
              epochStart |-> IF IsKing THEN second ELSE 0, leader |-> NoOne, leaderAmount |-> 0, pot |-> 0]
  /\ held = [c \in Currencies |-> 0]
  /\ claiming = FALSE /\ laneDue = FALSE /\ phase = "idle" /\ tx = NewTransaction
  /\ liquidity \in BOOLEAN
  /\ lp = NoPosition
  /\ seen = [flushBlock |-> 0, flushSecond |-> 0, ledAt |-> 0, leader |-> NoOne, amount |-> 0, began |-> 0]

Within(s) == \A c \in Currencies : s.liabilities[c] <= MaxOwed

\* The root's _flush.  It calls the Rules while they may hold a pending share,
\* and at every call on a King of the Pool pool; it fails open.
FlushCalled == laneDue \/ IsKing

Flush(flushes) ==
  /\ flushes => FlushCalled
  /\ FlushCalled /\ ~FlushMayFail => flushes
  /\ rules' = IF flushes THEN FlushedRules(rules) ELSE rules
  /\ held' = IF flushes /\ liquidity
             THEN [c \in Currencies |-> IF c \in PoolCurrencies THEN held[c] - Out(rules)[c] ELSE held[c]] ELSE held
  /\ laneDue' = IF flushes /\ laneDue THEN StillPending(rules) ELSE laneDue
  /\ seen' = IF flushes THEN [seen EXCEPT !.flushBlock = block, !.flushSecond = second] ELSE seen

\* An outer swap on the pool starts: the root's beforeSwap.
BeginSwap ==
  /\ phase = "idle"
  /\ \E flushes \in BOOLEAN : Flush(flushes) /\ lp' = Paid(flushes)
  /\ phase' = "before"
  /\ UNCHANGED <<claiming, tx, liquidity, block, second>>

\* One push of the executor, split: no trader before the swap, the trader and
\* the basis of its move after it.
SettleRecapture ==
  /\ phase # "idle"
  /\ \E c \in Pushed, amount \in Amounts, trader \in Buyers \cup {NoOne}, basis \in Amounts \cup {0} :
       /\ phase = "before" => trader = NoOne
       /\ trader = NoOne => basis = 0
       /\ rules' = Split(rules, c, trader, amount, basis)
       /\ held' = [held EXCEPT ![c] = @ + amount]
  /\ rules'.pot <= 2 * MaxPart + 1 /\ Within(rules')
  /\ laneDue' = TRUE
  /\ Offers /\ LedAt(seen.ledAt)
  /\ UNCHANGED <<claiming, phase, tx, liquidity, block, second>>

Swaps ==
  {x \in [isBuy : BOOLEAN, authenticated : BOOLEAN, payer : Buyers, spend : Spends, crossesNewLiquidity : BOOLEAN] :
     x.crossesNewLiquidity => x.isBuy /\ x.authenticated}

\* settleSwap, and the claims that the root mints for what it credits.  The
\* launch guard and the dynamic fee keep state of their own that nothing here
\* reads; the two counters of fees paid are only summed.
Settle(x) ==
  /\ rules' \in
       {Allocated(IF IsKing THEN Tracked(Rolled(rules), x) ELSE rules, x, z) :
          z \in {y \in Settlements : /\ y.rulesFee + y.advisoryFee <= x.spend
                                     /\ y.refund # 0 => x.isBuy /\ x.authenticated}}
  /\ held' = [held EXCEPT ![Quote] = @ + rules'.liabilities[Quote] - rules.liabilities[Quote]]
  /\ tx' = IF IsKing THEN TrackedTransaction(Rolled(rules), x) ELSE tx
  /\ Within(rules')
  /\ Offers /\ LedAt(IF IsKing THEN LeadsSince(Rolled(rules), x) ELSE seen.ledAt)
  /\ UNCHANGED <<claiming, laneDue, liquidity, block, second>>

\* The outer swap, after its before-phase.
SettleSwap ==
  /\ phase = "before"
  /\ \E x \in Swaps : Settle(x)
  /\ phase' = "after"

\* A swap of the executor that takes the full path, in a frame of this pool or
\* of a sibling: a buy inside the launch guard, never authenticated.
SettleGuardedLeg ==
  /\ phase # "idle" \/ HasSiblings
  /\ \E x \in Swaps : x.isBuy /\ ~x.authenticated /\ Settle(x)
  /\ phase' = phase

\* Every other swap of the executor, with its advisory's take or without one.
\* It moves the price, and no flush precedes it.
SettleLeg ==
  /\ phase # "idle" \/ HasSiblings
  /\ \E amount \in Fees, recipient \in Accounts :
       /\ rules' = Owes(Credits(rules, Quote, recipient, amount), Quote, amount)
       /\ held' = [held EXCEPT ![Quote] = @ + amount]
  /\ Within(rules')
  /\ UNCHANGED <<claiming, laneDue, phase, tx, liquidity, block, second, lp, seen>>

EndSwap ==
  /\ phase = "after"
  /\ phase' = "idle"
  /\ UNCHANGED <<rules, held, claiming, laneDue, tx, liquidity, block, second, lp, seen>>

\* The price moves in or out of the range of the watched position, and of all
\* liquidity: in a swap of the pool, or in a leg of a sibling's arb recapture.
PriceMoves ==
  /\ phase # "idle" \/ HasSiblings
  /\ liquidity' \in BOOLEAN
  /\ \/ lp' = lp /\ liquidity' # liquidity
     \/ lp.at = "out" /\ lp' = InRange(lp, Pending(rules))
     \/ lp.at = "in" /\ lp' = OutOfRange(lp)
  /\ lp'.at = "in" => liquidity'
  /\ UNCHANGED <<rules, held, claiming, laneDue, phase, tx, block, second, seen>>

\* The root refuses liquidity changes inside a swap, and flushes first.
AddLiquidity ==
  /\ phase = "idle"
  /\ \E flushes \in BOOLEAN, at \in {"in", "out"} :
       /\ Flush(flushes)
       /\ liquidity' = (liquidity \/ at = "in")
       /\ \/ lp' = Paid(flushes)
          \/ /\ Watched /\ lp.at = "none"
             /\ lp' = LET added == [NoPosition EXCEPT !.added = block]
                      IN  IF at = "in" THEN InRange(added, Pending(rules')) ELSE OutOfRange(added)
  /\ UNCHANGED <<claiming, phase, tx, block, second>>

RemoveLiquidity ==
  /\ phase = "idle"
  /\ \E flushes \in BOOLEAN : Flush(flushes) /\ (lp' = Paid(flushes) \/ (lp.at # "none" /\ lp' = NoPosition))
  /\ liquidity' \in BOOLEAN
  /\ liquidity' => liquidity
  /\ lp'.at = "in" => liquidity'
  /\ UNCHANGED <<claiming, phase, tx, block, second>>

-----------------------------------------------------------------------------
\* sweepClaims: stray claims of the root become the protocol's.
CreditSweep ==
  /\ phase = "idle"
  /\ \E c \in Pushed, amount \in Amounts :
       /\ rules' = Owes(Credits(rules, c, ProtocolRecipient, amount), c, amount)
       /\ held' = [held EXCEPT ![c] = @ + amount]
       /\ held'[c] >= rules'.liabilities[c]
  /\ Within(rules')
  /\ UNCHANGED <<claiming, laneDue, phase, tx, liquidity, block, second, lp, seen>>

\* Anyone closes an elapsed epoch, also inside a swap or a payment.
SettleEpoch ==
  /\ IsKing
  /\ second >= rules.epochStart + Period
  /\ rules' = Rolled(rules)
  /\ Offers /\ LedAt(seen.ledAt)
  /\ UNCHANGED <<held, claiming, laneDue, phase, tx, liquidity, block, second>>

\* The liquidity owner's accrual, in every currency, becomes claims.
ClaimPool ==
  /\ \E c \in Currencies : rules.accrued[c] # 0
  /\ \E to \in Beneficiaries :
       rules' = [rules EXCEPT
         !.accrued = [c \in Currencies |-> 0],
         !.claims = [c \in Currencies |-> [rules.claims[c] EXCEPT ![to] = rules.claims[c][to] + rules.accrued[c]]]]
  /\ UNCHANGED <<held, claiming, laneDue, phase, tx, liquidity, block, second, lp, seen>>

Debit(c, who, amount) ==
  /\ amount # 0 /\ amount <= rules.liabilities[c] /\ amount <= held[c]
  /\ rules' = [rules EXCEPT !.claims[c][who] = @ - amount, !.liabilities[c] = @ - amount]
  /\ held' = [held EXCEPT ![c] = @ - amount]

\* A payment of at most MaxPart.  The PoolManager is locked until it starts, and
\* the recipient of the tokens has control until it ends.
Claim ==
  /\ phase = "idle" /\ ~claiming
  /\ \E c \in Currencies, who \in Beneficiaries : Debit(c, who, Min({rules.claims[c][who], MaxPart}))
  /\ claiming' = TRUE
  /\ UNCHANGED <<laneDue, phase, tx, liquidity, block, second, lp, seen>>

EndClaim ==
  /\ claiming /\ phase = "idle"
  /\ claiming' = FALSE
  /\ UNCHANGED <<rules, held, laneDue, phase, tx, liquidity, block, second, lp, seen>>

\* The whole claim, as PoolManager claims: no token moves, no one gets control.
ClaimAsClaims ==
  /\ ~claiming
  /\ \E c \in Currencies, who \in Beneficiaries : Debit(c, who, rules.claims[c][who])
  /\ UNCHANGED <<claiming, laneDue, phase, tx, liquidity, block, second, lp, seen>>

\* The next transaction, of this L2 block or of the next: transient storage is
\* clear again.  Several blocks may share a second.
NextTransaction ==
  /\ phase = "idle" /\ ~claiming
  /\ \/ UNCHANGED <<block, second>>
     \/ /\ block < MaxBlock /\ block' = block + 1
        /\ second' \in second .. Min({second + 2, MaxSecond})
  /\ tx' = NewTransaction
  /\ seen' = [seen EXCEPT !.leader = rules.leader, !.amount = rules.leaderAmount, !.began = seen.ledAt]
  /\ UNCHANGED <<rules, held, claiming, laneDue, phase, liquidity, lp>>

Next ==
  \/ BeginSwap \/ SettleRecapture \/ SettleSwap \/ SettleGuardedLeg \/ SettleLeg \/ EndSwap
  \/ PriceMoves \/ AddLiquidity \/ RemoveLiquidity
  \/ CreditSweep \/ SettleEpoch \/ ClaimPool \/ Claim \/ EndClaim \/ ClaimAsClaims
  \/ NextTransaction

Spec == Init /\ [][Next]_vars

-----------------------------------------------------------------------------
Leaders == Buyers \cup {NoOne}

RulesState ==
  [claims : [Currencies -> [Beneficiaries -> Nat]], liabilities : [Currencies -> Nat], accrued : [Currencies -> Nat],
   due : [PoolCurrencies -> Nat], fresh : [PoolCurrencies -> Nat],
   freshBlock : Nat, freshTime : Nat, releasedAt : Nat, dueMark : Nat,
   epochStart : Nat, leader : Leaders, leaderAmount : Nat, pot : Nat]

Positions ==
  [at : {"none", "in", "out"}, byLeg : BOOLEAN, added : Nat, block : Nat, second : Nat,
   offered : [PoolCurrencies -> Nat], received : [PoolCurrencies -> Nat], releases : Nat]

\* The type invariant.
TypeOK ==
  /\ rules \in RulesState
  /\ held \in [Currencies -> Nat]
  /\ claiming \in BOOLEAN /\ laneDue \in BOOLEAN /\ liquidity \in BOOLEAN
  /\ phase \in {"idle", "before", "after"}
  /\ tx \in [sold : BOOLEAN, previous : [set : BOOLEAN, epoch : Nat, leader : Leaders, amount : Nat]]
  /\ block \in Nat /\ second \in Nat
  /\ lp \in Positions
  /\ seen \in [flushBlock : Nat, flushSecond : Nat, ledAt : Nat, leader : Leaders, amount : Nat, began : Nat]

-----------------------------------------------------------------------------
(* The ledger.                                                               *)

\* What the Rules owe in a currency is exactly what someone can get: the claims,
\* the liquidity owner's accrual, the pending donation and the pot.  No split,
\* prize, rollover or release loses a unit to rounding, and none takes more than
\* is there.  And they hold claims for all of it, whatever swaps, sweeps, flushes
\* and payments interleave, and whoever re-enters a payment.
Accounted ==
  \A c \in Currencies :
    LET claims == SumFunctionOnSet(rules.claims[c], Beneficiaries)
        pending == IF c \in PoolCurrencies THEN Pending(rules)[c] ELSE 0
        pot == IF c = Quote THEN rules.pot ELSE 0
    IN  /\ rules.liabilities[c] = claims + rules.accrued[c] + pending + pot
        /\ \A part \in {rules.accrued[c], pending, pot} : part >= 0
        /\ rules.liabilities[c] <= held[c]

-----------------------------------------------------------------------------
(* The pending donation.                                                     *)

\* Liquidity gets nothing in the L2 block in which it was added, however the
\* executor's pushes, swaps and flushes of that block are ordered.
JustInTimeGetsNothing == [][lp'.received # lp.received /\ lp'.releases # 0 => lp.added < block]_vars

\* What a stay in range may have received by now: the share of its L2 blocks,
\* at most PerSecond of them a second plus one second's worth.  Each of the two
\* parts of a release is rounded up by less than one unit.
WithinItsBlocks ==
  LET blocks == Min({block - lp.block, ReleaseBlocks, PerSecond * (second - lp.second + 1)})
  IN  \A c \in PoolCurrencies :
        lp.received[c] * ReleaseBlocks <= lp.offered[c] * blocks + 2 * (ReleaseBlocks - 1) * lp.releases

\* A stay that begins with a liquidity change or in a swap of the pool, both of
\* which flush first, gets no more than its blocks' share, however wide it is.
WindowBound == lp.at = "in" /\ ~lp.byLeg => WithinItsBlocks

\* The notes of HookrLane and HookrRecapture say so of every position and every
\* stay in range.
EveryStayEarnsItsBlocks == lp.at = "in" => WithinItsBlocks

\* A step in which the Rules were asked to flush, and did.
Flushing == phase = "idle" /\ phase' = "before"

\* One L2 block releases at most once, and although what a burst of blocks left
\* unpaid is dropped, the release never stalls: a swap in a later second than the
\* last flush releases of what was pending.
ReleasesKeepPace ==
  [][Flushing =>
       /\ seen.flushBlock = block => Pending(rules') = Pending(rules)
       /\ seen.flushSecond < second /\ AnyDue(rules) /\ rules.freshTime < second
            => Pending(rules') # Pending(rules)]_vars

-----------------------------------------------------------------------------
(* King of the Pool.                                                         *)

\* A leader has earned its lead.  Once a transaction sold on the pool, the lead is
\* the one it began with, or none when the epoch was closed in it: a round trip cannot
\* win.  And who leads led in the epoch that is open: a rollover, however late, never
\* carries a lead into a later epoch, where its prize was not bought.
LeadsAreEarned ==
  /\ IsKing /\ tx.sold =>
       <<rules.leader, rules.leaderAmount>> \in {<<seen.leader, seen.amount>>, <<NoOne, 0>>}
  /\ rules.leader # NoOne => rules.epochStart <= seen.ledAt /\ seen.ledAt < rules.epochStart + Period

=============================================================================
