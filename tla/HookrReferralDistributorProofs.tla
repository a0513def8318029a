-------------------- MODULE HookrReferralDistributorProofs ---------------------
(* Proofs about HookrReferralDistributor, for every set of campaigns, terms, *)
(* proposals and referrals, and for balances that shrink and grow.           *)
EXTENDS HookrReferralDistributor, AccountingLaws

-----------------------------------------------------------------------------
(* The inductive invariant.                                                  *)

\* A day that is not final has moved nothing; the fees not credited are there, what
\* they can be owed is still in the budget, and a released day has nothing left.
DaysOK ==
  \A e \in DayIds :
    /\ e[1] \notin created => epochs[e] = EmptyEpoch
    /\ ~epochs[e].finalized =>
         epochs[e].claimedFees = 0 /\ epochs[e].allocated = 0 /\ refunded[e] = 0 /\ ~epochs[e].released
    /\ epochs[e].claimedFees <= epochs[e].totalFees
    /\ Owable(e) <= Left(e)
    /\ epochs[e].released => Left(e) = 0

\* A veto stands until the reviewer accepts, and what it accepts is what the day has:
\* an approval sent for an older version cannot land.
ReviewOf(e) ==
  /\ epochs[e].leaves # {} => epochs[e].finalizeAfter = seen[e].proposedAt + TermsOf(e).reviewDelay
  /\ seen[e].vetoed /\ ~epochs[e].finalized => epochs[e].challenged
  /\ seen[e].vetoed /\ epochs[e].finalized /\ epochs[e].leaves # {} => seen[e].accepted = epochs[e].leaves
  /\ \A a \in approvals : a.day = e =>
       /\ a.version # 0 /\ a.version <= epochs[e].version
       /\ ~epochs[e].finalized /\ a.version = epochs[e].version => a.leaves = epochs[e].leaves

ReviewOK == \A e \in DayIds : ReviewOf(e)

KeyCap(k) == IF k[2] = "protocol" /\ k[1] \in Crowned THEN MaxKingStackedBps ELSE MaxStackedBps

\* A stack's basis is the fees of a leaf credited on it, and its payouts stay below the
\* cap of that basis.
StacksOK ==
  /\ \A e \in DayIds, p \in Payers : <<e, p>> \in credited => epochs[e].finalized
  /\ \A k \in StackKeys :
       /\ stacks[k].paid <= Part(stacks[k].feeBasis, KeyCap(k))
       /\ IF stacks[k].feeBasis = 0 THEN LeavesCredited(k) = {}
          ELSE \E leaf \in LeavesCredited(k) : leaf.fees = stacks[k].feeBasis
  /\ SumFunctionOnSet([k \in StackKeys |-> stacks[k].paid], StackKeys)
       = SumFunctionOnSet([e \in DayIds |-> epochs[e].allocated], DayIds)

DistributorInvariant == TypeOK /\ DaysOK /\ ReviewOK /\ StacksOK /\ CashAccounted

-----------------------------------------------------------------------------
(* The constants.                                                            *)

\* The caps are below the whole, and a day has a length.
LEMMA ConstantTypes ==
  /\ Day \in Nat \ {0} /\ Bps \in Nat \ {0}
  /\ ProposalWindow \in Nat /\ VetoGrace \in Nat /\ MaxTime \in Nat /\ MaxVersion \in Nat
  /\ MaxStackedBps \in Nat /\ MaxStackedBps < Bps
  /\ MaxKingStackedBps \in Nat /\ MaxKingStackedBps < Bps
  BY DistributorAssumption

\* The terms a campaign was created with.
LEMMA TermTypes ==
  ASSUME NEW c \in Campaigns
  PROVE  /\ Terms[c].days \in Nat \ {0} /\ Terms[c].dailyBudget \in Nat \ {0}
         /\ Terms[c].walletFeeCap \in Nat /\ Terms[c].start \in Nat /\ Terms[c].reviewDelay \in Nat
         /\ Terms[c].referrerBps \in Nat \ {0} /\ Terms[c].cashbackBps \in Nat
         /\ Rate(Terms[c]) \in Nat \ {0}
         /\ Terms[c].currency \in Currencies
  <1>1. Terms[c] \in Policies
    BY DistributorAssumption
  <1>2. /\ Terms[c].days \in Nat \ {0} /\ Terms[c].dailyBudget \in Nat \ {0}
        /\ Terms[c].walletFeeCap \in Nat /\ Terms[c].start \in Nat /\ Terms[c].reviewDelay \in Nat
        /\ Terms[c].referrerBps \in Nat \ {0} /\ Terms[c].cashbackBps \in Nat
    BY <1>1, DistributorAssumption
  <1> QED
    BY <1>2 DEF Rate, Currencies

\* A day is a campaign and an index below its length.
LEMMA DayTypes ==
  ASSUME NEW e \in DayIds
  PROVE  /\ e[1] \in Campaigns /\ e[2] \in 0..Terms[e[1]].days - 1 /\ e = <<e[1], e[2]>>
         /\ TermsOf(e) = Terms[e[1]]
  BY DEF DayIds, TermsOf

\* The terms of a day are its campaign's.
LEMMA DayTermTypes ==
  ASSUME NEW e \in DayIds
  PROVE  /\ TermsOf(e).dailyBudget \in Nat /\ TermsOf(e).reviewDelay \in Nat
         /\ TermsOf(e).referrerBps \in Nat \ {0} /\ TermsOf(e).cashbackBps \in Nat
         /\ Rate(TermsOf(e)) \in Nat \ {0}
         /\ Rate(TermsOf(e)) = TermsOf(e).referrerBps + TermsOf(e).cashbackBps
         /\ TermsOf(e).currency \in Currencies
         /\ DayEnd(e) \in Nat
  BY DayTypes, TermTypes, ConstantTypes DEF Rate, DayEnd

\* Part rounds a share down, so it is monotone and its parts never exceed the whole's.
LEMMA PartTypes ==
  ASSUME NEW a \in Nat, NEW bps \in Nat
  PROVE  Part(a, bps) \in Nat /\ Part(0, bps) = 0
  <1>1. a * bps \in Nat /\ 0 * bps = 0
    OBVIOUS
  <1>2. \A d \in Nat \ {0} : 0 \div d = 0
    OBVIOUS
  <1> QED
    BY <1>1, <1>2, DivisionBounds, ConstantTypes DEF Part

\* A part grows with its amount.
LEMMA PartMonotone ==
  ASSUME NEW a \in Nat, NEW b \in Nat, NEW bps \in Nat, a <= b
  PROVE  Part(a, bps) <= Part(b, bps)
  <1>1. a * bps \in Nat /\ b * bps \in Nat /\ a * bps <= b * bps
    BY ProductMonotone
  <1> QED
    BY <1>1, DivisionMonotone, ConstantTypes DEF Part

\* Two parts of one amount, rounded down, are at most the part of both rates.
LEMMA PartsOfRates ==
  ASSUME NEW a \in Nat, NEW j \in Nat, NEW k \in Nat
  PROVE  Part(a, j) + Part(a, k) <= Part(a, j + k)
  <1>1. a * j \in Nat /\ a * k \in Nat /\ a * (j + k) = a * j + a * k
    OBVIOUS
  <1> QED
    BY <1>1, DivisionSplits, ConstantTypes DEF Part

\* The parts of two amounts, rounded down, are at most the part of their sum.
LEMMA PartsOfAmounts ==
  ASSUME NEW a \in Nat, NEW b \in Nat, NEW k \in Nat
  PROVE  Part(a, k) + Part(b, k) <= Part(a + b, k)
  <1>1. a * k \in Nat /\ b * k \in Nat /\ (a + b) * k = a * k + b * k
    OBVIOUS
  <1> QED
    BY <1>1, DivisionSplits, ConstantTypes DEF Part

\* The larger of two numbers.
LEMMA LargerOfTwo ==
  ASSUME NEW a \in Int, NEW b \in Int
  PROVE  Max({a, b}) = IF a >= b THEN a ELSE b
  BY DEF Max

-----------------------------------------------------------------------------
(* A credit.                                                                 *)

\* Fees of a leaf are a natural number.
LEMMA LeafTypes ==
  ASSUME TypeOK, NEW e \in DayIds, NEW leaf \in epochs[e].leaves
  PROVE  leaf.fees \in Nat
  <1>1. epochs[e].leaves \in Trees
    BY DEF TypeOK, EpochState
  <1> QED
    BY <1>1, DistributorAssumption DEF Trees

\* A day and a payer have one stack, capped as the day's terms say.
LEMMA KeyTypes ==
  ASSUME NEW e \in DayIds, NEW p \in Payers
  PROVE  StackKey(e, p) \in StackKeys /\ KeyCap(StackKey(e, p)) = CapBps(TermsOf(e))
  BY DEF StackKeys, StackKey, KeyCap, CapBps

\* A cap is below the whole.
LEMMA CapTypes ==
  ASSUME NEW k
  PROVE  KeyCap(k) \in Nat /\ KeyCap(k) < Bps
  BY ConstantTypes DEF KeyCap

\* The two payouts of a credit stay below the payer's room and below the day's rate.
LEMMA PayoutsFit ==
  ASSUME TypeOK, NEW e \in DayIds, NEW leaf \in epochs[e].leaves, leaf.payer \in Payers
  PROVE  /\ Basis(e, leaf) \in Nat /\ Basis(e, leaf) >= leaf.fees
         /\ Basis(e, leaf) >= stacks[StackKey(e, leaf.payer)].feeBasis
         /\ Basis(e, leaf) \in {leaf.fees, stacks[StackKey(e, leaf.payer)].feeBasis}
         /\ Room(e, leaf) \in Nat
         /\ Commission(e, leaf) \in Nat /\ Cashback(e, leaf) \in Nat
         /\ Commission(e, leaf) + Cashback(e, leaf) <= Room(e, leaf)
         /\ Commission(e, leaf) + Cashback(e, leaf) <= Part(leaf.fees, Rate(TermsOf(e)))
  <1> DEFINE t == TermsOf(e)
             f == leaf.fees
             k == StackKey(e, leaf.payer)
             room == Room(e, leaf)
             j == t.referrerBps
             b == t.cashbackBps
  <1>1. f \in Nat
    BY LeafTypes
  <1>2. j \in Nat \ {0} /\ b \in Nat /\ Rate(t) = j + b
    BY DayTermTypes
  <1>3. stacks[k].feeBasis \in Nat /\ stacks[k].paid \in Nat
    BY KeyTypes DEF TypeOK
  <1>4. /\ Basis(e, leaf) \in Nat /\ Basis(e, leaf) >= f /\ Basis(e, leaf) >= stacks[k].feeBasis
        /\ Basis(e, leaf) \in {f, stacks[k].feeBasis}
    BY <1>1, <1>3, LargerOfTwo DEF Basis
  <1>5. CapBps(t) \in Nat
    BY ConstantTypes DEF CapBps
  <1>6. Part(Basis(e, leaf), CapBps(t)) \in Nat
    BY <1>4, <1>5, PartTypes
  <1>7. room \in Nat
    BY <1>3, <1>6, LargerOfTwo DEF Room
  <1>8. /\ Part(f, j) \in Nat /\ Part(f, b) \in Nat /\ Part(f, Rate(t)) \in Nat
        /\ Part(f, j) + Part(f, b) <= Part(f, Rate(t))
    <2> HIDE DEF f, j, b, t
    <2>1. Part(f, j) + Part(f, b) <= Part(f, j + b)
      BY <1>1, <1>2, PartsOfRates
    <2> QED
      BY <1>1, <1>2, <2>1, PartTypes
  <1>9. /\ Commission(e, leaf) = IF Part(f, j) + Part(f, b) > room THEN (room * j) \div Rate(t) ELSE Part(f, j)
        /\ Cashback(e, leaf) = IF Part(f, j) + Part(f, b) > room THEN (room * b) \div Rate(t) ELSE Part(f, b)
    BY DEF Commission, Cashback, Payout
  <1>10. /\ (room * j) \div Rate(t) \in Nat /\ (room * b) \div Rate(t) \in Nat
         /\ (room * j) \div Rate(t) + (room * b) \div Rate(t) <= room
    <2> HIDE DEF room, j, b
    <2>1. /\ room * j \in Nat /\ room * b \in Nat /\ room * j + room * b = room * Rate(t)
          /\ Rate(t) \in Nat \ {0}
      BY <1>2, <1>7
    <2>2. (room * Rate(t)) \div Rate(t) = room
      <3> HIDE DEF t
      <3> QED
        BY <1>7, <2>1, DivisionExact
    <2>3. (room * j) \div Rate(t) + (room * b) \div Rate(t) <= room
      BY <2>1, <2>2, DivisionSplits
    <2> QED
      BY <2>1, <2>3, DivisionBounds
  <1> HIDE DEF room, f, j, b, t
  <1>11. CASE Part(f, j) + Part(f, b) > room
    <2>1. /\ Commission(e, leaf) = (room * j) \div Rate(t)
          /\ Cashback(e, leaf) = (room * b) \div Rate(t)
      BY <1>9, <1>11
    <2>2. /\ Commission(e, leaf) \in Nat /\ Cashback(e, leaf) \in Nat
          /\ Commission(e, leaf) + Cashback(e, leaf) <= room
      BY <1>10, <2>1
    <2>3. Commission(e, leaf) + Cashback(e, leaf) <= Part(f, Rate(t))
      BY <1>7, <1>8, <1>11, <2>2
    <2> QED
      BY <1>4, <1>7, <2>2, <2>3 DEF room, f, t
  <1>12. CASE ~(Part(f, j) + Part(f, b) > room)
    <2>1. Commission(e, leaf) = Part(f, j) /\ Cashback(e, leaf) = Part(f, b)
      BY <1>9, <1>12
    <2>2. Commission(e, leaf) + Cashback(e, leaf) <= room
      BY <1>7, <1>8, <1>12, <2>1
    <2> QED
      BY <1>4, <1>7, <1>8, <2>1, <2>2 DEF room, f, t
  <1> QED
    BY <1>11, <1>12

-----------------------------------------------------------------------------
(* The review of a day: no fee is credited and no cash moves, and a day that *)
(* is final stays as it is.                                                  *)

ReviewStep ==
  /\ UNCHANGED <<now, created, creditVars, cashVars>>
  /\ \A e \in DayIds :
       /\ epochs'[e].claimedFees = epochs[e].claimedFees
       /\ epochs'[e].allocated = epochs[e].allocated
       /\ epochs'[e].released = epochs[e].released
       /\ epochs[e].finalized => epochs'[e] = epochs[e]

\* The leaves credited on a stack.
LEMMA CreditedLeaf ==
  ASSUME NEW k, NEW leaf
  PROVE  leaf \in LeavesCredited(k) <=>
           \E e \in DayIds : leaf \in epochs[e].leaves /\ <<e, leaf.payer>> \in credited /\ StackKey(e, leaf.payer) = k
  BY DEF LeavesCredited

\* And those credited on it after a step.
LEMMA CreditedLeafNext ==
  ASSUME NEW k, NEW leaf
  PROVE  leaf \in LeavesCredited(k)' <=>
           \E e \in DayIds : leaf \in epochs'[e].leaves /\ <<e, leaf.payer>> \in credited' /\ StackKey(e, leaf.payer) = k
  BY DEF LeavesCredited

\* Such a step leaves the stacks and the cash as they were.
LEMMA ReviewKeepsAccounts ==
  ASSUME DistributorInvariant, ReviewStep
  PROVE  StacksOK' /\ CashAccounted'
  <1>1. \A e \in DayIds : Left(e)' = Left(e)
    BY DEF ReviewStep, Left, cashVars
  <1>2. [e \in DayIds |-> Left(e)]' = [e \in DayIds |-> Left(e)]
    BY <1>1
  <1>3. [e \in DayIds |-> epochs[e].allocated]' = [e \in DayIds |-> epochs[e].allocated]
    BY DEF ReviewStep
  <1>4. CashAccounted'
    BY <1>2 DEF DistributorInvariant, CashAccounted, ReviewStep, creditVars, cashVars, CreatedDays
  <1>5. \A e \in DayIds, p \in Payers : <<e, p>> \in credited => epochs[e].finalized
    BY DEF DistributorInvariant, StacksOK
  <1>6. ASSUME NEW k \in StackKeys
        PROVE  LeavesCredited(k)' = LeavesCredited(k)
    <2>1. credited' = credited
      BY DEF ReviewStep, creditVars
    <2>2. ASSUME NEW e \in DayIds, NEW p, <<e, p>> \in credited
          PROVE  epochs'[e] = epochs[e]
      <3>1. p \in Payers
        BY <2>2 DEF DistributorInvariant, TypeOK
      <3> QED
        BY <1>5, <2>2, <3>1 DEF ReviewStep
    <2>3. ASSUME NEW leaf
          PROVE  leaf \in LeavesCredited(k)' <=> leaf \in LeavesCredited(k)
      BY <2>1, <2>2, CreditedLeaf, CreditedLeafNext
    <2> QED
      BY <2>3
  <1>7. credited' = credited /\ stacks' = stacks
    BY DEF ReviewStep, creditVars
  <1>8. \A e \in DayIds : epochs[e].finalized => epochs'[e].finalized
    BY DEF ReviewStep
  <1>9. StacksOK'
    BY <1>3, <1>5, <1>6, <1>7, <1>8 DEF DistributorInvariant, StacksOK
  <1> QED
    BY <1>4, <1>9

\* What of a day the review may change, and what it must then say.
LEMMA ReviewKeepsInvariant ==
  ASSUME DistributorInvariant, NEW e \in DayIds, NEW day \in EpochState,
         epochs' = [epochs EXCEPT ![e] = day], UNCHANGED <<now, created, creditVars, cashVars>>,
         day.claimedFees = 0, day.allocated = 0, ~day.released,
         ~epochs[e].finalized, e[1] \in created,
         Part(day.totalFees, Rate(TermsOf(e))) <= TermsOf(e).dailyBudget,
         approvals' \subseteq [day : DayIds, version : Nat, leaves : Trees],
         seen' \in [DayIds -> [proposedAt : Nat, vetoed : BOOLEAN, accepted : Trees]],
         ReviewOK'
  PROVE  DistributorInvariant'
  <1>1. /\ epochs \in [DayIds -> EpochState] /\ epochs' \in [DayIds -> EpochState]
        /\ epochs'[e] = day /\ \A d \in DayIds \ {e} : epochs'[d] = epochs[d]
    BY DEF DistributorInvariant, TypeOK
  <1>2. TypeOK'
    BY <1>1 DEF DistributorInvariant, TypeOK, creditVars, cashVars
  <1>3. epochs[e].claimedFees = 0 /\ epochs[e].allocated = 0 /\ refunded[e] = 0 /\ ~epochs[e].released
    BY DEF DistributorInvariant, DaysOK
  <1>4. ReviewStep
    <2>1. epochs[e].released \in BOOLEAN /\ day.released \in BOOLEAN
      BY <1>1 DEF EpochState
    <2> QED
      BY <1>1, <1>3, <2>1 DEF ReviewStep
  <1>5. StacksOK' /\ CashAccounted'
    BY <1>4, ReviewKeepsAccounts
  <1>6. DaysOK'
    <2> SUFFICES ASSUME NEW d \in DayIds
                 PROVE  /\ d[1] \notin created' => epochs'[d] = EmptyEpoch
                        /\ ~epochs'[d].finalized =>
                             epochs'[d].claimedFees = 0 /\ epochs'[d].allocated = 0 /\ refunded'[d] = 0
                               /\ ~epochs'[d].released
                        /\ epochs'[d].claimedFees <= epochs'[d].totalFees
                        /\ Owable(d)' <= Left(d)'
                        /\ epochs'[d].released => Left(d)' = 0
      BY DEF DaysOK
    <2>1. refunded' = refunded /\ created' = created
      BY DEF cashVars
    <2>2. CASE d = e
      <3>1. day.totalFees \in Nat
        BY DEF EpochState
      <3>2. day.totalFees - 0 = day.totalFees /\ TermsOf(e).dailyBudget - 0 - 0 = TermsOf(e).dailyBudget
        BY <3>1, DayTermTypes
      <3>3. Owable(d)' = Part(day.totalFees, Rate(TermsOf(e))) /\ Left(d)' = TermsOf(e).dailyBudget
        BY <1>1, <1>3, <2>1, <2>2, <3>2 DEF Owable, Left
      <3> QED
        BY <1>1, <1>3, <2>1, <2>2, <3>1, <3>3
    <2>3. CASE d # e
      <3>1. epochs'[d] = epochs[d] /\ Owable(d)' = Owable(d) /\ Left(d)' = Left(d)
        BY <1>1, <2>1, <2>3 DEF Owable, Left
      <3> QED
        BY <2>1, <3>1 DEF DistributorInvariant, DaysOK
    <2> QED
      BY <2>2, <2>3
  <1> QED
    BY <1>2, <1>5, <1>6 DEF DistributorInvariant

\* The review of a day does not depend on what happens to other days.
LEMMA ReviewOfOthers ==
  ASSUME NEW d, ReviewOf(d), epochs'[d] = epochs[d], seen'[d] = seen[d],
         \A a \in approvals' : a.day = d => a \in approvals
  PROVE  ReviewOf(d)'
  BY DEF ReviewOf

\* What a proposal, a veto, an approval, a finalization or a lapse finds.
LEMMA DayOpen ==
  ASSUME DistributorInvariant, NEW e \in DayIds, ~epochs[e].finalized
  PROVE  /\ epochs[e] \in EpochState /\ epochs[e].totalFees \in Nat
         /\ epochs[e].claimedFees = 0 /\ epochs[e].allocated = 0 /\ ~epochs[e].released
         /\ epochs[e].version # 0 => e[1] \in created
         /\ Part(epochs[e].totalFees, Rate(TermsOf(e))) <= TermsOf(e).dailyBudget
         /\ Part(0, Rate(TermsOf(e))) <= TermsOf(e).dailyBudget
  <1>1. epochs[e] \in EpochState
    BY DEF DistributorInvariant, TypeOK
  <1>2. epochs[e].totalFees \in Nat
    BY <1>1 DEF EpochState
  <1>3. epochs[e].claimedFees = 0 /\ epochs[e].allocated = 0 /\ refunded[e] = 0 /\ ~epochs[e].released
    BY DEF DistributorInvariant, DaysOK
  <1>4. epochs[e].version # 0 => e[1] \in created
    BY DEF DistributorInvariant, DaysOK, EmptyEpoch
  <1>5. TermsOf(e).dailyBudget \in Nat /\ Rate(TermsOf(e)) \in Nat
    BY DayTermTypes
  <1>6. Part(epochs[e].totalFees - 0, Rate(TermsOf(e))) <= TermsOf(e).dailyBudget - 0 - 0
    BY <1>3 DEF DistributorInvariant, DaysOK, Owable, Left
  <1>7. epochs[e].totalFees - 0 = epochs[e].totalFees
    BY <1>2
  <1>8. Part(epochs[e].totalFees, Rate(TermsOf(e))) <= TermsOf(e).dailyBudget
    BY <1>5, <1>6, <1>7
  <1>9. Part(0, Rate(TermsOf(e))) = 0
    BY <1>5, PartTypes
  <1> QED
    BY <1>1, <1>2, <1>3, <1>4, <1>5, <1>8, <1>9

\* A proposal starts a review of its own, and takes nobody's approval over.
LEMMA ProposeDayKeeps ==
  ASSUME DistributorInvariant, NEW e \in DayIds, NEW p \in Proposals, ProposeDay(e, p)
  PROVE  DistributorInvariant'
  <1> DEFINE day == [epochs[e] EXCEPT !.leaves = p.leaves, !.totalFees = p.totalFees,
                                      !.finalizeAfter = now + TermsOf(e).reviewDelay, !.version = @ + 1]
  <1>1. ~epochs[e].finalized /\ e[1] \in created
    BY DEF ProposeDay
  <1>2. epochs[e] \in EpochState
    BY <1>1, DayOpen
  <1>3. /\ epochs \in [DayIds -> EpochState] /\ now \in Nat
        /\ seen \in [DayIds -> [proposedAt : Nat, vetoed : BOOLEAN, accepted : Trees]]
        /\ approvals \subseteq [day : DayIds, version : Nat, leaves : Trees]
    BY DEF DistributorInvariant, TypeOK
  <1>4. p.leaves \in Trees /\ p.totalFees \in Nat /\ TermsOf(e).reviewDelay \in Nat
    BY DistributorAssumption, DayTermTypes DEF Trees
  <1>5. /\ day \in EpochState
        /\ day.totalFees = p.totalFees /\ day.leaves = p.leaves /\ day.version = epochs[e].version + 1
        /\ day.finalizeAfter = now + TermsOf(e).reviewDelay
        /\ day.claimedFees = epochs[e].claimedFees /\ day.allocated = epochs[e].allocated
        /\ day.released = epochs[e].released /\ day.finalized = epochs[e].finalized
        /\ day.challenged = epochs[e].challenged
    <2>1. epochs[e].version \in Nat
      BY <1>2 DEF EpochState
    <2>2. epochs[e].version + 1 \in Nat /\ now + TermsOf(e).reviewDelay \in Nat
      BY <1>3, <1>4, <2>1
    <2> QED
      BY <1>2, <1>4, <2>2 DEF EpochState
  <1>6. epochs' = [epochs EXCEPT ![e] = day]
    BY <1>3 DEF ProposeDay
  <1> HIDE DEF day
  <1>7. /\ epochs'[e] = day /\ \A d \in DayIds \ {e} : epochs'[d] = epochs[d]
        /\ seen' = [seen EXCEPT ![e].proposedAt = now] /\ approvals' = approvals
    BY <1>3, <1>6 DEF ProposeDay
  <1>8. /\ seen'[e].proposedAt = now /\ seen'[e].vetoed = seen[e].vetoed
        /\ \A d \in DayIds \ {e} : seen'[d] = seen[d]
        /\ seen' \in [DayIds -> [proposedAt : Nat, vetoed : BOOLEAN, accepted : Trees]]
    BY <1>3, <1>7
  <1>9. ReviewOf(e)'
    <2>1. ReviewOf(e) /\ epochs[e].version \in Nat
      BY <1>2 DEF DistributorInvariant, ReviewOK, EpochState
    <2>2. \A a \in approvals : a.version \in Nat
      BY <1>3
    <2> QED
      BY <1>1, <1>5, <1>7, <1>8, <2>1, <2>2 DEF ReviewOf
  <1>10. ReviewOK'
    BY <1>7, <1>8, <1>9, ReviewOfOthers DEF DistributorInvariant, ReviewOK
  <1>11. Part(day.totalFees, Rate(TermsOf(e))) <= TermsOf(e).dailyBudget
    BY <1>5 DEF ProposeDay
  <1> QED
    <2>1. UNCHANGED <<now, created, creditVars, cashVars>>
      BY DEF ProposeDay
    <2> QED
      BY <1>1, <1>3, <1>5, <1>6, <1>7, <1>8, <1>10, <1>11, <2>1, DayOpen, ReviewKeepsInvariant

\* A veto ends the review without a verdict.
LEMMA ChallengeDayKeeps ==
  ASSUME DistributorInvariant, NEW e \in DayIds, ChallengeDay(e)
  PROVE  DistributorInvariant'
  <1> DEFINE day == [epochs[e] EXCEPT !.challenged = TRUE]
  <1>1. ~epochs[e].finalized /\ epochs[e].version # 0
    BY DEF ChallengeDay
  <1>2. epochs[e] \in EpochState
    BY <1>1, DayOpen
  <1>3. /\ epochs \in [DayIds -> EpochState]
        /\ seen \in [DayIds -> [proposedAt : Nat, vetoed : BOOLEAN, accepted : Trees]]
        /\ approvals \subseteq [day : DayIds, version : Nat, leaves : Trees]
    BY DEF DistributorInvariant, TypeOK
  <1>4. /\ day \in EpochState /\ day.challenged
        /\ day.totalFees = epochs[e].totalFees /\ day.leaves = epochs[e].leaves
        /\ day.version = epochs[e].version /\ day.finalizeAfter = epochs[e].finalizeAfter
        /\ day.claimedFees = epochs[e].claimedFees /\ day.allocated = epochs[e].allocated
        /\ day.released = epochs[e].released /\ day.finalized = epochs[e].finalized
    BY <1>2 DEF EpochState
  <1>5. epochs' = [epochs EXCEPT ![e] = day]
    BY <1>3 DEF ChallengeDay
  <1> HIDE DEF day
  <1>6. /\ epochs'[e] = day /\ \A d \in DayIds \ {e} : epochs'[d] = epochs[d]
        /\ seen' = [seen EXCEPT ![e].vetoed = TRUE] /\ approvals' = approvals
    BY <1>3, <1>5 DEF ChallengeDay
  <1>7. /\ seen'[e].proposedAt = seen[e].proposedAt /\ seen'[e].vetoed
        /\ \A d \in DayIds \ {e} : seen'[d] = seen[d]
        /\ seen' \in [DayIds -> [proposedAt : Nat, vetoed : BOOLEAN, accepted : Trees]]
    BY <1>3, <1>6
  <1>8. ReviewOf(e)'
    <2>1. ReviewOf(e)
      BY DEF DistributorInvariant, ReviewOK
    <2> QED
      BY <1>1, <1>4, <1>6, <1>7, <2>1 DEF ReviewOf
  <1>9. ReviewOK'
    BY <1>6, <1>7, <1>8, ReviewOfOthers DEF DistributorInvariant, ReviewOK
  <1> QED
    <2>1. UNCHANGED <<now, created, creditVars, cashVars>>
      BY DEF ChallengeDay
    <2> QED
      BY <1>1, <1>3, <1>4, <1>5, <1>6, <1>7, <1>9, <2>1, DayOpen, ReviewKeepsInvariant

\* An approval counts for the version it names only.
LEMMA ApproveDayKeeps ==
  ASSUME DistributorInvariant, NEW a \in approvals, ApproveDay(a)
  PROVE  DistributorInvariant'
  <1> DEFINE e == a.day
             day == [epochs[e] EXCEPT !.challenged = FALSE, !.finalized = TRUE]
  <1>1. /\ epochs \in [DayIds -> EpochState]
        /\ seen \in [DayIds -> [proposedAt : Nat, vetoed : BOOLEAN, accepted : Trees]]
        /\ approvals \subseteq [day : DayIds, version : Nat, leaves : Trees]
    BY DEF DistributorInvariant, TypeOK
  <1>2. e \in DayIds /\ a.leaves \in Trees
    BY <1>1
  <1>3. ~epochs[e].finalized /\ epochs[e].version = a.version
    BY DEF ApproveDay
  <1>4. ReviewOf(e)
    BY <1>2 DEF DistributorInvariant, ReviewOK
  <1>5. epochs[e].version # 0 /\ a.leaves = epochs[e].leaves
    BY <1>3, <1>4 DEF ReviewOf
  <1>6. epochs[e] \in EpochState
    BY <1>1, <1>2
  <1>7. /\ day \in EpochState /\ day.finalized
        /\ day.totalFees = epochs[e].totalFees /\ day.leaves = epochs[e].leaves
        /\ day.version = epochs[e].version /\ day.finalizeAfter = epochs[e].finalizeAfter
        /\ day.claimedFees = epochs[e].claimedFees /\ day.allocated = epochs[e].allocated
        /\ day.released = epochs[e].released
    BY <1>6 DEF EpochState
  <1>8. epochs' = [epochs EXCEPT ![e] = day]
    BY <1>1, <1>2 DEF ApproveDay
  <1>9. /\ approvals' = approvals \ {a} /\ seen' = [seen EXCEPT ![e].accepted = a.leaves]
        /\ UNCHANGED <<now, created, creditVars, cashVars>>
    BY DEF ApproveDay
  <1> HIDE DEF day, e
  <1>10. epochs'[e] = day /\ \A d \in DayIds \ {e} : epochs'[d] = epochs[d]
    BY <1>1, <1>2, <1>8
  <1>11. /\ seen'[e].proposedAt = seen[e].proposedAt /\ seen'[e].vetoed = seen[e].vetoed
         /\ seen'[e].accepted = a.leaves
         /\ \A d \in DayIds \ {e} : seen'[d] = seen[d]
         /\ seen' \in [DayIds -> [proposedAt : Nat, vetoed : BOOLEAN, accepted : Trees]]
    BY <1>1, <1>2, <1>9
  <1>12. approvals' \subseteq approvals
    BY <1>9
  <1>13. ReviewOf(e)'
    BY <1>4, <1>5, <1>7, <1>10, <1>11, <1>12 DEF ReviewOf
  <1>14. ReviewOK'
    BY <1>10, <1>11, <1>12, <1>13, ReviewOfOthers DEF DistributorInvariant, ReviewOK
  <1> QED
    BY <1>1, <1>2, <1>3, <1>5, <1>7, <1>8, <1>9, <1>11, <1>12, <1>14, DayOpen, ReviewKeepsInvariant

\* Finalizing fixes the leaves of the version that was reviewed.
LEMMA FinalizeDayKeeps ==
  ASSUME DistributorInvariant, NEW e \in DayIds, FinalizeDay(e)
  PROVE  DistributorInvariant'
  <1> DEFINE day == [epochs[e] EXCEPT !.finalized = TRUE]
  <1>1. ~epochs[e].finalized /\ epochs[e].version # 0 /\ ~epochs[e].challenged
    BY DEF FinalizeDay
  <1>2. epochs[e] \in EpochState
    BY <1>1, DayOpen
  <1>3. /\ epochs \in [DayIds -> EpochState]
        /\ seen \in [DayIds -> [proposedAt : Nat, vetoed : BOOLEAN, accepted : Trees]]
        /\ approvals \subseteq [day : DayIds, version : Nat, leaves : Trees]
    BY DEF DistributorInvariant, TypeOK
  <1>4. /\ day \in EpochState /\ day.finalized
        /\ day.totalFees = epochs[e].totalFees /\ day.leaves = epochs[e].leaves
        /\ day.version = epochs[e].version /\ day.finalizeAfter = epochs[e].finalizeAfter
        /\ day.claimedFees = epochs[e].claimedFees /\ day.allocated = epochs[e].allocated
        /\ day.released = epochs[e].released
    BY <1>2 DEF EpochState
  <1>5. epochs' = [epochs EXCEPT ![e] = day]
    BY <1>3 DEF FinalizeDay
  <1>6. UNCHANGED <<now, created, approvals, seen, creditVars, cashVars>>
    BY DEF FinalizeDay
  <1> HIDE DEF day
  <1>7. epochs'[e] = day /\ \A d \in DayIds \ {e} : epochs'[d] = epochs[d]
    BY <1>3, <1>5
  <1>8. ReviewOf(e)'
    <2>1. ReviewOf(e)
      BY DEF DistributorInvariant, ReviewOK
    <2> QED
      BY <1>1, <1>4, <1>6, <1>7, <2>1 DEF ReviewOf
  <1>9. ReviewOK'
    BY <1>6, <1>7, <1>8, ReviewOfOthers DEF DistributorInvariant, ReviewOK
  <1> QED
    BY <1>1, <1>3, <1>4, <1>5, <1>6, <1>9, DayOpen, ReviewKeepsInvariant

\* A day that lapses has no fees, and so owes nobody.
LEMMA LapseDayKeeps ==
  ASSUME DistributorInvariant, NEW e \in DayIds, LapseDay(e)
  PROVE  DistributorInvariant'
  <1> DEFINE day == [epochs[e] EXCEPT !.finalized = TRUE, !.leaves = {}, !.totalFees = 0]
  <1>1. ~epochs[e].finalized /\ e[1] \in created
    BY DEF LapseDay
  <1>2. epochs[e] \in EpochState
    BY <1>1, DayOpen
  <1>3. /\ epochs \in [DayIds -> EpochState]
        /\ seen \in [DayIds -> [proposedAt : Nat, vetoed : BOOLEAN, accepted : Trees]]
        /\ approvals \subseteq [day : DayIds, version : Nat, leaves : Trees]
    BY DEF DistributorInvariant, TypeOK
  <1>4. /\ day \in EpochState /\ day.finalized /\ day.totalFees = 0 /\ day.leaves = {}
        /\ day.version = epochs[e].version
        /\ day.claimedFees = epochs[e].claimedFees /\ day.allocated = epochs[e].allocated
        /\ day.released = epochs[e].released
    BY <1>2 DEF EpochState, Trees
  <1>5. epochs' = [epochs EXCEPT ![e] = day]
    BY <1>3 DEF LapseDay
  <1>6. UNCHANGED <<now, created, approvals, seen, creditVars, cashVars>>
    BY DEF LapseDay
  <1> HIDE DEF day
  <1>7. epochs'[e] = day /\ \A d \in DayIds \ {e} : epochs'[d] = epochs[d]
    BY <1>3, <1>5
  <1>8. ReviewOf(e)'
    <2>1. ReviewOf(e)
      BY DEF DistributorInvariant, ReviewOK
    <2> QED
      BY <1>1, <1>4, <1>6, <1>7, <2>1 DEF ReviewOf
  <1>9. ReviewOK'
    BY <1>6, <1>7, <1>8, ReviewOfOthers DEF DistributorInvariant, ReviewOK
  <1> QED
    BY <1>1, <1>3, <1>4, <1>5, <1>6, <1>9, DayOpen, ReviewKeepsInvariant

\* An approval is sent for leaves that were looked at.
LEMMA SendApprovalKeeps ==
  ASSUME DistributorInvariant, NEW e \in DayIds, SendApproval(e)
  PROVE  DistributorInvariant'
  <1>1. /\ epochs' = epochs /\ seen' = seen /\ UNCHANGED <<now, created, creditVars, cashVars>>
        /\ approvals' = approvals \cup {[day |-> e, version |-> epochs[e].version, leaves |-> epochs[e].leaves]}
        /\ epochs[e].version # 0
    BY DEF SendApproval
  <1>2. epochs[e] \in EpochState
    BY DEF DistributorInvariant, TypeOK
  <1>3. epochs[e].version \in Nat /\ epochs[e].leaves \in Trees
    BY <1>2 DEF EpochState
  <1>4. TypeOK'
    BY <1>1, <1>3 DEF DistributorInvariant, TypeOK, creditVars, cashVars
  <1>5. ASSUME NEW d \in DayIds
        PROVE  ReviewOf(d)'
    <2>1. ReviewOf(d)
      BY DEF DistributorInvariant, ReviewOK
    <2> QED
      BY <1>1, <1>3, <2>1 DEF ReviewOf
  <1>6. DaysOK'
    BY <1>1 DEF DistributorInvariant, DaysOK, Owable, Left, cashVars
  <1>7. StacksOK' /\ CashAccounted'
    <2>1. ReviewStep
      BY <1>1 DEF ReviewStep
    <2> QED
      BY <2>1, ReviewKeepsAccounts
  <1> QED
    BY <1>4, <1>5, <1>6, <1>7 DEF DistributorInvariant, ReviewOK

-----------------------------------------------------------------------------
(* Cash.                                                                     *)

\* Days, payers, accounts and stacks are finitely many, so there are sums over them.
LEMMA FiniteIndexes ==
  /\ IsFiniteSet(DayIds) /\ IsFiniteSet(Payers) /\ IsFiniteSet(Accounts) /\ IsFiniteSet(StackKeys)
  <1>1. IsFiniteSet(DayIds)
    <2> DEFINE f == [c \in Campaigns |-> {c} \X (0..Terms[c].days - 1)]
    <2>1. IsFiniteSet({f[c] : c \in Campaigns})
      <3> HIDE DEF f
      <3> QED
        BY ImageFinite, DistributorAssumption
    <2>2. ASSUME NEW T \in {f[c] : c \in Campaigns}
          PROVE  IsFiniteSet(T)
      <3> HIDE DEF f
      <3>1. PICK c \in Campaigns : T = f[c]
        OBVIOUS
      <3>2. f[c] = {c} \X (0..Terms[c].days - 1)
        BY DEF f
      <3>3. Terms[c].days - 1 \in Int /\ 0 \in Int
        BY TermTypes
      <3>4. IsFiniteSet(0..Terms[c].days - 1)
        BY <3>3, FS_Interval
      <3>5. IsFiniteSet({c})
        BY FS_Singleton
      <3>6. IsFiniteSet({c} \X (0..Terms[c].days - 1))
        BY <3>4, <3>5, FS_Product
      <3> QED
        BY <3>1, <3>2, <3>6
    <2>3. DayIds = UNION {f[c] : c \in Campaigns}
      BY DEF DayIds
    <2> HIDE DEF f
    <2> QED
      BY <2>1, <2>2, <2>3, FS_UNION
  <1>2. IsFiniteSet(Payers)
    <2> DEFINE f == [r \in Referrals |-> r[2]]
    <2>1. IsFiniteSet({f[r] : r \in Referrals})
      <3> HIDE DEF f
      <3> QED
        BY ImageFinite, DistributorAssumption
    <2>2. Payers = {f[r] : r \in Referrals}
      BY DEF Payers
    <2> HIDE DEF f
    <2> QED
      BY <2>1, <2>2
  <1>3. IsFiniteSet(Accounts)
    <2> DEFINE f == [r \in Referrals |-> r[3]]
    <2>1. IsFiniteSet({f[r] : r \in Referrals})
      <3> HIDE DEF f
      <3> QED
        BY ImageFinite, DistributorAssumption
    <2>2. Accounts = Payers \cup {f[r] : r \in Referrals}
      BY DEF Accounts
    <2> HIDE DEF f
    <2> QED
      BY <1>2, <2>1, <2>2, FS_Union
  <1>4. IsFiniteSet(StackKeys)
    <2> DEFINE f == [d \in DayIds \X Payers |-> StackKey(d[1], d[2])]
    <2>1. IsFiniteSet(DayIds \X Payers)
      BY <1>1, <1>2, FS_Product
    <2>2. IsFiniteSet({f[d] : d \in DayIds \X Payers})
      <3> HIDE DEF f
      <3> QED
        BY <2>1, ImageFinite
    <2>3. ASSUME NEW k \in StackKeys
          PROVE  k \in {f[d] : d \in DayIds \X Payers}
      <3>1. PICK e \in DayIds, q \in Payers : k = StackKey(e, q)
        BY DEF StackKeys
      <3>2. <<e, q>> \in DayIds \X Payers /\ f[<<e, q>>] = k
        BY <3>1
      <3> HIDE DEF f
      <3> QED
        BY <3>2
    <2>4. StackKeys \in SUBSET {f[d] : d \in DayIds \X Payers}
      BY <2>3
    <2> HIDE DEF f
    <2> QED
      BY <2>2, <2>4, FS_Subset
  <1> QED
    BY <1>1, <1>2, <1>3, <1>4

DaysOf(c) == {e \in CreatedDays : TermsOf(e).currency = c}

Budgets == [e \in DayIds |-> Left(e)]

\* Nothing is owed that is not reserved.
LEMMA ReserveCovers ==
  ASSUME DistributorInvariant
  PROVE  /\ \A e \in DayIds : Left(e) \in Nat /\ Owable(e) \in Nat
         /\ \A c \in Currencies :
              /\ IsFiniteSet(DaysOf(c)) /\ DaysOf(c) \subseteq DayIds
              /\ SumFunctionOnSet(Budgets, DaysOf(c)) \in Nat
              /\ SumFunctionOnSet(claimable[c], Accounts) \in Nat
              /\ reservedCash[c] = SumFunctionOnSet(Budgets, DaysOf(c)) + SumFunctionOnSet(claimable[c], Accounts)
              /\ \A e \in DaysOf(c) : Left(e) <= reservedCash[c]
              /\ \A a \in Accounts : claimable[c][a] \in Nat /\ claimable[c][a] <= reservedCash[c]
  <1>1. ASSUME NEW e \in DayIds
        PROVE  Left(e) \in Nat /\ Owable(e) \in Nat
    <2>1. /\ epochs[e] \in EpochState /\ refunded[e] \in Nat
      BY DEF DistributorInvariant, TypeOK
    <2>2. /\ epochs[e].totalFees \in Nat /\ epochs[e].claimedFees \in Nat /\ epochs[e].allocated \in Nat
      BY <2>1 DEF EpochState
    <2>3. epochs[e].claimedFees <= epochs[e].totalFees /\ Owable(e) <= Left(e)
      BY DEF DistributorInvariant, DaysOK
    <2>4. epochs[e].totalFees - epochs[e].claimedFees \in Nat
      BY <2>2, <2>3
    <2>5. Owable(e) \in Nat
      BY <2>4, DayTermTypes, PartTypes DEF Owable
    <2>6. Left(e) \in Int
      BY <2>1, <2>2, DayTermTypes DEF Left
    <2> QED
      BY <2>3, <2>5, <2>6
  <1>2. ASSUME NEW c \in Currencies
        PROVE  /\ IsFiniteSet(DaysOf(c)) /\ DaysOf(c) \subseteq DayIds
               /\ SumFunctionOnSet(Budgets, DaysOf(c)) \in Nat
               /\ SumFunctionOnSet(claimable[c], Accounts) \in Nat
               /\ reservedCash[c] = SumFunctionOnSet(Budgets, DaysOf(c)) + SumFunctionOnSet(claimable[c], Accounts)
               /\ \A e \in DaysOf(c) : Left(e) <= reservedCash[c]
               /\ \A a \in Accounts : claimable[c][a] \in Nat /\ claimable[c][a] <= reservedCash[c]
    <2>1. DaysOf(c) \subseteq DayIds
      BY DEF DaysOf, CreatedDays
    <2>2. IsFiniteSet(DaysOf(c)) /\ IsFiniteSet(Accounts)
      BY <2>1, FiniteIndexes, FS_Subset
    <2>3. \A e \in DaysOf(c) : Budgets[e] \in Nat /\ Budgets[e] = Left(e)
      BY <1>1, <2>1 DEF Budgets
    <2>4. \A a \in Accounts : claimable[c][a] \in Nat
      BY DEF DistributorInvariant, TypeOK
    <2>5. /\ SumFunctionOnSet(Budgets, DaysOf(c)) \in Nat
          /\ SumFunctionOnSet(claimable[c], Accounts) \in Nat
      BY <2>2, <2>3, <2>4, SumNatural
    <2>6. reservedCash[c] = SumFunctionOnSet(Budgets, DaysOf(c)) + SumFunctionOnSet(claimable[c], Accounts)
      BY DEF DistributorInvariant, CashAccounted, Budgets, DaysOf
    <2>7. \A e \in DaysOf(c) : Left(e) <= SumFunctionOnSet(Budgets, DaysOf(c))
      BY <2>2, <2>3, SumOfTerm
    <2>8. \A a \in Accounts : claimable[c][a] <= SumFunctionOnSet(claimable[c], Accounts)
      BY <2>2, <2>4, SumOfTerm
    <2>9. \A e \in DaysOf(c) : Left(e) <= reservedCash[c]
      BY <1>1, <2>1, <2>5, <2>6, <2>7
    <2>10. \A a \in Accounts : claimable[c][a] <= reservedCash[c]
      BY <2>4, <2>5, <2>6, <2>8
    <2> QED
      BY <2>1, <2>2, <2>4, <2>5, <2>6, <2>9, <2>10
  <1> QED
    BY <1>1, <1>2

\* What a payment of a part of the reserve does to it and to the balance.
LEMMA Payment ==
  ASSUME TypeOK, NEW c \in Currencies, NEW owed \in Nat, NEW consent, owed <= reservedCash[c],
         Pay(c, owed, consent)
  PROVE  /\ reservedCash' \in [Currencies -> Nat] /\ held' \in [Currencies -> Nat]
         /\ reservedCash'[c] = reservedCash[c] - owed
         /\ \A d \in Currencies \ {c} : reservedCash'[d] = reservedCash[d] /\ held'[d] = held[d]
         /\ held[c] >= reservedCash[c] => held'[c] = held[c] - owed
         /\ held[c] < reservedCash[c] =>
              held'[c] * reservedCash[c] >= held[c] * reservedCash'[c] /\ held'[c] < held[c]
  <1> DEFINE h == held[c]
             r == reservedCash[c]
             paid == Paid(c, owed)
  <1>1. /\ reservedCash \in [Currencies -> Nat] /\ held \in [Currencies -> Nat] /\ h \in Nat /\ r \in Nat
    BY DEF TypeOK
  <1>2. /\ reservedCash' = [reservedCash EXCEPT ![c] = r - owed]
        /\ held' = [held EXCEPT ![c] = h - paid]
        /\ h < r => paid # 0
    BY DEF Pay
  <1>3. paid = IF h < r THEN (owed * h) \div r ELSE owed
    BY DEF Paid
  <1>4. owed <= r
    OBVIOUS
  <1> HIDE DEF h, r, paid
  <1>5. CASE h < r
    <2>1. owed * h \in Nat /\ r \in Nat \ {0}
      BY <1>1, <1>5
    <2>2. paid \in Nat /\ paid * r <= owed * h
      BY <1>3, <1>5, <2>1, DivisionBounds
    <2>3. owed * h <= r * h /\ r * h = h * r
      BY <1>1, <1>4, ProductMonotone
    <2>4. paid * r <= h * r
      BY <1>1, <2>1, <2>2, <2>3
    <2>5. paid <= h
      <3> SUFFICES ASSUME h < paid
                   PROVE  FALSE
        BY <1>1, <2>2
      <3>1. h * r < paid * r
        BY <1>1, <2>1, <2>2
      <3> QED
        BY <1>1, <2>1, <2>2, <2>4, <3>1
    <2>6. (h - paid) * r = h * r - paid * r /\ h * (r - owed) = h * r - owed * h
      BY <1>1, <2>1, <2>2
    <2>7. h - paid \in Nat /\ r - owed \in Nat
      BY <1>1, <1>4, <2>2, <2>5
    <2>8. (h - paid) * r >= h * (r - owed)
      <3>1. h * r \in Int /\ paid * r \in Int /\ owed * h \in Int
        BY <1>1, <2>1, <2>2
      <3> QED
        BY <2>2, <2>6, <3>1
    <2>9. h - paid < h
      BY <1>1, <1>2, <1>5, <2>2
    <2>10. reservedCash'[c] = r - owed /\ held'[c] = h - paid
      BY <1>1, <1>2
    <2>11. /\ reservedCash' \in [Currencies -> Nat] /\ held' \in [Currencies -> Nat]
           /\ \A d \in Currencies \ {c} : reservedCash'[d] = reservedCash[d] /\ held'[d] = held[d]
      BY <1>1, <1>2, <2>7
    <2>12. ~(h >= r)
      BY <1>1, <1>5
    <2> QED
      BY <2>8, <2>9, <2>10, <2>11, <2>12 DEF h, r
  <1>6. CASE ~(h < r)
    <2>1. paid = owed /\ h >= r
      BY <1>1, <1>3, <1>6
    <2>2. h - owed \in Nat /\ r - owed \in Nat
      BY <1>1, <1>4, <2>1
    <2>3. reservedCash'[c] = r - owed /\ held'[c] = h - owed
      BY <1>1, <1>2, <2>1
    <2>4. /\ reservedCash' \in [Currencies -> Nat] /\ held' \in [Currencies -> Nat]
          /\ \A d \in Currencies \ {c} : reservedCash'[d] = reservedCash[d] /\ held'[d] = held[d]
      BY <1>1, <1>2, <2>1, <2>2
    <2> QED
      BY <1>6, <2>3, <2>4 DEF h, r
  <1> QED
    BY <1>5, <1>6

\* A step that leaves the leaves, the versions and the finality of the days alone.
DaysStand ==
  \A e \in DayIds : /\ epochs'[e].leaves = epochs[e].leaves /\ epochs'[e].version = epochs[e].version
                    /\ epochs'[e].finalizeAfter = epochs[e].finalizeAfter
                    /\ epochs'[e].challenged = epochs[e].challenged
                    /\ epochs'[e].finalized = epochs[e].finalized

\* A step that leaves the days' reviews alone keeps their invariant.
LEMMA ReviewStands ==
  ASSUME ReviewOK, DaysStand, UNCHANGED <<approvals, seen>>
  PROVE  ReviewOK'
  <1> SUFFICES ASSUME NEW e \in DayIds
               PROVE  ReviewOf(e)'
    BY DEF ReviewOK
  <1>1. ReviewOf(e)
    BY DEF ReviewOK
  <1> QED
    BY <1>1 DEF ReviewOf, DaysStand

\* A step that credits nobody keeps the stacks' invariant.
LEMMA StacksStand ==
  ASSUME StacksOK, DaysStand, UNCHANGED <<credited, stacks>>,
         \A e \in DayIds : epochs'[e].allocated = epochs[e].allocated
  PROVE  StacksOK'
  <1>1. [e \in DayIds |-> epochs[e].allocated]' = [e \in DayIds |-> epochs[e].allocated]
    OBVIOUS
  <1>2. ASSUME NEW k \in StackKeys
        PROVE  LeavesCredited(k)' = LeavesCredited(k)
    <2>1. ASSUME NEW leaf
          PROVE  leaf \in LeavesCredited(k)' <=> leaf \in LeavesCredited(k)
      BY CreditedLeaf, CreditedLeafNext DEF DaysStand
    <2> QED
      BY <2>1
  <1> QED
    BY <1>1, <1>2 DEF StacksOK, DaysStand

\* A claim takes what it pays, or what it forgoes, from the reserve.
LEMMA ClaimKeeps ==
  ASSUME DistributorInvariant, NEW c \in Currencies, NEW a \in Accounts, NEW consent,
         NEW amount \in 1..claimable[c][a], Claim(c, a, amount, consent)
  PROVE  DistributorInvariant'
  <1>1. /\ claimable' = [claimable EXCEPT ![c][a] = @ - amount] /\ Pay(c, amount, consent)
        /\ UNCHANGED <<now, created, dayVars, credited, stacks, refunded>>
    BY DEF Claim
  <1>2. claimable \in [Currencies -> [Accounts -> Nat]] /\ TypeOK
    BY DEF DistributorInvariant, TypeOK
  <1>3. /\ amount \in Nat /\ claimable[c][a] \in Nat /\ claimable[c][a] - amount \in Nat
        /\ amount <= reservedCash[c]
    <2>1. claimable[c][a] \in Nat /\ claimable[c][a] <= reservedCash[c] /\ reservedCash[c] \in Nat
      BY <1>2, ReserveCovers DEF TypeOK
    <2> QED
      BY <2>1
  <1>4. /\ reservedCash' \in [Currencies -> Nat] /\ held' \in [Currencies -> Nat]
        /\ reservedCash'[c] = reservedCash[c] - amount
        /\ \A d \in Currencies \ {c} : reservedCash'[d] = reservedCash[d] /\ held'[d] = held[d]
        /\ held[c] >= reservedCash[c] => held'[c] = held[c] - amount
    BY <1>1, <1>2, <1>3, Payment
  <1>5. /\ claimable' \in [Currencies -> [Accounts -> Nat]]
        /\ claimable'[c][a] = claimable[c][a] - amount
        /\ \A b \in Accounts \ {a} : claimable'[c][b] = claimable[c][b]
        /\ \A d \in Currencies \ {c} : claimable'[d] = claimable[d]
    BY <1>1, <1>2, <1>3
  <1>6. TypeOK'
    BY <1>1, <1>4, <1>5 DEF DistributorInvariant, TypeOK, dayVars
  <1>7. DaysOK' /\ ReviewOK'
    BY <1>1 DEF DistributorInvariant, DaysOK, Owable, Left, ReviewOK, ReviewOf, dayVars
  <1>8. StacksOK'
    BY <1>1, StacksStand DEF DaysStand, DistributorInvariant, dayVars
  <1>9. ASSUME NEW d \in Currencies
        PROVE  /\ reservedCash'[d] = SumFunctionOnSet(Budgets, DaysOf(d)) + SumFunctionOnSet(claimable'[d], Accounts)
               /\ d \notin Rebasing => held'[d] = reservedCash'[d]
    <2>1. /\ SumFunctionOnSet(Budgets, DaysOf(d)) \in Nat
          /\ SumFunctionOnSet(claimable[d], Accounts) \in Nat
          /\ reservedCash[d] = SumFunctionOnSet(Budgets, DaysOf(d)) + SumFunctionOnSet(claimable[d], Accounts)
          /\ d \notin Rebasing => held[d] = reservedCash[d]
      BY ReserveCovers DEF DistributorInvariant, CashAccounted
    <2>2. CASE d = c
      <3>1. SumFunctionOnSet(claimable'[c], Accounts)
              = SumFunctionOnSet(claimable[c], Accounts) + (claimable'[c][a] - claimable[c][a])
        <4> DEFINE f == claimable[c]
                   g == claimable'[c]
        <4>1. /\ \A b \in Accounts : f[b] \in Int /\ g[b] \in Int
              /\ \A b \in Accounts \ {a} : f[b] = g[b]
          BY <1>2, <1>5
        <4> HIDE DEF f, g
        <4>2. SumFunctionOnSet(g, Accounts) = SumFunctionOnSet(f, Accounts) + (g[a] - f[a])
          BY <4>1, FiniteIndexes, SumChange
        <4> QED
          BY <4>2 DEF f, g
      <3>2. claimable'[c][a] - claimable[c][a] = 0 - amount
        BY <1>3, <1>5
      <3>3. reservedCash'[c] = SumFunctionOnSet(Budgets, DaysOf(c)) + SumFunctionOnSet(claimable'[c], Accounts)
        BY <1>3, <1>4, <2>1, <2>2, <3>1, <3>2
      <3>4. c \notin Rebasing => held'[c] = reservedCash'[c]
        BY <1>2, <1>4, <2>1, <2>2 DEF TypeOK
      <3> QED
        BY <2>2, <3>3, <3>4
    <2>3. CASE d # c
      BY <1>4, <1>5, <2>1, <2>3
    <2> QED
      BY <2>2, <2>3
  <1>10. CashAccounted'
    <2>1. [e \in DayIds |-> Left(e)]' = Budgets /\ CreatedDays' = CreatedDays
      BY <1>1 DEF Budgets, Left, CreatedDays, dayVars
    <2> QED
      BY <1>9, <2>1 DEF CashAccounted, DaysOf
  <1> QED
    BY <1>6, <1>7, <1>8, <1>10 DEF DistributorInvariant

\* A currency that shrinks or grows changes what is held, not what is owed.
LEMMA RebaseKeeps ==
  ASSUME DistributorInvariant, NEW c \in Currencies, NEW b \in Balances, Rebase(c, b)
  PROVE  DistributorInvariant'
  <1>1. /\ c \in Rebasing /\ held' = [held EXCEPT ![c] = b]
        /\ UNCHANGED <<now, created, dayVars, creditVars, refunded, reservedCash>>
    BY DEF Rebase
  <1>2. held \in [Currencies -> Nat] /\ b \in Nat
    BY DistributorAssumption DEF DistributorInvariant, TypeOK
  <1>3. TypeOK'
    BY <1>1, <1>2 DEF DistributorInvariant, TypeOK, dayVars, creditVars
  <1>4. DaysOK' /\ ReviewOK'
    BY <1>1 DEF DistributorInvariant, DaysOK, Owable, Left, ReviewOK, ReviewOf, dayVars
  <1>5. StacksOK'
    BY <1>1, StacksStand DEF DaysStand, DistributorInvariant, dayVars, creditVars
  <1>6. CashAccounted'
    <2>1. [e \in DayIds |-> Left(e)]' = [e \in DayIds |-> Left(e)] /\ CreatedDays' = CreatedDays
      BY <1>1 DEF Left, CreatedDays, dayVars
    <2>2. \A d \in Currencies : d \notin Rebasing => held'[d] = held[d]
      BY <1>1, <1>2
    <2>3. reservedCash' = reservedCash /\ claimable' = claimable
      BY <1>1 DEF creditVars
    <2> QED
      BY <2>1, <2>2, <2>3 DEF DistributorInvariant, CashAccounted
  <1> QED
    BY <1>3, <1>4, <1>5, <1>6 DEF DistributorInvariant

\* Time passes, or nothing happens.
LEMMA ClockKeeps ==
  ASSUME DistributorInvariant, now' \in Nat, UNCHANGED <<created, dayVars, creditVars, cashVars>>
  PROVE  DistributorInvariant'
  <1>1. TypeOK'
    BY DEF DistributorInvariant, TypeOK, dayVars, creditVars, cashVars
  <1>2. DaysOK' /\ ReviewOK'
    BY DEF DistributorInvariant, DaysOK, Owable, Left, ReviewOK, ReviewOf, dayVars, cashVars
  <1>3. StacksOK'
    BY StacksStand DEF DaysStand, DistributorInvariant, dayVars, creditVars
  <1>4. CashAccounted'
    <2>1. [e \in DayIds |-> Left(e)]' = [e \in DayIds |-> Left(e)] /\ CreatedDays' = CreatedDays
      BY DEF Left, CreatedDays, dayVars, cashVars
    <2>2. reservedCash' = reservedCash /\ claimable' = claimable /\ held' = held
      BY DEF creditVars, cashVars
    <2> QED
      BY <2>1, <2>2 DEF DistributorInvariant, CashAccounted
  <1> QED
    BY <1>1, <1>2, <1>3, <1>4 DEF DistributorInvariant

\* What the days of a currency have left, when what one day has left changes.
LEMMA BudgetChange ==
  ASSUME DistributorInvariant, created' = created, NEW e \in DayIds, e[1] \in created, NEW left \in Int,
         Left(e)' = left, \A d \in DayIds \ {e} : Left(d)' = Left(d), NEW c \in Currencies
  PROVE  SumFunctionOnSet(Budgets', DaysOf(c)')
           = SumFunctionOnSet(Budgets, DaysOf(c)) + (IF TermsOf(e).currency = c THEN left - Left(e) ELSE 0)
  <1>1. DaysOf(c)' = DaysOf(c)
    BY DEF DaysOf, CreatedDays
  <1> DEFINE f == Budgets
             g == Budgets'
             S == DaysOf(c)
  <1>2. /\ \A d \in DayIds : f[d] = Left(d)
        /\ \A d \in DayIds : g[d] = Left(d)'
    BY DEF Budgets
  <1>3. IsFiniteSet(S) /\ S \subseteq DayIds /\ \A d \in DayIds : Left(d) \in Int
    BY ReserveCovers
  <1>4. e \in S <=> TermsOf(e).currency = c
    BY DEF DaysOf, CreatedDays
  <1>5. \A d \in S : f[d] \in Int /\ g[d] \in Int
    BY <1>2, <1>3
  <1>6. \A d \in S : d # e => f[d] = g[d]
    BY <1>2, <1>3
  <1>7. f[e] = Left(e) /\ g[e] = left /\ SumFunctionOnSet(f, S) \in Int
    BY <1>2, <1>3, <1>5, SumType
  <1>8. SumFunctionOnSet(g, S) = SumFunctionOnSet(f, S) + (IF e \in S THEN g[e] - f[e] ELSE 0)
    <2> HIDE DEF f, g, S
    <2>1. CASE e \in S
      BY <1>3, <1>5, <1>6, <2>1, SumChange
    <2>2. CASE e \notin S
      <3>1. SumFunctionOnSet(f, S) = SumFunctionOnSet(g, S)
        BY <1>3, <1>6, <2>2, SumSame
      <3> QED
        BY <1>7, <2>2, <3>1
    <2> QED
      BY <2>1, <2>2
  <1> QED
    BY <1>1, <1>4, <1>7, <1>8

\* What a creator takes back was nobody's.
LEMMA ReleaseRemainderKeeps ==
  ASSUME DistributorInvariant, NEW e \in DayIds, NEW consent, ReleaseRemainder(e, consent)
  PROVE  DistributorInvariant'
  <1> DEFINE amount == Left(e) - Owable(e)
             c == TermsOf(e).currency
             day == [epochs[e] EXCEPT !.released = (Owable(e) = 0)]
  <1>1. /\ epochs[e].finalized /\ ~epochs[e].released /\ amount >= 0
        /\ epochs' = [epochs EXCEPT ![e].released = (Owable(e) = 0)]
        /\ refunded' = [refunded EXCEPT ![e] = @ + amount]
        /\ IF amount # 0 THEN Pay(c, amount, consent) ELSE UNCHANGED <<reservedCash, held>>
        /\ UNCHANGED <<now, created, approvals, seen, creditVars>>
    BY DEF ReleaseRemainder
  <1>2. /\ epochs \in [DayIds -> EpochState] /\ refunded \in [DayIds -> Nat] /\ TypeOK
        /\ epochs[e] \in EpochState
        /\ reservedCash \in [Currencies -> Nat] /\ held \in [Currencies -> Nat]
    BY DEF DistributorInvariant, TypeOK
  <1>3. e[1] \in created
    BY <1>1 DEF DistributorInvariant, DaysOK, EmptyEpoch
  <1>4. c \in Currencies /\ e \in DaysOf(c)
    BY <1>3, DayTermTypes DEF DaysOf, CreatedDays
  <1>5. Left(e) \in Nat /\ Owable(e) \in Nat /\ Left(e) <= reservedCash[c] /\ reservedCash[c] \in Nat
    BY <1>2, <1>4, ReserveCovers
  <1>6. amount \in Nat /\ amount <= reservedCash[c]
    BY <1>1, <1>5
  <1>7. /\ reservedCash' \in [Currencies -> Nat] /\ held' \in [Currencies -> Nat]
        /\ reservedCash'[c] = reservedCash[c] - amount
        /\ \A d \in Currencies \ {c} : reservedCash'[d] = reservedCash[d] /\ held'[d] = held[d]
        /\ held[c] >= reservedCash[c] => held'[c] = held[c] - amount
    <2> HIDE DEF amount, c
    <2>1. CASE amount # 0
      BY <1>1, <1>2, <1>4, <1>6, <2>1, Payment
    <2>2. CASE amount = 0
      BY <1>1, <1>2, <1>4, <1>5, <2>2
    <2> QED
      BY <2>1, <2>2
  <1>8. epochs' = [epochs EXCEPT ![e] = day]
    BY <1>1, <1>2
  <1>9. /\ day \in EpochState /\ (day.released <=> Owable(e) = 0) /\ day.finalized = epochs[e].finalized
        /\ day.totalFees = epochs[e].totalFees /\ day.leaves = epochs[e].leaves
        /\ day.version = epochs[e].version /\ day.finalizeAfter = epochs[e].finalizeAfter
        /\ day.claimedFees = epochs[e].claimedFees /\ day.allocated = epochs[e].allocated
        /\ day.challenged = epochs[e].challenged
    BY <1>2 DEF EpochState
  <1> HIDE DEF day, amount, c
  <1>10. /\ epochs' \in [DayIds -> EpochState] /\ epochs'[e] = day
         /\ \A d \in DayIds \ {e} : epochs'[d] = epochs[d]
         /\ refunded' \in [DayIds -> Nat] /\ refunded'[e] = refunded[e] + amount
         /\ \A d \in DayIds \ {e} : refunded'[d] = refunded[d]
    BY <1>1, <1>2, <1>6, <1>8, <1>9
  <1>11. TypeOK'
    BY <1>1, <1>2, <1>7, <1>10 DEF TypeOK, creditVars
  <1>12. /\ Owable(e)' = Owable(e) /\ Left(e)' = Owable(e)
         /\ \A d \in DayIds \ {e} : Owable(d)' = Owable(d) /\ Left(d)' = Left(d)
    <2>1. Owable(e)' = Owable(e) /\ \A d \in DayIds \ {e} : Owable(d)' = Owable(d) /\ Left(d)' = Left(d)
      BY <1>9, <1>10 DEF Owable, Left
    <2>2. Left(e)' = Left(e) - amount
      <3>1. refunded[e] \in Nat /\ epochs[e].allocated \in Nat /\ TermsOf(e).dailyBudget \in Nat
        BY <1>2, DayTermTypes DEF EpochState
      <3>2. Left(e)' = TermsOf(e).dailyBudget - epochs[e].allocated - (refunded[e] + amount)
        BY <1>9, <1>10 DEF Left
      <3> QED
        BY <1>6, <3>1, <3>2 DEF Left
    <2>3. Left(e) - amount = Owable(e)
      BY <1>5 DEF amount
    <2> QED
      BY <2>1, <2>2, <2>3
  <1>13. DaysOK'
    <2> SUFFICES ASSUME NEW d \in DayIds
                 PROVE  /\ d[1] \notin created' => epochs'[d] = EmptyEpoch
                        /\ ~epochs'[d].finalized =>
                             epochs'[d].claimedFees = 0 /\ epochs'[d].allocated = 0 /\ refunded'[d] = 0
                               /\ ~epochs'[d].released
                        /\ epochs'[d].claimedFees <= epochs'[d].totalFees
                        /\ Owable(d)' <= Left(d)'
                        /\ epochs'[d].released => Left(d)' = 0
      BY DEF DaysOK
    <2>1. created' = created
      BY <1>1
    <2>2. epochs[d].claimedFees <= epochs[d].totalFees
      BY DEF DistributorInvariant, DaysOK
    <2>3. CASE d = e
      <3>1. d[1] \in created' /\ epochs'[d].finalized
        BY <1>1, <1>3, <1>9, <1>10, <2>1, <2>3
      <3>2. epochs'[d].claimedFees <= epochs'[d].totalFees
        BY <1>9, <1>10, <2>2, <2>3
      <3>3. Owable(d)' <= Left(d)'
        BY <1>5, <1>12, <2>3
      <3>4. epochs'[d].released => Left(d)' = 0
        BY <1>9, <1>10, <1>12, <2>3
      <3> QED
        BY <3>1, <3>2, <3>3, <3>4
    <2>4. CASE d # e
      BY <1>10, <1>12, <2>1, <2>4 DEF DistributorInvariant, DaysOK
    <2> QED
      BY <2>3, <2>4
  <1>14. DaysStand /\ \A d \in DayIds : epochs'[d].allocated = epochs[d].allocated
    BY <1>9, <1>10 DEF DaysStand
  <1>15. ReviewOK' /\ StacksOK'
    BY <1>1, <1>14, ReviewStands, StacksStand DEF DistributorInvariant, creditVars
  <1>16. CashAccounted'
    <2> SUFFICES ASSUME NEW d \in Currencies
                 PROVE  /\ reservedCash'[d] = SumFunctionOnSet(Budgets', DaysOf(d)') + SumFunctionOnSet(claimable'[d], Accounts)
                        /\ d \notin Rebasing => held'[d] = reservedCash'[d]
      BY DEF CashAccounted, Budgets, DaysOf
    <2>1. /\ SumFunctionOnSet(Budgets, DaysOf(d)) \in Nat
          /\ SumFunctionOnSet(claimable[d], Accounts) \in Nat
          /\ reservedCash[d] = SumFunctionOnSet(Budgets, DaysOf(d)) + SumFunctionOnSet(claimable[d], Accounts)
          /\ d \notin Rebasing => held[d] = reservedCash[d]
      BY ReserveCovers DEF DistributorInvariant, CashAccounted
    <2>2. SumFunctionOnSet(Budgets', DaysOf(d)')
            = SumFunctionOnSet(Budgets, DaysOf(d)) + (IF c = d THEN Owable(e) - Left(e) ELSE 0)
      BY <1>1, <1>3, <1>5, <1>12, BudgetChange DEF c
    <2>3. Owable(e) - Left(e) = 0 - amount
      BY <1>5 DEF amount
    <2>4. claimable' = claimable
      BY <1>1 DEF creditVars
    <2>5. CASE d = c
      <3>1. reservedCash'[d] = SumFunctionOnSet(Budgets', DaysOf(d)') + SumFunctionOnSet(claimable'[d], Accounts)
        BY <1>6, <1>7, <2>1, <2>2, <2>3, <2>4, <2>5
      <3>2. d \notin Rebasing => held'[d] = reservedCash'[d]
        BY <1>2, <1>7, <2>1, <2>5
      <3> QED
        BY <3>1, <3>2
    <2>6. CASE d # c
      BY <1>7, <2>1, <2>2, <2>4, <2>6
    <2> QED
      BY <2>5, <2>6
  <1> QED
    BY <1>11, <1>13, <1>15, <1>16 DEF DistributorInvariant

\* A campaign brings the budget of all of its days.
LEMMA CreateCampaignKeeps ==
  ASSUME DistributorInvariant, NEW k \in Campaigns, CreateCampaign(k)
  PROVE  DistributorInvariant'
  <1> DEFINE c == Terms[k].currency
             budget == Terms[k].dailyBudget * Terms[k].days
             New == {k} \X (0..Terms[k].days - 1)
  <1>1. /\ k \notin created /\ created' = created \cup {k}
        /\ held' = [held EXCEPT ![c] = @ + budget]
        /\ reservedCash' = [reservedCash EXCEPT ![c] = @ + budget]
        /\ UNCHANGED <<now, dayVars, creditVars, refunded>>
    BY DEF CreateCampaign
  <1>2. /\ Terms[k].dailyBudget \in Nat /\ Terms[k].days \in Nat /\ budget \in Nat /\ c \in Currencies
    BY TermTypes
  <1>3. reservedCash \in [Currencies -> Nat] /\ held \in [Currencies -> Nat]
    BY DEF DistributorInvariant, TypeOK
  <1>4. /\ reservedCash' \in [Currencies -> Nat] /\ held' \in [Currencies -> Nat]
        /\ reservedCash'[c] = reservedCash[c] + budget /\ held'[c] = held[c] + budget
        /\ \A d \in Currencies \ {c} : reservedCash'[d] = reservedCash[d] /\ held'[d] = held[d]
    <2> HIDE DEF c, budget
    <2> QED
      BY <1>1, <1>2, <1>3
  <1>5. TypeOK'
    BY <1>1, <1>4 DEF DistributorInvariant, TypeOK, dayVars, creditVars
  <1>6. DaysOK' /\ ReviewOK'
    BY <1>1 DEF DistributorInvariant, DaysOK, Owable, Left, ReviewOK, ReviewOf, dayVars
  <1>7. StacksOK'
    BY <1>1, StacksStand DEF DaysStand, DistributorInvariant, dayVars, creditVars
  <1>8. /\ IsFiniteSet(New) /\ Cardinality(New) = Terms[k].days
    <2>1. IsFiniteSet({k}) /\ Cardinality({k}) = 1
      BY FS_Singleton
    <2>2. Terms[k].days - 1 \in Int /\ 0 \in Int /\ ~(0 > Terms[k].days - 1) /\ Terms[k].days - 1 - 0 + 1 = Terms[k].days
      BY TermTypes
    <2>3. IsFiniteSet(0..Terms[k].days - 1) /\ Cardinality(0..Terms[k].days - 1) = Terms[k].days
      BY <2>2, FS_Interval
    <2>4. IsFiniteSet(New) /\ Cardinality(New) = 1 * Terms[k].days
      BY <2>1, <2>3, FS_Product
    <2> QED
      BY <1>2, <2>4
  <1>9. /\ New \subseteq DayIds /\ \A e \in DayIds : e \in New <=> e[1] = k
    <2>1. New \subseteq DayIds
      BY DEF DayIds
    <2>2. ASSUME NEW e \in DayIds
          PROVE  e \in New <=> e[1] = k
      <3>1. e[2] \in 0..Terms[e[1]].days - 1 /\ e = <<e[1], e[2]>>
        BY DayTypes
      <3> QED
        BY <3>1
    <2> QED
      BY <2>1, <2>2
  <1>10. \A e \in DayIds : e[1] = k => Left(e) = Terms[k].dailyBudget
    <2> SUFFICES ASSUME NEW e \in DayIds, e[1] = k
                 PROVE  Left(e) = Terms[k].dailyBudget
      OBVIOUS
    <2>1. epochs[e] = EmptyEpoch
      BY <1>1 DEF DistributorInvariant, DaysOK
    <2>2. epochs[e].allocated = 0 /\ ~epochs[e].finalized
      BY <2>1 DEF EmptyEpoch
    <2>3. refunded[e] = 0
      BY <2>2 DEF DistributorInvariant, DaysOK
    <2>4. TermsOf(e).dailyBudget = Terms[k].dailyBudget
      BY DEF TermsOf
    <2> QED
      BY <1>2, <2>2, <2>3, <2>4 DEF Left
  <1> HIDE DEF New, c, budget
  <1>11. SumFunctionOnSet(Budgets, New) = budget
    <2>1. \A e \in New : Budgets[e] = Terms[k].dailyBudget
      BY <1>9, <1>10 DEF Budgets
    <2>2. SumFunctionOnSet(Budgets, New) = Terms[k].dailyBudget * Cardinality(New)
      BY <1>2, <1>8, <2>1, SumConstant
    <2> QED
      BY <1>8, <2>2 DEF budget
  <1>12. CashAccounted'
    <2> SUFFICES ASSUME NEW d \in Currencies
                 PROVE  /\ reservedCash'[d] = SumFunctionOnSet(Budgets', DaysOf(d)') + SumFunctionOnSet(claimable'[d], Accounts)
                        /\ d \notin Rebasing => held'[d] = reservedCash'[d]
      BY DEF CashAccounted, Budgets, DaysOf
    <2>1. /\ SumFunctionOnSet(Budgets, DaysOf(d)) \in Nat
          /\ SumFunctionOnSet(claimable[d], Accounts) \in Nat
          /\ reservedCash[d] = SumFunctionOnSet(Budgets, DaysOf(d)) + SumFunctionOnSet(claimable[d], Accounts)
          /\ d \notin Rebasing => held[d] = reservedCash[d]
      BY ReserveCovers DEF DistributorInvariant, CashAccounted
    <2>2. claimable' = claimable /\ Budgets' = Budgets
      BY <1>1 DEF creditVars, dayVars, Budgets, Left
    <2>3. \A e \in DayIds : e[1] = k => TermsOf(e).currency = c
      BY DEF TermsOf, c
    <2>4. CASE d = c
      <3>1. DaysOf(d)' = DaysOf(d) \cup New /\ DaysOf(d) \cap New = {}
        BY <1>1, <1>9, <2>3, <2>4 DEF DaysOf, CreatedDays
      <3>2. /\ IsFiniteSet(DaysOf(d)) /\ \A e \in DaysOf(d) \cup New : Budgets[e] \in Int
        <4>1. \A e \in DayIds : Budgets[e] \in Int
          BY ReserveCovers DEF Budgets
        <4>2. IsFiniteSet(DaysOf(d)) /\ DaysOf(d) \subseteq DayIds
          BY ReserveCovers
        <4> QED
          BY <1>9, <4>1, <4>2
      <3>3. SumFunctionOnSet(Budgets, DaysOf(d) \cup New) = SumFunctionOnSet(Budgets, DaysOf(d)) + SumFunctionOnSet(Budgets, New)
        BY <1>8, <3>1, <3>2, SumUnion
      <3>4. SumFunctionOnSet(Budgets', DaysOf(d)') = SumFunctionOnSet(Budgets, DaysOf(d)) + budget
        BY <1>11, <2>2, <3>1, <3>3
      <3>5. reservedCash'[d] = SumFunctionOnSet(Budgets', DaysOf(d)') + SumFunctionOnSet(claimable'[d], Accounts)
        BY <1>2, <1>4, <2>1, <2>2, <2>4, <3>4
      <3> QED
        BY <1>4, <2>1, <2>4, <3>5
    <2>5. CASE d # c
      <3>1. DaysOf(d)' = DaysOf(d)
        BY <1>1, <2>3, <2>5 DEF DaysOf, CreatedDays
      <3> QED
        BY <1>4, <2>1, <2>2, <2>5, <3>1
    <2> QED
      BY <2>4, <2>5
  <1> QED
    BY <1>5, <1>6, <1>7, <1>12 DEF DistributorInvariant

-----------------------------------------------------------------------------
(* A credit moves what it pays from the day's budget to two accounts.        *)

\* What a credit finds, and the bounds of what it pays.
LEMMA CreditBounds ==
  ASSUME DistributorInvariant, NEW e \in DayIds, NEW leaf \in epochs[e].leaves, Creditable(e, leaf)
  PROVE  /\ leaf.payer \in Payers /\ leaf.payer \in Accounts /\ leaf.referrer \in Accounts
         /\ leaf.fees \in Nat \ {0} /\ epochs[e].finalized /\ e[1] \in created
         /\ epochs[e].claimedFees + leaf.fees <= epochs[e].totalFees
         /\ Commission(e, leaf) \in Nat /\ Cashback(e, leaf) \in Nat
         /\ Commission(e, leaf) + Cashback(e, leaf)
              + Part(epochs[e].totalFees - (epochs[e].claimedFees + leaf.fees), Rate(TermsOf(e))) <= Left(e)
         /\ Commission(e, leaf) + Cashback(e, leaf) + Part(epochs[e].totalFees - (epochs[e].claimedFees + leaf.fees), Rate(TermsOf(e)))
              <= Owable(e)
  <1>1. leaf.payer \in Payers /\ leaf.payer \in Accounts /\ leaf.referrer \in Accounts
    <2>1. <<e[1], leaf.payer, leaf.referrer>> \in Referrals
      BY DEF Creditable
    <2> DEFINE r == <<e[1], leaf.payer, leaf.referrer>>
    <2>2. r \in Referrals /\ r[2] = leaf.payer /\ r[3] = leaf.referrer
      BY <2>1
    <2> HIDE DEF r
    <2>3. r[2] \in {q[2] : q \in Referrals} /\ r[3] \in {q[3] : q \in Referrals}
      BY <2>2
    <2> QED
      BY <2>2, <2>3 DEF Payers, Accounts
  <1>2. /\ TypeOK /\ epochs[e] \in EpochState
    BY DEF DistributorInvariant, TypeOK
  <1>3. /\ epochs[e].totalFees \in Nat /\ epochs[e].claimedFees \in Nat
    BY <1>2 DEF EpochState
  <1>4. leaf.fees \in Nat
    BY <1>2, LeafTypes
  <1>5. leaf.fees \in Nat \ {0} /\ leaf.fees <= epochs[e].totalFees - epochs[e].claimedFees
    BY <1>4 DEF Creditable
  <1> DEFINE rest == epochs[e].totalFees - (epochs[e].claimedFees + leaf.fees)
             rate == Rate(TermsOf(e))
             paid == Commission(e, leaf) + Cashback(e, leaf)
  <1>6. rest \in Nat /\ leaf.fees + rest = epochs[e].totalFees - epochs[e].claimedFees
    BY <1>3, <1>5
  <1>7. rate \in Nat
    BY DayTermTypes
  <1>8. /\ Commission(e, leaf) \in Nat /\ Cashback(e, leaf) \in Nat /\ paid \in Nat
        /\ paid <= Part(leaf.fees, rate)
    BY <1>1, <1>2, PayoutsFit
  <1>9. epochs[e].finalized /\ e[1] \in created
    BY DEF Creditable, DistributorInvariant, DaysOK, EmptyEpoch
  <1>10. Owable(e) = Part(epochs[e].totalFees - epochs[e].claimedFees, rate)
    BY DEF Owable
  <1> HIDE DEF rest, rate, paid
  <1>11. Part(leaf.fees, rate) + Part(rest, rate) <= Part(leaf.fees + rest, rate)
    BY <1>4, <1>6, <1>7, PartsOfAmounts
  <1>12. Part(leaf.fees, rate) \in Nat /\ Part(rest, rate) \in Nat
    BY <1>4, <1>6, <1>7, PartTypes
  <1>13. Owable(e) = Part(leaf.fees + rest, rate) /\ Owable(e) \in Nat /\ Left(e) \in Nat /\ Owable(e) <= Left(e)
    BY <1>6, <1>10, ReserveCovers DEF DistributorInvariant, DaysOK
  <1>14. paid + Part(rest, rate) <= Owable(e) /\ paid + Part(rest, rate) <= Left(e)
    BY <1>8, <1>11, <1>12, <1>13
  <1>15. epochs[e].claimedFees + leaf.fees <= epochs[e].totalFees
    BY <1>3, <1>5
  <1> QED
    BY <1>1, <1>5, <1>8, <1>9, <1>14, <1>15 DEF rest, rate, paid

\* The stack of the payer: its payouts grow within the cap of its basis.
LEMMA CreditKeepsStacks ==
  ASSUME DistributorInvariant, NEW e \in DayIds, NEW leaf \in epochs[e].leaves, CreditDay(e, leaf)
  PROVE  StacksOK'
  <1> DEFINE k == StackKey(e, leaf.payer)
             com == Commission(e, leaf)
             back == Cashback(e, leaf)
             basis == Basis(e, leaf)
  <1>1. /\ Creditable(e, leaf)
        /\ stacks' = [stacks EXCEPT ![k] = [feeBasis |-> basis, paid |-> stacks[k].paid + com + back]]
        /\ credited' = credited \cup {<<e, leaf.payer>>}
        /\ epochs' = [epochs EXCEPT ![e].claimedFees = @ + leaf.fees, ![e].allocated = @ + com + back]
    BY DEF CreditDay
  <1>2. /\ TypeOK /\ epochs \in [DayIds -> EpochState] /\ epochs[e] \in EpochState
        /\ stacks \in [StackKeys -> [feeBasis : Nat, paid : Nat]]
    BY DEF DistributorInvariant, TypeOK
  <1>3. /\ leaf.payer \in Payers /\ leaf.fees \in Nat \ {0} /\ com \in Nat /\ back \in Nat
        /\ epochs[e].finalized
    BY <1>1, CreditBounds
  <1>4. k \in StackKeys /\ KeyCap(k) = CapBps(TermsOf(e))
    BY <1>3, KeyTypes
  <1>5. /\ basis \in Nat /\ basis >= leaf.fees /\ basis >= stacks[k].feeBasis
        /\ basis \in {leaf.fees, stacks[k].feeBasis}
        /\ Room(e, leaf) \in Nat /\ com + back <= Room(e, leaf)
    BY <1>2, <1>3, PayoutsFit
  <1>6. Room(e, leaf) = Max({0, Part(basis, KeyCap(k)) - stacks[k].paid})
    BY <1>4 DEF Room
  <1>7. stacks[k].feeBasis \in Nat /\ stacks[k].paid \in Nat /\ epochs[e].allocated \in Nat
    BY <1>2, <1>4 DEF EpochState
  <1> HIDE DEF k, com, back, basis
  <1>8. /\ stacks'[k].feeBasis = basis /\ stacks'[k].paid = stacks[k].paid + com + back
        /\ \A j \in StackKeys \ {k} : stacks'[j] = stacks[j]
    BY <1>1, <1>2, <1>4
  <1>9. /\ epochs'[e].allocated = epochs[e].allocated + com + back
        /\ epochs'[e].leaves = epochs[e].leaves /\ epochs'[e].finalized = epochs[e].finalized
        /\ \A d \in DayIds \ {e} : epochs'[d] = epochs[d]
    BY <1>1, <1>2 DEF EpochState
  <1>10. \A d \in DayIds : epochs'[d].leaves = epochs[d].leaves /\ epochs'[d].finalized = epochs[d].finalized
    BY <1>9
  <1>11. stacks'[k].paid <= Part(basis, KeyCap(k))
    <2>1. Part(basis, KeyCap(k)) \in Nat /\ Part(stacks[k].feeBasis, KeyCap(k)) \in Nat
      BY <1>5, <1>7, PartTypes, CapTypes
    <2>2. Part(stacks[k].feeBasis, KeyCap(k)) <= Part(basis, KeyCap(k))
      BY <1>5, <1>7, PartMonotone, CapTypes
    <2>3. stacks[k].paid <= Part(stacks[k].feeBasis, KeyCap(k))
      BY <1>4 DEF DistributorInvariant, StacksOK
    <2>4. Part(basis, KeyCap(k)) - stacks[k].paid \in Nat
      BY <1>7, <2>1, <2>2, <2>3
    <2>5. Room(e, leaf) = Part(basis, KeyCap(k)) - stacks[k].paid
      <3> DEFINE spare == Part(basis, KeyCap(k)) - stacks[k].paid
      <3>1. spare \in Nat /\ Room(e, leaf) = Max({0, spare})
        BY <1>6, <2>4
      <3> HIDE DEF spare
      <3>2. Max({0, spare}) = IF 0 >= spare THEN 0 ELSE spare
        BY <3>1, LargerOfTwo
      <3>3. Room(e, leaf) = spare
        BY <3>1, <3>2
      <3> QED
        BY <3>3 DEF spare
    <2> QED
      BY <1>3, <1>5, <1>7, <1>8, <2>1, <2>5
  <1>12. leaf \in LeavesCredited(k)'
    <2>1. leaf \in epochs'[e].leaves /\ <<e, leaf.payer>> \in credited' /\ StackKey(e, leaf.payer) = k
      BY <1>1, <1>9 DEF k
    <2> QED
      BY <2>1, CreditedLeafNext
  <1>13. \A j \in StackKeys : \A l \in LeavesCredited(j) : l \in LeavesCredited(j)'
    <2>1. credited \subseteq credited'
      BY <1>1
    <2> QED
      BY <1>10, <2>1, CreditedLeaf, CreditedLeafNext
  <1>14. ASSUME NEW j \in StackKeys, j # k, NEW l \in LeavesCredited(j)'
         PROVE  l \in LeavesCredited(j)
    <2>1. PICK d \in DayIds : l \in epochs'[d].leaves /\ <<d, l.payer>> \in credited' /\ StackKey(d, l.payer) = j
      BY <1>14, CreditedLeafNext
    <2>2. <<d, l.payer>> # <<e, leaf.payer>>
      BY <1>14, <2>1 DEF k
    <2>3. <<d, l.payer>> \in credited
      BY <1>1, <2>1, <2>2
    <2> QED
      BY <1>10, <2>1, <2>3, CreditedLeaf
  <1>15. \E l \in LeavesCredited(k)' : l.fees = basis
    <2>1. CASE basis = leaf.fees
      BY <1>12, <2>1
    <2>2. CASE basis # leaf.fees
      <3>1. basis = stacks[k].feeBasis /\ stacks[k].feeBasis # 0
        BY <1>3, <1>5, <1>7, <2>2
      <3>2. \E l \in LeavesCredited(k) : l.fees = stacks[k].feeBasis
        BY <1>4, <3>1 DEF DistributorInvariant, StacksOK
      <3> QED
        BY <1>4, <1>13, <3>1, <3>2
    <2> QED
      BY <2>1, <2>2
  <1>16. ASSUME NEW j \in StackKeys
         PROVE  /\ stacks'[j].paid <= Part(stacks'[j].feeBasis, KeyCap(j))
                /\ IF stacks'[j].feeBasis = 0 THEN LeavesCredited(j)' = {}
                   ELSE \E l \in LeavesCredited(j)' : l.fees = stacks'[j].feeBasis
    <2>1. CASE j = k
      <3>1. basis # 0
        BY <1>3, <1>5
      <3> QED
        BY <1>8, <1>11, <1>15, <2>1, <3>1
    <2>2. CASE j # k
      <3>1. stacks'[j] = stacks[j]
        BY <1>8, <2>2
      <3>2. LeavesCredited(j)' = LeavesCredited(j)
        BY <1>13, <1>14, <2>2
      <3> QED
        BY <3>1, <3>2 DEF DistributorInvariant, StacksOK
    <2> QED
      BY <2>1, <2>2
  <1>17. ASSUME NEW d \in DayIds, NEW p \in Payers, <<d, p>> \in credited'
         PROVE  epochs'[d].finalized
    <2>1. CASE <<d, p>> \in credited
      BY <1>10, <2>1 DEF DistributorInvariant, StacksOK
    <2>2. CASE <<d, p>> = <<e, leaf.payer>>
      BY <1>3, <1>10, <2>2
    <2> QED
      BY <1>1, <1>17, <2>1, <2>2
  <1>18. SumFunctionOnSet([j \in StackKeys |-> stacks[j].paid]', StackKeys)
           = SumFunctionOnSet([d \in DayIds |-> epochs[d].allocated]', DayIds)
    <2> DEFINE f == [j \in StackKeys |-> stacks[j].paid]
               g == [j \in StackKeys |-> stacks'[j].paid]
               a == [d \in DayIds |-> epochs[d].allocated]
               b == [d \in DayIds |-> epochs'[d].allocated]
    <2>1. /\ \A j \in StackKeys : f[j] \in Int
          /\ \A d \in DayIds : a[d] \in Int
      BY <1>2 DEF EpochState
    <2>2. /\ g[k] = f[k] + com + back /\ \A j \in StackKeys \ {k} : f[j] = g[j]
      BY <1>4, <1>8
    <2>3. /\ b[e] = a[e] + com + back /\ \A d \in DayIds \ {e} : a[d] = b[d]
      BY <1>9
    <2>4. SumFunctionOnSet(f, StackKeys) = SumFunctionOnSet(a, DayIds)
      BY DEF DistributorInvariant, StacksOK
    <2> HIDE DEF f, g, a, b
    <2>5. /\ \A j \in StackKeys : g[j] \in Int
          /\ \A d \in DayIds : b[d] \in Int
      BY <1>3, <1>4, <2>1, <2>2, <2>3
    <2>6. SumFunctionOnSet(g, StackKeys) = SumFunctionOnSet(f, StackKeys) + (g[k] - f[k])
      BY <1>4, <2>1, <2>2, <2>5, FiniteIndexes, SumChange
    <2>7. SumFunctionOnSet(b, DayIds) = SumFunctionOnSet(a, DayIds) + (b[e] - a[e])
      BY <2>1, <2>3, <2>5, FiniteIndexes, SumChange
    <2>8. g[k] - f[k] = com + back /\ b[e] - a[e] = com + back
      BY <1>3, <1>4, <2>1, <2>2, <2>3
    <2>9. SumFunctionOnSet(g, StackKeys) = SumFunctionOnSet(b, DayIds)
      BY <2>4, <2>6, <2>7, <2>8
    <2> QED
      BY <2>9 DEF g, b
  <1> QED
    BY <1>16, <1>17, <1>18 DEF StacksOK

\* A credit moves its payout from the day to the accounts, within the budget and the
\* cap.
LEMMA CreditDayKeeps ==
  ASSUME DistributorInvariant, NEW e \in DayIds, NEW leaf \in epochs[e].leaves, CreditDay(e, leaf)
  PROVE  DistributorInvariant'
  <1> DEFINE com == Commission(e, leaf)
             back == Cashback(e, leaf)
             k == StackKey(e, leaf.payer)
             c == TermsOf(e).currency
             day == [epochs[e] EXCEPT !.claimedFees = @ + leaf.fees, !.allocated = @ + com + back]
             mid == [a \in Accounts |-> claimable[c][a] + (IF a = leaf.referrer THEN com ELSE 0)]
             accounts == [a \in Accounts |-> claimable[c][a] + (IF a = leaf.referrer THEN com ELSE 0)
                                                            + (IF a = leaf.payer THEN back ELSE 0)]
  <1>1. /\ Creditable(e, leaf)
        /\ stacks' = [stacks EXCEPT ![k] = [feeBasis |-> Basis(e, leaf), paid |-> stacks[k].paid + com + back]]
        /\ credited' = credited \cup {<<e, leaf.payer>>}
        /\ epochs' = [epochs EXCEPT ![e].claimedFees = @ + leaf.fees, ![e].allocated = @ + com + back]
        /\ UNCHANGED <<now, created, approvals, seen, cashVars>>
    BY DEF CreditDay
  <1>2. claimable' = [claimable EXCEPT ![c] = accounts]
    BY DEF CreditDay
  <1>3. /\ TypeOK /\ epochs \in [DayIds -> EpochState] /\ epochs[e] \in EpochState
        /\ stacks \in [StackKeys -> [feeBasis : Nat, paid : Nat]]
        /\ claimable \in [Currencies -> [Accounts -> Nat]]
        /\ refunded \in [DayIds -> Nat]
    BY DEF DistributorInvariant, TypeOK
  <1>4. /\ leaf.payer \in Payers /\ leaf.payer \in Accounts /\ leaf.referrer \in Accounts
        /\ leaf.fees \in Nat /\ com \in Nat /\ back \in Nat /\ epochs[e].finalized /\ e[1] \in created
        /\ epochs[e].claimedFees + leaf.fees <= epochs[e].totalFees
        /\ com + back + Part(epochs[e].totalFees - (epochs[e].claimedFees + leaf.fees), Rate(TermsOf(e))) <= Left(e)
    BY <1>1, CreditBounds
  <1>5. k \in StackKeys /\ Basis(e, leaf) \in Nat /\ stacks[k].paid \in Nat
    BY <1>3, <1>4, KeyTypes, PayoutsFit
  <1>6. c \in Currencies
    BY DayTermTypes
  <1>7. /\ epochs[e].claimedFees \in Nat /\ epochs[e].totalFees \in Nat /\ epochs[e].allocated \in Nat
    BY <1>3 DEF EpochState
  <1>8. /\ day \in EpochState /\ day.claimedFees = epochs[e].claimedFees + leaf.fees
        /\ day.allocated = epochs[e].allocated + com + back
        /\ day.totalFees = epochs[e].totalFees /\ day.leaves = epochs[e].leaves
        /\ day.version = epochs[e].version /\ day.finalizeAfter = epochs[e].finalizeAfter
        /\ day.challenged = epochs[e].challenged /\ day.finalized = epochs[e].finalized
        /\ day.released = epochs[e].released
    <2> HIDE DEF com, back
    <2>1. epochs[e].claimedFees + leaf.fees \in Nat /\ epochs[e].allocated + com + back \in Nat
      BY <1>4, <1>7
    <2> QED
      BY <1>3, <2>1 DEF EpochState
  <1>9. epochs' = [epochs EXCEPT ![e] = day]
    BY <1>1, <1>3
  <1> HIDE DEF day
  <1>10. epochs' \in [DayIds -> EpochState] /\ epochs'[e] = day /\ \A d \in DayIds \ {e} : epochs'[d] = epochs[d]
    BY <1>3, <1>8, <1>9
  <1>11. /\ claimable[c] \in [Accounts -> Nat] /\ mid \in [Accounts -> Nat] /\ accounts \in [Accounts -> Nat]
         /\ mid[leaf.referrer] = claimable[c][leaf.referrer] + com
         /\ \A a \in Accounts \ {leaf.referrer} : claimable[c][a] = mid[a]
         /\ accounts[leaf.payer] = mid[leaf.payer] + back
         /\ \A a \in Accounts \ {leaf.payer} : mid[a] = accounts[a]
    <2> HIDE DEF com, back, c
    <2>1. claimable[c] \in [Accounts -> Nat]
      BY <1>3, <1>6
    <2>2. /\ mid \in [Accounts -> Nat] /\ mid[leaf.referrer] = claimable[c][leaf.referrer] + com
          /\ \A a \in Accounts \ {leaf.referrer} : claimable[c][a] = mid[a]
      BY <1>4, <2>1
    <2>3. \A a \in Accounts : accounts[a] = mid[a] + (IF a = leaf.payer THEN back ELSE 0)
      OBVIOUS
    <2>4. \A a \in Accounts : accounts[a] \in Nat
      BY <1>4, <2>1
    <2>5. accounts \in [Accounts -> Nat]
      BY <2>4
    <2> HIDE DEF mid, accounts
    <2>6. /\ accounts[leaf.payer] = mid[leaf.payer] + back
          /\ \A a \in Accounts \ {leaf.payer} : mid[a] = accounts[a]
      BY <1>4, <2>2, <2>3
    <2> QED
      BY <2>1, <2>2, <2>5, <2>6
  <1> HIDE DEF mid, accounts
  <1>12. TypeOK'
    <2>1. stacks' \in [StackKeys -> [feeBasis : Nat, paid : Nat]]
      <3> HIDE DEF com, back, k
      <3>1. stacks[k].paid + com + back \in Nat
        BY <1>4, <1>5
      <3> QED
        BY <1>1, <1>3, <1>5, <3>1
    <2>2. claimable' \in [Currencies -> [Accounts -> Nat]]
      BY <1>2, <1>3, <1>11
    <2>3. credited' \subseteq DayIds \X Payers
      BY <1>1, <1>3, <1>4 DEF TypeOK
    <2> QED
      BY <1>1, <1>3, <1>10, <2>1, <2>2, <2>3 DEF TypeOK, cashVars
  <1>13. DaysStand
    BY <1>8, <1>10 DEF DaysStand
  <1>14. ReviewOK' /\ StacksOK'
    BY <1>1, <1>13, ReviewStands, CreditKeepsStacks DEF DistributorInvariant
  <1> HIDE DEF com, back, k
  <1>15. /\ Left(e) \in Nat /\ Left(e)' = Left(e) - (com + back)
         /\ Owable(e)' = Part(epochs[e].totalFees - (epochs[e].claimedFees + leaf.fees), Rate(TermsOf(e)))
         /\ \A d \in DayIds \ {e} : Owable(d)' = Owable(d) /\ Left(d)' = Left(d)
    <2>1. refunded' = refunded /\ refunded[e] \in Nat /\ TermsOf(e).dailyBudget \in Nat /\ Left(e) \in Nat
      BY <1>1, <1>3, DayTermTypes, ReserveCovers DEF cashVars
    <2>2. Left(e)' = TermsOf(e).dailyBudget - (epochs[e].allocated + com + back) - refunded[e]
      BY <1>8, <1>10, <2>1 DEF Left
    <2>3. Left(e)' = Left(e) - (com + back)
      BY <1>4, <1>7, <2>1, <2>2 DEF Left
    <2>4. /\ Owable(e)' = Part(epochs[e].totalFees - (epochs[e].claimedFees + leaf.fees), Rate(TermsOf(e)))
          /\ \A d \in DayIds \ {e} : Owable(d)' = Owable(d) /\ Left(d)' = Left(d)
      BY <1>8, <1>10, <2>1 DEF Owable, Left
    <2> QED
      BY <2>1, <2>3, <2>4
  <1>16. DaysOK'
    <2> SUFFICES ASSUME NEW d \in DayIds
                 PROVE  /\ d[1] \notin created' => epochs'[d] = EmptyEpoch
                        /\ ~epochs'[d].finalized =>
                             epochs'[d].claimedFees = 0 /\ epochs'[d].allocated = 0 /\ refunded'[d] = 0
                               /\ ~epochs'[d].released
                        /\ epochs'[d].claimedFees <= epochs'[d].totalFees
                        /\ Owable(d)' <= Left(d)'
                        /\ epochs'[d].released => Left(d)' = 0
      BY DEF DaysOK
    <2>1. created' = created /\ refunded' = refunded
      BY <1>1 DEF cashVars
    <2>2. CASE d = e
      <3> DEFINE owable == Part(epochs[e].totalFees - (epochs[e].claimedFees + leaf.fees), Rate(TermsOf(e)))
      <3>1. owable \in Nat
        <4>1. epochs[e].totalFees - (epochs[e].claimedFees + leaf.fees) \in Nat
          BY <1>4, <1>7
        <4> QED
          BY <4>1, PartTypes, DayTermTypes
      <3> HIDE DEF owable
      <3>2. com + back + owable <= Left(e) /\ Owable(d)' = owable /\ Left(d)' = Left(e) - (com + back)
        BY <1>4, <1>15, <2>2 DEF owable
      <3>3. Owable(d)' <= Left(d)'
        BY <1>4, <1>15, <3>1, <3>2
      <3>4. Left(e) = 0 => Left(d)' = 0
        BY <1>4, <3>1, <3>2
      <3>5. epochs[e].released => Left(e) = 0
        BY DEF DistributorInvariant, DaysOK
      <3> QED
        BY <1>4, <1>8, <1>10, <2>1, <2>2, <3>3, <3>4, <3>5
    <2>3. CASE d # e
      BY <1>10, <1>15, <2>1, <2>3 DEF DistributorInvariant, DaysOK
    <2> QED
      BY <2>2, <2>3
  <1>17. SumFunctionOnSet(accounts, Accounts) = SumFunctionOnSet(claimable[c], Accounts) + (com + back)
    <2> DEFINE f == claimable[c]
               x == leaf.referrer
               y == leaf.payer
    <2>1. /\ f \in [Accounts -> Nat] /\ mid[x] = f[x] + com /\ x \in Accounts /\ y \in Accounts
          /\ \A a \in Accounts \ {x} : f[a] = mid[a]
          /\ accounts[y] = mid[y] + back
      BY <1>4, <1>11
    <2> HIDE DEF f, x, y
    <2>2. \A a \in Accounts : f[a] \in Int /\ mid[a] \in Int /\ accounts[a] \in Int
      BY <1>11, <2>1
    <2>3. SumFunctionOnSet(mid, Accounts) = SumFunctionOnSet(f, Accounts) + (mid[x] - f[x])
      BY <2>1, <2>2, FiniteIndexes, SumChange
    <2>4. SumFunctionOnSet(accounts, Accounts) = SumFunctionOnSet(mid, Accounts) + (accounts[y] - mid[y])
      <3>1. \A a \in Accounts \ {y} : mid[a] = accounts[a]
        BY <1>11 DEF y
      <3> QED
        BY <2>1, <2>2, <3>1, FiniteIndexes, SumChange
    <2>5. mid[x] - f[x] = com /\ accounts[y] - mid[y] = back /\ SumFunctionOnSet(f, Accounts) \in Int
      BY <1>4, <2>1, <2>2, FiniteIndexes, SumType
    <2>6. SumFunctionOnSet(accounts, Accounts) = SumFunctionOnSet(f, Accounts) + (com + back)
      BY <1>4, <2>3, <2>4, <2>5
    <2> QED
      BY <2>6 DEF f
  <1>18. CashAccounted'
    <2> SUFFICES ASSUME NEW d \in Currencies
                 PROVE  /\ reservedCash'[d] = SumFunctionOnSet(Budgets', DaysOf(d)') + SumFunctionOnSet(claimable'[d], Accounts)
                        /\ d \notin Rebasing => held'[d] = reservedCash'[d]
      BY DEF CashAccounted, Budgets, DaysOf
    <2>1. /\ SumFunctionOnSet(Budgets, DaysOf(d)) \in Nat
          /\ SumFunctionOnSet(claimable[d], Accounts) \in Nat
          /\ reservedCash[d] = SumFunctionOnSet(Budgets, DaysOf(d)) + SumFunctionOnSet(claimable[d], Accounts)
          /\ d \notin Rebasing => held[d] = reservedCash[d]
      BY ReserveCovers DEF DistributorInvariant, CashAccounted
    <2>2. reservedCash' = reservedCash /\ held' = held
      BY <1>1 DEF cashVars
    <2>3. created' = created /\ Left(e) - (com + back) \in Int /\ Left(e) - (com + back) - Left(e) = 0 - (com + back)
      BY <1>1, <1>4, <1>15
    <2>4. SumFunctionOnSet(Budgets', DaysOf(d)')
            = SumFunctionOnSet(Budgets, DaysOf(d)) + (IF c = d THEN Left(e) - (com + back) - Left(e) ELSE 0)
      BY <1>4, <1>15, <2>3, BudgetChange
    <2>5. CASE d = c
      <3>1. claimable'[d] = accounts
        BY <1>2, <1>3, <2>5
      <3> HIDE DEF c
      <3> QED
        BY <1>4, <1>17, <2>1, <2>2, <2>3, <2>4, <2>5, <3>1
    <2>6. CASE d # c
      <3>1. claimable'[d] = claimable[d]
        BY <1>2, <1>3, <2>6
      <3> HIDE DEF c
      <3> QED
        BY <2>1, <2>2, <2>4, <2>6, <3>1
    <2> QED
      BY <2>5, <2>6
  <1> QED
    BY <1>12, <1>14, <1>16, <1>18 DEF DistributorInvariant

-----------------------------------------------------------------------------
(* The invariant.                                                            *)

\* The distributor starts with nothing owed.
LEMMA InitInvariant ==
  ASSUME Init
  PROVE  DistributorInvariant
  <1>1. /\ now = 0 /\ created = {} /\ epochs = [e \in DayIds |-> EmptyEpoch]
        /\ credited = {} /\ refunded = [e \in DayIds |-> 0]
        /\ stacks = [k \in StackKeys |-> [feeBasis |-> 0, paid |-> 0]]
        /\ claimable = [c \in Currencies |-> [a \in Accounts |-> 0]]
        /\ reservedCash = [c \in Currencies |-> 0] /\ held = [c \in Currencies |-> 0]
        /\ approvals = {}
        /\ seen = [e \in DayIds |-> [proposedAt |-> 0, vetoed |-> FALSE, accepted |-> {}]]
    BY DEF Init
  <1>2. EmptyEpoch \in EpochState /\ {} \in Trees
    BY DEF EmptyEpoch, EpochState, Trees
  <1>3. TypeOK
    <2>1. epochs \in [DayIds -> EpochState]
      BY <1>1, <1>2
    <2>2. /\ now \in Nat /\ created \subseteq Campaigns
          /\ credited \subseteq DayIds \X Payers /\ refunded \in [DayIds -> Nat]
          /\ stacks \in [StackKeys -> [feeBasis : Nat, paid : Nat]]
          /\ reservedCash \in [Currencies -> Nat] /\ held \in [Currencies -> Nat]
          /\ approvals \subseteq [day : DayIds, version : Nat, leaves : Trees]
      BY <1>1
    <2>3. claimable \in [Currencies -> [Accounts -> Nat]]
      BY <1>1
    <2>4. seen \in [DayIds -> [proposedAt : Nat, vetoed : BOOLEAN, accepted : Trees]]
      BY <1>1, <1>2
    <2> QED
      BY <2>1, <2>2, <2>3, <2>4 DEF TypeOK
  <1>4. \A e \in DayIds :
          /\ epochs[e] = EmptyEpoch /\ epochs[e].leaves = {} /\ epochs[e].totalFees = 0 /\ epochs[e].claimedFees = 0
          /\ epochs[e].allocated = 0 /\ ~epochs[e].finalized /\ ~epochs[e].released /\ refunded[e] = 0
    BY <1>1 DEF EmptyEpoch
  <1>5. ASSUME NEW e \in DayIds
        PROVE  Owable(e) = 0 /\ Left(e) \in Nat
    <2>1. Owable(e) = Part(0 - 0, Rate(TermsOf(e))) /\ Left(e) = TermsOf(e).dailyBudget - 0 - 0
      BY <1>4 DEF Owable, Left
    <2>2. 0 - 0 = 0
      OBVIOUS
    <2>3. Part(0, Rate(TermsOf(e))) = 0 /\ TermsOf(e).dailyBudget \in Nat
      BY DayTermTypes, PartTypes
    <2> QED
      BY <2>1, <2>2, <2>3
  <1>6. DaysOK
    BY <1>4, <1>5 DEF DaysOK
  <1>7. ReviewOK
    BY <1>1, <1>4 DEF ReviewOK, ReviewOf
  <1>8. StacksOK
    <2>1. ASSUME NEW k \in StackKeys
          PROVE  /\ stacks[k].paid <= Part(stacks[k].feeBasis, KeyCap(k)) /\ stacks[k].feeBasis = 0
                 /\ LeavesCredited(k) = {}
      <3>1. stacks[k].paid = 0 /\ stacks[k].feeBasis = 0
        BY <1>1
      <3>2. Part(0, KeyCap(k)) = 0
        BY PartTypes, CapTypes
      <3>3. \A leaf : leaf \notin LeavesCredited(k)
        BY <1>1, CreditedLeaf
      <3> QED
        BY <3>1, <3>2, <3>3
    <2>2. SumFunctionOnSet([k \in StackKeys |-> stacks[k].paid], StackKeys) = 0
      <3> DEFINE f == [k \in StackKeys |-> stacks[k].paid]
      <3>1. \A k \in StackKeys : f[k] = 0
        BY <1>1
      <3> HIDE DEF f
      <3>2. SumFunctionOnSet(f, StackKeys) = 0
        BY <3>1, FiniteIndexes, SumZero
      <3> QED
        BY <3>2 DEF f
    <2>3. SumFunctionOnSet([e \in DayIds |-> epochs[e].allocated], DayIds) = 0
      <3> DEFINE f == [e \in DayIds |-> epochs[e].allocated]
      <3>1. \A e \in DayIds : f[e] = 0
        BY <1>4
      <3> HIDE DEF f
      <3>2. SumFunctionOnSet(f, DayIds) = 0
        BY <3>1, FiniteIndexes, SumZero
      <3> QED
        BY <3>2 DEF f
    <2> QED
      BY <1>1, <2>1, <2>2, <2>3 DEF StacksOK
  <1>9. CashAccounted
    <2> SUFFICES ASSUME NEW c \in Currencies
                 PROVE  /\ reservedCash[c] = SumFunctionOnSet(Budgets, DaysOf(c)) + SumFunctionOnSet(claimable[c], Accounts)
                        /\ held[c] = reservedCash[c]
      BY DEF CashAccounted, Budgets, DaysOf
    <2>1. DaysOf(c) = {}
      BY <1>1 DEF DaysOf, CreatedDays
    <2>2. SumFunctionOnSet(Budgets, DaysOf(c)) = 0
      BY <2>1, SumEmpty
    <2>3. SumFunctionOnSet(claimable[c], Accounts) = 0
      <3> DEFINE f == claimable[c]
      <3>1. \A a \in Accounts : f[a] = 0
        BY <1>1
      <3> HIDE DEF f
      <3>2. SumFunctionOnSet(f, Accounts) = 0
        BY <3>1, FiniteIndexes, SumZero
      <3> QED
        BY <3>2 DEF f
    <2>4. reservedCash[c] = 0 /\ held[c] = 0 /\ 0 + 0 = 0
      BY <1>1
    <2> QED
      BY <2>2, <2>3, <2>4
  <1> QED
    BY <1>3, <1>6, <1>7, <1>8, <1>9 DEF DistributorInvariant

\* Every step keeps the invariant.
LEMMA NextKeeps ==
  ASSUME DistributorInvariant, [Next]_vars
  PROVE  DistributorInvariant'
  <1>1. ASSUME NEW c \in Campaigns, CreateCampaign(c)
        PROVE  DistributorInvariant'
    BY <1>1, CreateCampaignKeeps
  <1>2. ASSUME NEW e \in DayIds, NEW p \in Proposals, ProposeDay(e, p)
        PROVE  DistributorInvariant'
    BY <1>2, ProposeDayKeeps
  <1>3. ASSUME NEW e \in DayIds, ChallengeDay(e)
        PROVE  DistributorInvariant'
    BY <1>3, ChallengeDayKeeps
  <1>4. ASSUME NEW e \in DayIds, SendApproval(e)
        PROVE  DistributorInvariant'
    BY <1>4, SendApprovalKeeps
  <1>5. ASSUME NEW e \in DayIds, FinalizeDay(e)
        PROVE  DistributorInvariant'
    BY <1>5, FinalizeDayKeeps
  <1>6. ASSUME NEW e \in DayIds, LapseDay(e)
        PROVE  DistributorInvariant'
    BY <1>6, LapseDayKeeps
  <1>7. ASSUME NEW e \in DayIds, NEW leaf \in epochs[e].leaves, CreditDay(e, leaf)
        PROVE  DistributorInvariant'
    BY <1>7, CreditDayKeeps
  <1>8. ASSUME NEW e \in DayIds, NEW consent \in BOOLEAN, ReleaseRemainder(e, consent)
        PROVE  DistributorInvariant'
    BY <1>8, ReleaseRemainderKeeps
  <1>9. ASSUME NEW a \in approvals, ApproveDay(a)
        PROVE  DistributorInvariant'
    BY <1>9, ApproveDayKeeps
  <1>10. ASSUME NEW c \in Currencies, NEW a \in Accounts, NEW consent \in BOOLEAN,
                NEW amount \in 1..claimable[c][a], Claim(c, a, amount, consent)
         PROVE  DistributorInvariant'
    BY <1>10, ClaimKeeps
  <1>11. ASSUME NEW c \in Currencies, NEW b \in Balances, Rebase(c, b)
         PROVE  DistributorInvariant'
    BY <1>11, RebaseKeeps
  <1>12. CASE Tick
    <2>1. now \in Nat
      BY DEF DistributorInvariant, TypeOK
    <2>2. now' \in Nat /\ UNCHANGED <<created, dayVars, creditVars, cashVars>>
      BY <1>12, <2>1 DEF Tick
    <2> QED
      BY <2>2, ClockKeeps
  <1>13. CASE UNCHANGED vars
    <2>1. now' \in Nat /\ UNCHANGED <<created, dayVars, creditVars, cashVars>>
      BY <1>13 DEF vars, DistributorInvariant, TypeOK
    <2> QED
      BY <2>1, ClockKeeps
  <1> QED
    BY <1>1, <1>2, <1>3, <1>4, <1>5, <1>6, <1>7, <1>8, <1>9, <1>10, <1>11, <1>12, <1>13 DEF Next

\* The inductive invariant holds in every reachable state.
LEMMA AlwaysInvariant == Spec => []DistributorInvariant
  <1>1. Init => DistributorInvariant
    BY InitInvariant
  <1>2. DistributorInvariant /\ [Next]_vars => DistributorInvariant'
    BY NextKeeps
  <1> QED
    BY <1>1, <1>2, PTL DEF Spec

-----------------------------------------------------------------------------
(* The properties.                                                           *)

\* The state of the distributor has the types its storage declares, in particular no
\* balance, budget or fee ever runs below zero.
THEOREM DistributorTypeCorrect == Spec => []TypeOK
  <1>1. DistributorInvariant => TypeOK
    BY DEF DistributorInvariant
  <1> QED
    BY <1>1, AlwaysInvariant, PTL

\* The reserve of each currency is exactly what the created days have left and the
\* accounts can claim, for any campaigns, proposals, credits and releases, and a
\* currency that does not rebase is all there.
THEOREM CashIsAccounted == Spec => []CashAccounted
  <1>1. DistributorInvariant => CashAccounted
    BY DEF DistributorInvariant
  <1> QED
    BY <1>1, AlwaysInvariant, PTL

\* A leaf that can be credited finds its two payouts in the day's budget, whatever the
\* creator released before, and a day closed by a release has nothing left.
THEOREM CreditsFindBudget == Spec => []CreditsFindTheirBudget
  <1>1. ASSUME DistributorInvariant
        PROVE  CreditsFindTheirBudget
    <2>1. ASSUME NEW e \in DayIds, NEW leaf \in epochs[e].leaves, Creditable(e, leaf)
          PROVE  Commission(e, leaf) + Cashback(e, leaf) <= Left(e)
      <3> DEFINE rest == epochs[e].totalFees - (epochs[e].claimedFees + leaf.fees)
                 paid == Commission(e, leaf) + Cashback(e, leaf)
      <3>1. /\ leaf.fees \in Nat /\ epochs[e].claimedFees + leaf.fees <= epochs[e].totalFees
            /\ Commission(e, leaf) \in Nat /\ Cashback(e, leaf) \in Nat
            /\ paid + Part(rest, Rate(TermsOf(e))) <= Left(e)
        BY <1>1, <2>1, CreditBounds
      <3>2. epochs[e].totalFees \in Nat /\ epochs[e].claimedFees \in Nat
        BY <1>1 DEF DistributorInvariant, TypeOK, EpochState
      <3>3. rest \in Nat /\ paid \in Nat
        BY <3>1, <3>2
      <3>4. Left(e) \in Nat
        BY <1>1, ReserveCovers
      <3> HIDE DEF rest, paid
      <3>5. Part(rest, Rate(TermsOf(e))) \in Nat
        BY <3>3, PartTypes, DayTermTypes
      <3>6. paid <= Left(e)
        BY <3>1, <3>3, <3>4, <3>5
      <3> QED
        BY <3>6 DEF paid
    <2> QED
      BY <1>1, <2>1 DEF CreditsFindTheirBudget, DistributorInvariant, DaysOK
  <1> QED
    BY <1>1, AlwaysInvariant, PTL

\* The leaves credited on a stack have a largest.
LEMMA LeavesCreditedFinite ==
  ASSUME TypeOK, NEW k
  PROVE  IsFiniteSet(LeavesCredited(k)) /\ \A leaf \in LeavesCredited(k) : leaf.fees \in Nat
  <1> DEFINE f == [e \in DayIds |-> epochs[e].leaves]
             all == {f[e] : e \in DayIds}
  <1>1. \A e \in DayIds : f[e] = epochs[e].leaves
    OBVIOUS
  <1>2. IsFiniteSet(all)
    <2> HIDE DEF f
    <2> QED
      BY FiniteIndexes, ImageFinite
  <1> HIDE DEF f
  <1>3. ASSUME NEW T \in all
        PROVE  IsFiniteSet(T)
    <2>1. PICK e \in DayIds : T = epochs[e].leaves
      BY <1>1
    <2>2. epochs[e].leaves \in Trees
      BY DEF TypeOK, EpochState
    <2>3. IsFiniteSet({})
      BY FS_EmptySet
    <2> QED
      BY <2>1, <2>2, <2>3, DistributorAssumption DEF Trees
  <1>4. ASSUME NEW leaf \in LeavesCredited(k)
        PROVE  leaf \in UNION all /\ leaf.fees \in Nat
    <2>1. PICK e \in DayIds : leaf \in epochs[e].leaves
      BY CreditedLeaf
    <2>2. f[e] \in all
      OBVIOUS
    <2> QED
      BY <1>1, <2>1, <2>2, LeafTypes
  <1> HIDE DEF all
  <1>5. IsFiniteSet(UNION all)
    BY <1>2, <1>3, FS_UNION
  <1>6. LeavesCredited(k) \in SUBSET (UNION all)
    BY <1>4
  <1> QED
    BY <1>4, <1>5, <1>6, FS_Subset

\* All campaigns together pay out less than the largest fees credited for a payer, a
\* fee stream and a UTC day, within the cap of the stream, and the days' books agree.
THEOREM PayoutsStayBelowFees == Spec => []PayoutsBelowFees
  <1>1. ASSUME DistributorInvariant
        PROVE  PayoutsBelowFees
    <2>1. ASSUME NEW k \in StackKeys, NEW fees, fees = {leaf.fees : leaf \in LeavesCredited(k)},
                 NEW bps, bps = KeyCap(k)
          PROVE  IF fees = {} THEN stacks[k].paid = 0
                 ELSE stacks[k].paid < Max(fees) /\ stacks[k].paid * Bps <= Max(fees) * bps
      <3> DEFINE fb == stacks[k].feeBasis
                 paid == stacks[k].paid
      <3>1. fb \in Nat /\ paid \in Nat /\ bps \in Nat /\ bps < Bps /\ Bps \in Nat \ {0}
        BY <1>1, <2>1, CapTypes, ConstantTypes DEF DistributorInvariant, TypeOK
      <3>2. /\ paid <= Part(fb, bps)
            /\ IF fb = 0 THEN LeavesCredited(k) = {} ELSE \E leaf \in LeavesCredited(k) : leaf.fees = fb
        BY <1>1, <2>1 DEF DistributorInvariant, StacksOK
      <3>3. IsFiniteSet(LeavesCredited(k)) /\ \A leaf \in LeavesCredited(k) : leaf.fees \in Nat
        BY <1>1, LeavesCreditedFinite DEF DistributorInvariant
      <3> HIDE DEF fb, paid
      <3>4. CASE fees = {}
        <4>1. fb = 0
          BY <2>1, <3>2, <3>4
        <4>2. Part(0, bps) = 0
          BY <3>1, PartTypes
        <4>3. paid = 0
          BY <3>1, <3>2, <4>1, <4>2
        <4> QED
          BY <3>4, <4>3 DEF paid
      <3>5. CASE fees # {}
        <4>1. fb # 0 /\ fb \in fees
          BY <2>1, <3>2, <3>5
        <4>2. \A x \in fees : x \in Nat
          BY <2>1, <3>3
        <4>3. IsFiniteSet(fees)
          <5> DEFINE f == [leaf \in LeavesCredited(k) |-> leaf.fees]
          <5>1. IsFiniteSet({f[leaf] : leaf \in LeavesCredited(k)})
            <6> HIDE DEF f
            <6> QED
              BY <3>3, ImageFinite
          <5>2. {f[leaf] : leaf \in LeavesCredited(k)} = fees
            BY <2>1
          <5> QED
            BY <5>1, <5>2
        <4>4. \E m \in fees : \A x \in fees : m >= x
          <5>1. \A x \in fees : x \in Int
            BY <4>2
          <5> QED
            BY <3>5, <4>3, <5>1, FiniteMaximum
        <4> DEFINE max == Max(fees)
        <4>5. max \in fees /\ \A x \in fees : max >= x
          BY <4>4 DEF Max
        <4> HIDE DEF max
        <4>6. max \in Nat /\ fb <= max
          BY <3>1, <4>1, <4>2, <4>5
        <4>7. /\ fb * bps \in Nat /\ Part(fb, bps) \in Nat /\ Part(fb, bps) * Bps <= fb * bps
          BY <3>1, DivisionBounds DEF Part
        <4>8. paid * Bps <= fb * bps
          <5>1. paid * Bps <= Part(fb, bps) * Bps
            BY <3>1, <3>2, <4>7, ProductMonotone
          <5>2. paid * Bps \in Int /\ Part(fb, bps) * Bps \in Int
            BY <3>1, <4>7
          <5> QED
            BY <4>7, <5>1, <5>2
        <4>9. paid * Bps <= max * bps
          <5>1. fb * bps <= max * bps
            BY <3>1, <4>6, ProductMonotone
          <5>2. paid * Bps \in Int /\ max * bps \in Int
            BY <3>1, <4>6
          <5> QED
            BY <4>7, <4>8, <5>1, <5>2
        <4>10. fb * bps < fb * Bps
          BY <3>1, <4>1
        <4>11. paid < fb
          <5>1. paid * Bps < fb * Bps
            <6>1. paid * Bps \in Int /\ fb * Bps \in Int
              BY <3>1
            <6> QED
              BY <4>7, <4>8, <4>10, <6>1
          <5> QED
            BY <3>1, <5>1, ProductLess
        <4>12. paid < max
          BY <3>1, <4>6, <4>11
        <4> QED
          BY <3>5, <4>9, <4>12 DEF max, paid
      <3> QED
        BY <3>4, <3>5
    <2>2. SumFunctionOnSet([k \in StackKeys |-> stacks[k].paid], StackKeys)
            = SumFunctionOnSet([e \in DayIds |-> epochs[e].allocated], DayIds)
      BY <1>1 DEF DistributorInvariant, StacksOK
    <2> QED
      BY <2>1, <2>2 DEF PayoutsBelowFees, KeyCap
  <1> QED
    BY <1>1, AlwaysInvariant, PTL

\* Fees are credited only of a version that waited out its review, and of a day that
\* was ever vetoed only the leaves the reviewer accepted.
THEOREM CreditsReviewed == Spec => CreditsWereReviewed
  <1> DEFINE Reviewed(e) ==
        /\ now >= seen[e].proposedAt + TermsOf(e).reviewDelay
        /\ seen[e].vetoed => seen[e].accepted = epochs[e].leaves
  <1>1. ASSUME DistributorInvariant, NEW e \in DayIds, NEW leaf \in epochs[e].leaves, Creditable(e, leaf)
        PROVE  Reviewed(e)
    <2>1. ReviewOf(e)
      BY <1>1 DEF DistributorInvariant, ReviewOK
    <2>2. epochs[e].leaves # {} /\ epochs[e].finalized /\ now >= epochs[e].finalizeAfter
      BY <1>1 DEF Creditable
    <2> QED
      BY <2>1, <2>2 DEF ReviewOf
  <1>2. ASSUME DistributorInvariant, [Next]_vars, NEW e \in DayIds, epochs'[e].claimedFees # epochs[e].claimedFees
        PROVE  \E leaf \in epochs[e].leaves : Creditable(e, leaf)
    <2>1. epochs \in [DayIds -> EpochState] /\ epochs' # epochs
      BY <1>2 DEF DistributorInvariant, TypeOK
    <2>2. ASSUME NEW d \in DayIds, NEW p \in Proposals, ProposeDay(d, p)
          PROVE  FALSE
      BY <1>2, <2>1, <2>2 DEF ProposeDay, EpochState
    <2>3. ASSUME NEW d \in DayIds, ChallengeDay(d)
          PROVE  FALSE
      BY <1>2, <2>1, <2>3 DEF ChallengeDay, EpochState
    <2>4. ASSUME NEW d \in DayIds, FinalizeDay(d)
          PROVE  FALSE
      BY <1>2, <2>1, <2>4 DEF FinalizeDay, EpochState
    <2>5. ASSUME NEW d \in DayIds, LapseDay(d)
          PROVE  FALSE
      BY <1>2, <2>1, <2>5 DEF LapseDay, EpochState
    <2>6. ASSUME NEW d \in DayIds, NEW consent, ReleaseRemainder(d, consent)
          PROVE  FALSE
      BY <1>2, <2>1, <2>6 DEF ReleaseRemainder, EpochState
    <2>7. ASSUME NEW a \in approvals, ApproveDay(a)
          PROVE  FALSE
      <3>1. a.day \in DayIds
        BY <1>2 DEF DistributorInvariant, TypeOK
      <3> QED
        BY <1>2, <2>1, <2>7, <3>1 DEF ApproveDay, EpochState
    <2>8. ASSUME NEW d \in DayIds, NEW leaf \in epochs[d].leaves, CreditDay(d, leaf)
          PROVE  \E l \in epochs[e].leaves : Creditable(e, l)
      <3>1. d = e
        BY <1>2, <2>1, <2>8 DEF CreditDay
      <3> QED
        BY <2>8, <3>1 DEF CreditDay
    <2>9. ~UNCHANGED vars /\ ~Tick
      BY <2>1 DEF vars, dayVars, Tick
    <2>10. \A c \in Campaigns : ~CreateCampaign(c)
      BY <2>1 DEF CreateCampaign, dayVars
    <2>11. \A d \in DayIds : ~SendApproval(d)
      BY <2>1 DEF SendApproval
    <2>12. \A c \in Currencies, a \in Accounts, consent \in BOOLEAN : \A amount \in 1..claimable[c][a] :
             ~Claim(c, a, amount, consent)
      BY <2>1 DEF Claim, dayVars
    <2>13. \A c \in Currencies, b \in Balances : ~Rebase(c, b)
      BY <2>1 DEF Rebase, dayVars
    <2> QED
      BY <1>2, <2>2, <2>3, <2>4, <2>5, <2>6, <2>7, <2>8, <2>9, <2>10, <2>11, <2>12, <2>13 DEF Next
  <1>3. DistributorInvariant /\ [Next]_vars =>
          [\A e \in DayIds : epochs'[e].claimedFees # epochs[e].claimedFees => Reviewed(e)]_vars
    BY <1>1, <1>2
  <1> QED
    BY <1>3, AlwaysInvariant, PTL DEF Spec, CreditsWereReviewed

\* No payment leaves the others a smaller part of what they are owed, and with enough
\* for everyone each is paid in full, for all balances a currency can have.
THEOREM ShortfallIsShared == Spec => ShortfallShared
  <1> DEFINE Shared(c) ==
        reservedCash'[c] < reservedCash[c] =>
          IF held[c] < reservedCash[c]
            THEN held'[c] * reservedCash[c] >= held[c] * reservedCash'[c] /\ held'[c] < held[c]
            ELSE held[c] - held'[c] = reservedCash[c] - reservedCash'[c]
  <1>1. ASSUME DistributorInvariant, NEW c \in Currencies, NEW d \in Currencies, NEW owed \in Nat, NEW consent,
               owed <= reservedCash[d], Pay(d, owed, consent)
        PROVE  Shared(c)
    <2>1. TypeOK /\ reservedCash[c] \in Nat /\ held[c] \in Nat
      BY <1>1 DEF DistributorInvariant, TypeOK
    <2>2. /\ reservedCash'[d] = reservedCash[d] - owed
          /\ c # d => reservedCash'[c] = reservedCash[c]
          /\ held[d] >= reservedCash[d] => held'[d] = held[d] - owed
          /\ held[d] < reservedCash[d] =>
               held'[d] * reservedCash[d] >= held[d] * reservedCash'[d] /\ held'[d] < held[d]
      BY <1>1, <2>1, Payment
    <2>3. CASE c # d
      BY <2>1, <2>2, <2>3
    <2>4. CASE c = d /\ held[c] < reservedCash[c]
      BY <2>2, <2>4
    <2>5. CASE c = d /\ ~(held[c] < reservedCash[c])
      BY <2>1, <2>2, <2>5
    <2> QED
      BY <2>3, <2>4, <2>5
  <1>2. ASSUME DistributorInvariant, NEW c \in Currencies, reservedCash' = reservedCash
        PROVE  Shared(c)
    BY <1>2 DEF DistributorInvariant, TypeOK
  <1>3. ASSUME DistributorInvariant, [Next]_vars, NEW c \in Currencies
        PROVE  Shared(c)
    <2> HIDE DEF Shared
    <2>1. ASSUME NEW k \in Campaigns, CreateCampaign(k)
          PROVE  Shared(c)
      <3>1. reservedCash' = [reservedCash EXCEPT ![Terms[k].currency] = @ + Terms[k].dailyBudget * Terms[k].days]
        BY <2>1 DEF CreateCampaign
      <3>2. Terms[k].dailyBudget * Terms[k].days \in Nat /\ reservedCash \in [Currencies -> Nat]
        BY <1>3, TermTypes DEF DistributorInvariant, TypeOK
      <3>3. ~(reservedCash'[c] < reservedCash[c])
        <4> DEFINE budget == Terms[k].dailyBudget * Terms[k].days
        <4>1. budget \in Nat /\ reservedCash' = [reservedCash EXCEPT ![Terms[k].currency] = @ + budget]
          BY <3>1, <3>2
        <4> HIDE DEF budget
        <4> QED
          BY <3>2, <4>1
      <3> QED
        BY <3>3 DEF Shared
    <2>2. ASSUME NEW e \in DayIds, NEW consent, ReleaseRemainder(e, consent)
          PROVE  Shared(c)
      <3> DEFINE amount == Left(e) - Owable(e)
                 d == TermsOf(e).currency
      <3>1. /\ amount >= 0 /\ epochs[e].finalized
            /\ IF amount # 0 THEN Pay(d, amount, consent) ELSE UNCHANGED <<reservedCash, held>>
        BY <2>2 DEF ReleaseRemainder
      <3>2. e[1] \in created
        BY <1>3, <3>1 DEF DistributorInvariant, DaysOK, EmptyEpoch
      <3>3. d \in Currencies /\ e \in DaysOf(d)
        BY <3>2, DayTermTypes DEF DaysOf, CreatedDays
      <3>4. Left(e) \in Nat /\ Owable(e) \in Nat /\ Left(e) <= reservedCash[d] /\ reservedCash[d] \in Nat
        BY <1>3, <3>3, ReserveCovers DEF DistributorInvariant, TypeOK
      <3>5. amount \in Nat /\ amount <= reservedCash[d]
        BY <3>1, <3>4
      <3> HIDE DEF amount, d
      <3>6. CASE amount # 0
        BY <1>1, <1>3, <3>1, <3>3, <3>5, <3>6
      <3>7. CASE amount = 0
        BY <1>2, <1>3, <3>1, <3>7
      <3> QED
        BY <3>6, <3>7
    <2>3. ASSUME NEW d \in Currencies, NEW a \in Accounts, NEW consent, NEW amount \in 1..claimable[d][a],
                 Claim(d, a, amount, consent)
          PROVE  Shared(c)
      <3>1. claimable[d][a] \in Nat /\ claimable[d][a] <= reservedCash[d] /\ reservedCash[d] \in Nat
        BY <1>3, ReserveCovers DEF DistributorInvariant, TypeOK
      <3>2. amount \in Nat /\ amount <= reservedCash[d] /\ Pay(d, amount, consent)
        BY <2>3, <3>1 DEF Claim
      <3> QED
        BY <1>1, <1>3, <3>2
    <2>4. ASSUME NEW e \in DayIds, NEW p \in Proposals, ProposeDay(e, p)
          PROVE  reservedCash' = reservedCash
      BY <2>4 DEF ProposeDay, cashVars
    <2>5. ASSUME NEW e \in DayIds, ChallengeDay(e) \/ SendApproval(e) \/ FinalizeDay(e) \/ LapseDay(e)
          PROVE  reservedCash' = reservedCash
      BY <2>5 DEF ChallengeDay, SendApproval, FinalizeDay, LapseDay, cashVars
    <2>6. ASSUME NEW e \in DayIds, NEW leaf \in epochs[e].leaves, CreditDay(e, leaf)
          PROVE  reservedCash' = reservedCash
      BY <2>6 DEF CreditDay, cashVars
    <2>7. ASSUME NEW a \in approvals, ApproveDay(a)
          PROVE  reservedCash' = reservedCash
      BY <2>7 DEF ApproveDay, cashVars
    <2>8. ASSUME NEW d \in Currencies, NEW b \in Balances, Rebase(d, b)
          PROVE  reservedCash' = reservedCash
      BY <2>8 DEF Rebase
    <2>9. Tick \/ UNCHANGED vars => reservedCash' = reservedCash
      BY DEF Tick, vars, cashVars
    <2> QED
      BY <1>2, <1>3, <2>1, <2>2, <2>3, <2>4, <2>5, <2>6, <2>7, <2>8, <2>9 DEF Next
  <1>4. DistributorInvariant /\ [Next]_vars => [\A c \in Currencies : Shared(c)]_vars
    BY <1>3
  <1> QED
    BY <1>4, AlwaysInvariant, PTL DEF Spec, ShortfallShared

=============================================================================
