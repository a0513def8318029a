------------------------ MODULE HookrReferralDistributor -----------------------
(* Funded referral campaigns (HookrReferralDistributor.sol).  A campaign     *)
(* funds every day's budget when it is created.  For each of its days the    *)
(* attestor proposes the fees the referred payers paid, the campaign's       *)
(* reviewer may veto the day or approve a version, anyone finalizes or       *)
(* lapses it, the fees of a final day are credited leaf by leaf, and the     *)
(* creator takes back what can never be owed.  The campaigns of a currency   *)
(* share one balance, and those that commission the same fee stream share a  *)
(* payer's daily capacity.  A Merkle tree is the set of its leaves, and a    *)
(* leaf holds at most one payer's fees.                                      *)
EXTENDS Integers, FiniteSetsExt, Functions

CONSTANTS Campaigns,  \* the campaigns that may be created, each with its
          Terms,      \* terms, of which Policies are possible
          Policies,
          Eth,        \* the currency that is not an ERC-20
          Rebasing,   \* the currencies whose issuer may burn or rebase
          Crowned,    \* the pools with King of the Pool
          Referrals,  \* the campaign, payer and referrer that the referral registry answers for
          Proposals,  \* what an attestor may propose: leaves, and the sum it says they have
          Day, ProposalWindow, VetoGrace, Bps, MaxStackedBps, MaxKingStackedBps,
          MaxTime,    \* bound on the clock
          MaxVersion, \* bound on the proposals of a day
          Balances    \* what a burn, a gift or a rebase may leave of a currency

TermsOf(e) == Terms[e[1]]
Rate(t) == t.referrerBps + t.cashbackBps

Currencies == {Terms[c].currency : c \in Campaigns}
Payers == {r[2] : r \in Referrals}
Accounts == Payers \cup {r[3] : r \in Referrals}

ASSUME DistributorAssumption ==
  /\ {Day, ProposalWindow, VetoGrace, Bps, MaxStackedBps, MaxKingStackedBps, MaxTime, MaxVersion} \subseteq Nat
  /\ Day > 0 /\ MaxStackedBps < Bps /\ MaxKingStackedBps < Bps
  /\ Terms \in [Campaigns -> Policies]
  /\ \A t \in Policies :
       /\ {t.start, t.cashbackBps, t.reviewDelay} \subseteq Nat /\ t.start % Day = 0
       /\ {t.days, t.dailyBudget, t.walletFeeCap, t.referrerBps} \subseteq Nat \ {0}
       /\ Rate(t) < Bps /\ t.source \in {"protocol", "royalty"}
  /\ Eth \notin Rebasing /\ Balances \subseteq Nat
  /\ IsFiniteSet(Campaigns) /\ IsFiniteSet(Referrals)
  /\ \A p \in Proposals : p.totalFees \in Nat /\ IsFiniteSet(p.leaves) /\ \A l \in p.leaves : l.fees \in Nat

DayIds == UNION {{c} \X (0..Terms[c].days - 1) : c \in Campaigns}

VARIABLES
  now,
  created,      \* the campaigns created
  epochs,       \* _epochs: what was proposed for each day, and where it stands
  credited,     \* the pairs of a day and a payer credited
  refunded,     \* what each day returned to its creator
  stacks,       \* _stacks: the basis and the payouts of each payer, stream and day
  claimable,    \* by currency and account
  reservedCash, \* by currency
  held,         \* the balance of each currency
  approvals,    \* approvals reviewers have sent, with the leaves they had checked
  seen          \* history: when each day was last proposed, whether it was ever vetoed
                \* and the leaves its reviewer accepted

dayVars == <<epochs, approvals, seen>>
creditVars == <<credited, stacks, claimable>>
cashVars == <<refunded, reservedCash, held>>
vars == <<now, created, dayVars, creditVars, cashVars>>

EmptyEpoch ==
  [leaves |-> {}, totalFees |-> 0, claimedFees |-> 0, allocated |-> 0, finalizeAfter |-> 0,
   version |-> 0, challenged |-> FALSE, finalized |-> FALSE, released |-> FALSE]

\* The key of a payer's shared capacity: the fee stream, the UTC day and the payer.
StackKey(e, payer) ==
  LET t == TermsOf(e) IN <<t.pool, t.source, t.start \div Day + e[2], payer>>

StackKeys == {StackKey(e, payer) : e \in DayIds, payer \in Payers}

Init ==
  /\ now = 0 /\ created = {}
  /\ epochs = [e \in DayIds |-> EmptyEpoch]
  /\ credited = {} /\ refunded = [e \in DayIds |-> 0]
  /\ stacks = [k \in StackKeys |-> [feeBasis |-> 0, paid |-> 0]]
  /\ claimable = [c \in Currencies |-> [a \in Accounts |-> 0]]
  /\ reservedCash = [c \in Currencies |-> 0] /\ held = [c \in Currencies |-> 0]
  /\ approvals = {}
  /\ seen = [e \in DayIds |-> [proposedAt |-> 0, vetoed |-> FALSE, accepted |-> {}]]

Part(amount, bps) == (amount * bps) \div Bps

DayEnd(e) == TermsOf(e).start + (e[2] + 1) * Day

-----------------------------------------------------------------------------
(* Campaigns and cash.                                                       *)

\* createCampaign and _fund: every day's budget comes in, never next to a shortfall.
CreateCampaign(c) ==
  LET t == Terms[c]
      budget == t.dailyBudget * t.days
  IN  /\ c \notin created /\ now <= t.start
      /\ t.currency # Eth => held[t.currency] >= reservedCash[t.currency]
      /\ created' = created \cup {c}
      /\ held' = [held EXCEPT ![t.currency] = @ + budget]
      /\ reservedCash' = [reservedCash EXCEPT ![t.currency] = @ + budget]
      /\ UNCHANGED <<now, dayVars, creditVars, refunded>>

\* Fault: the share of a short balance is rounded up.
PaidRoundedUp(currency, owed) ==
  IF held[currency] < reservedCash[currency]
    THEN (owed * held[currency] + reservedCash[currency] - 1) \div reservedCash[currency]
    ELSE owed

\* What a payment of what is owed pays: all of it, or its share of a short balance.
Paid(currency, owed) ==
  IF held[currency] < reservedCash[currency]
    THEN (owed * held[currency]) \div reservedCash[currency]
    ELSE owed

\* Fault: only what was paid leaves the reserve.
PayPaid(currency, owed, consent) ==
  LET paid == Paid(currency, owed)
  IN  /\ held[currency] < reservedCash[currency] => consent /\ paid # 0
      /\ reservedCash' = [reservedCash EXCEPT ![currency] = @ - paid]
      /\ held' = [held EXCEPT ![currency] = @ - paid]

\* _pay: short of cash, only the party that is owed may exit, and for something.
Pay(currency, owed, consent) ==
  LET paid == Paid(currency, owed)
  IN  /\ held[currency] < reservedCash[currency] => consent /\ paid # 0
      /\ reservedCash' = [reservedCash EXCEPT ![currency] = @ - owed]
      /\ held' = [held EXCEPT ![currency] = @ - paid]

Claim(currency, beneficiary, amount, consent) ==
  /\ amount \in 1..claimable[currency][beneficiary]
  /\ claimable' = [claimable EXCEPT ![currency][beneficiary] = @ - amount]
  /\ Pay(currency, amount, consent)
  /\ UNCHANGED <<now, created, dayVars, credited, stacks, refunded>>

\* What a burn, a gift or a rebase makes of the balance.
Rebase(currency, balance) ==
  /\ currency \in Rebasing
  /\ held' = [held EXCEPT ![currency] = balance]
  /\ UNCHANGED <<now, created, dayVars, creditVars, refunded, reservedCash>>

-----------------------------------------------------------------------------
(* A day.                                                                    *)

\* Fault: a new proposal clears the veto of the one before.
ProposeDayAnew(e, p) ==
  /\ e[1] \in created /\ DayEnd(e) <= now /\ now < DayEnd(e) + ProposalWindow
  /\ ~epochs[e].finalized /\ epochs[e].version < MaxVersion
  /\ p.leaves = {} <=> p.totalFees = 0
  /\ Part(p.totalFees, Rate(TermsOf(e))) <= TermsOf(e).dailyBudget
  /\ epochs' = [epochs EXCEPT ![e].leaves = p.leaves, ![e].totalFees = p.totalFees, ![e].challenged = FALSE,
                              ![e].finalizeAfter = now + TermsOf(e).reviewDelay, ![e].version = @ + 1]
  /\ seen' = [seen EXCEPT ![e].proposedAt = now]
  /\ UNCHANGED <<now, created, approvals, creditVars, cashVars>>

\* proposeDay, by the attestor.  A veto of an earlier version stays.
ProposeDay(e, p) ==
  /\ e[1] \in created /\ DayEnd(e) <= now /\ now < DayEnd(e) + ProposalWindow
  /\ ~epochs[e].finalized /\ epochs[e].version < MaxVersion
  /\ p.leaves = {} <=> p.totalFees = 0
  /\ Part(p.totalFees, Rate(TermsOf(e))) <= TermsOf(e).dailyBudget
  /\ epochs' = [epochs EXCEPT ![e].leaves = p.leaves, ![e].totalFees = p.totalFees,
                              ![e].finalizeAfter = now + TermsOf(e).reviewDelay, ![e].version = @ + 1]
  /\ seen' = [seen EXCEPT ![e].proposedAt = now]
  /\ UNCHANGED <<now, created, approvals, creditVars, cashVars>>

\* challengeDay, by the reviewer.
ChallengeDay(e) ==
  /\ epochs[e].version # 0 /\ ~epochs[e].finalized
  /\ now < epochs[e].finalizeAfter + VetoGrace
  /\ epochs' = [epochs EXCEPT ![e].challenged = TRUE]
  /\ seen' = [seen EXCEPT ![e].vetoed = TRUE]
  /\ UNCHANGED <<now, created, approvals, creditVars, cashVars>>

\* The reviewer has checked the current version and sends its approval.
SendApproval(e) ==
  /\ epochs[e].version # 0 /\ ~epochs[e].finalized
  /\ approvals' = approvals \cup {[day |-> e, version |-> epochs[e].version, leaves |-> epochs[e].leaves]}
  /\ UNCHANGED <<now, created, epochs, seen, creditVars, cashVars>>

\* approveDay: an approval lands, if no newer version did before it.
ApproveDay(a) ==
  /\ ~epochs[a.day].finalized /\ epochs[a.day].version = a.version
  /\ epochs' = [epochs EXCEPT ![a.day].challenged = FALSE, ![a.day].finalized = TRUE]
  /\ approvals' = approvals \ {a}
  /\ seen' = [seen EXCEPT ![a.day].accepted = a.leaves]
  /\ UNCHANGED <<now, created, creditVars, cashVars>>

\* finalizeDay, by anyone.
FinalizeDay(e) ==
  /\ epochs[e].version # 0 /\ ~epochs[e].finalized /\ ~epochs[e].challenged
  /\ now >= epochs[e].finalizeAfter
  /\ epochs' = [epochs EXCEPT ![e].finalized = TRUE]
  /\ UNCHANGED <<now, created, approvals, seen, creditVars, cashVars>>

\* Fault: a day that was proposed never lapses.
LapseDayUnproposed(e) ==
  /\ e[1] \in created /\ ~epochs[e].finalized /\ epochs[e].version = 0
  /\ now >= DayEnd(e) + ProposalWindow
  /\ epochs' = [epochs EXCEPT ![e].finalized = TRUE]
  /\ UNCHANGED <<now, created, approvals, seen, creditVars, cashVars>>

\* lapseDay, by anyone: a day never proposed, or still vetoed, closes as zero.
LapseDay(e) ==
  /\ e[1] \in created /\ ~epochs[e].finalized
  /\ now >= DayEnd(e) + ProposalWindow /\ now >= epochs[e].finalizeAfter
  /\ epochs[e].version # 0 => epochs[e].challenged
  /\ epochs' = [epochs EXCEPT ![e].finalized = TRUE, ![e].leaves = {}, ![e].totalFees = 0]
  /\ UNCHANGED <<now, created, approvals, seen, creditVars, cashVars>>

-----------------------------------------------------------------------------
(* Credits and remainders.                                                   *)

\* _capBps: half on the protocol fee of a pool with King of the Pool.
CapBps(t) ==
  IF t.source = "protocol" /\ t.pool \in Crowned THEN MaxKingStackedBps ELSE MaxStackedBps

\* Fault: the cap is measured against the sum of the fees credited.
BasisSummed(e, leaf) == stacks[StackKey(e, leaf.payer)].feeBasis + leaf.fees

\* The largest fees credited for the payer, the stream and the day, these included.
Basis(e, leaf) == Max({stacks[StackKey(e, leaf.payer)].feeBasis, leaf.fees})

\* What of the payer's capacity is left.
Room(e, leaf) == Max({0, Part(Basis(e, leaf), CapBps(TermsOf(e))) - stacks[StackKey(e, leaf.payer)].paid})

\* One side's payout: its rate, or its share of a capacity that the two exceed.
Payout(e, leaf, bps) ==
  LET t == TermsOf(e)
  IN  IF Part(leaf.fees, t.referrerBps) + Part(leaf.fees, t.cashbackBps) > Room(e, leaf)
        THEN (Room(e, leaf) * bps) \div Rate(t)
        ELSE Part(leaf.fees, bps)

Commission(e, leaf) == Payout(e, leaf, TermsOf(e).referrerBps)
Cashback(e, leaf) == Payout(e, leaf, TermsOf(e).cashbackBps)

\* What creditDay asks of a leaf, the budget aside.
Creditable(e, leaf) ==
  /\ epochs[e].finalized /\ now >= epochs[e].finalizeAfter
  /\ leaf \in epochs[e].leaves /\ <<e, leaf.payer>> \notin credited
  /\ leaf.fees \in 1..TermsOf(e).walletFeeCap
  /\ <<e[1], leaf.payer, leaf.referrer>> \in Referrals
  /\ leaf.fees <= epochs[e].totalFees - epochs[e].claimedFees

\* What is left of a day's budget.
Left(e) == TermsOf(e).dailyBudget - epochs[e].allocated - refunded[e]

CreditDay(e, leaf) ==
  LET commission == Commission(e, leaf)
      cashback == Cashback(e, leaf)
  IN  /\ Creditable(e, leaf) /\ commission + cashback <= Left(e)
      /\ stacks' = [stacks EXCEPT ![StackKey(e, leaf.payer)] =
                      [feeBasis |-> Basis(e, leaf), paid |-> @.paid + commission + cashback]]
      /\ credited' = credited \cup {<<e, leaf.payer>>}
      /\ epochs' = [epochs EXCEPT ![e].claimedFees = @ + leaf.fees, ![e].allocated = @ + commission + cashback]
      /\ claimable' = [claimable EXCEPT ![TermsOf(e).currency] = [a \in Accounts |->
                         @[a] + (IF a = leaf.referrer THEN commission ELSE 0) + (IF a = leaf.payer THEN cashback ELSE 0)]]
      /\ UNCHANGED <<now, created, approvals, seen, cashVars>>

\* Fault: only the referrers' part of the fees not yet credited is kept.
OwableCommission(e) == Part(epochs[e].totalFees - epochs[e].claimedFees, TermsOf(e).referrerBps)

\* The most the fees not yet credited can be owed.
Owable(e) == Part(epochs[e].totalFees - epochs[e].claimedFees, Rate(TermsOf(e)))

\* releaseRemainder, with the creator's consent to a shortfall or without.
ReleaseRemainder(e, consent) ==
  LET amount == Left(e) - Owable(e)
  IN  /\ epochs[e].finalized /\ ~epochs[e].released
      /\ amount >= 0 /\ (Owable(e) # 0 => amount # 0)
      /\ epochs' = [epochs EXCEPT ![e].released = (Owable(e) = 0)]
      /\ refunded' = [refunded EXCEPT ![e] = @ + amount]
      /\ IF amount # 0 THEN Pay(TermsOf(e).currency, amount, consent) ELSE UNCHANGED <<reservedCash, held>>
      /\ UNCHANGED <<now, created, approvals, seen, creditVars>>

-----------------------------------------------------------------------------

Tick ==
  /\ now < MaxTime
  /\ now' = now + 1
  /\ UNCHANGED <<created, dayVars, creditVars, cashVars>>

Next ==
  \/ \E c \in Campaigns : CreateCampaign(c)
  \/ \E e \in DayIds : \/ \E p \in Proposals : ProposeDay(e, p)
                       \/ ChallengeDay(e)
                       \/ SendApproval(e)
                       \/ FinalizeDay(e)
                       \/ LapseDay(e)
                       \/ \E leaf \in epochs[e].leaves : CreditDay(e, leaf)
                       \/ \E consent \in BOOLEAN : ReleaseRemainder(e, consent)
  \/ \E a \in approvals : ApproveDay(a)
  \/ \E c \in Currencies, a \in Accounts, consent \in BOOLEAN :
       \E amount \in 1..claimable[c][a] : Claim(c, a, amount, consent)
  \/ \E c \in Currencies, b \in Balances : Rebase(c, b)
  \/ Tick

Spec == Init /\ [][Next]_vars

\* Time passes, anyone may finalize or lapse a day, and a creator wants its cash
\* back.  Nothing is asked of the attestor and of the reviewers.
Fairness ==
  /\ WF_vars(Tick)
  /\ \A e \in DayIds : /\ WF_vars(FinalizeDay(e)) /\ WF_vars(LapseDay(e))
                       /\ WF_vars(ReleaseRemainder(e, TRUE))

FairSpec == Spec /\ Fairness

-----------------------------------------------------------------------------
(* What the campaigns promise their creators, payers and reviewers: cash.    *)

CreatedDays == {e \in DayIds : e[1] \in created}

Trees == {{}} \cup {p.leaves : p \in Proposals}

EpochState ==
  [leaves : Trees, totalFees : Nat, claimedFees : Nat, allocated : Nat, finalizeAfter : Nat,
   version : Nat, challenged : BOOLEAN, finalized : BOOLEAN, released : BOOLEAN]

TypeOK ==
  /\ now \in Nat /\ created \subseteq Campaigns
  /\ epochs \in [DayIds -> EpochState]
  /\ credited \subseteq DayIds \X Payers /\ refunded \in [DayIds -> Nat]
  /\ stacks \in [StackKeys -> [feeBasis : Nat, paid : Nat]]
  /\ claimable \in [Currencies -> [Accounts -> Nat]]
  /\ reservedCash \in [Currencies -> Nat] /\ held \in [Currencies -> Nat]
  /\ approvals \subseteq [day : DayIds, version : Nat, leaves : Trees]
  /\ seen \in [DayIds -> [proposedAt : Nat, vetoed : BOOLEAN, accepted : Trees]]

\* The reserve of a currency is what the days have left and the accounts can claim, and
\* a currency that cannot shrink by itself is all there: whatever is released before,
\* between and after the credits, and however a shortfall is shared.
CashAccounted ==
  \A c \in Currencies :
    /\ reservedCash[c] =
         SumFunctionOnSet([e \in DayIds |-> Left(e)], {e \in CreatedDays : TermsOf(e).currency = c})
           + SumFunctionOnSet(claimable[c], Accounts)
    /\ c \notin Rebasing => held[c] = reservedCash[c]

\* A payment never leaves the others a smaller part of what they are owed than before
\* it, and while there is enough for everyone it pays in full.
ShortfallShared ==
  [][\A c \in Currencies :
       reservedCash'[c] < reservedCash[c] =>
         IF held[c] < reservedCash[c]
           THEN held'[c] * reservedCash[c] >= held[c] * reservedCash'[c] /\ held'[c] < held[c]
           ELSE held[c] - held'[c] = reservedCash[c] - reservedCash'[c]]_vars

-----------------------------------------------------------------------------
(* Days.                                                                     *)

\* Fees are credited only after the proposal that counts waited its whole review
\* delay, and of a day its reviewer ever vetoed only the leaves the reviewer accepted,
\* whichever version was proposed while the approval was on its way.
CreditsWereReviewed ==
  [][\A e \in DayIds :
       epochs'[e].claimedFees # epochs[e].claimedFees =>
         /\ now >= seen[e].proposedAt + TermsOf(e).reviewDelay
         /\ seen[e].vetoed => seen[e].accepted = epochs[e].leaves]_vars

\* What was released early was never somebody's: a leaf that can be credited finds its
\* payout in the day's budget, and a day that was closed by a release has nothing left.
CreditsFindTheirBudget ==
  \A e \in DayIds :
    /\ \A leaf \in epochs[e].leaves : Creditable(e, leaf) => Commission(e, leaf) + Cashback(e, leaf) <= Left(e)
    /\ epochs[e].released => Left(e) = 0

LeavesCredited(k) ==
  UNION {{leaf \in epochs[e].leaves : <<e, leaf.payer>> \in credited /\ StackKey(e, leaf.payer) = k} : e \in DayIds}

\* All campaigns together pay out less than the largest fees credited for a payer, a
\* fee stream and a UTC day, and half of them with King of the Pool, in whatever order
\* and from however many campaigns the same fees are credited.
PayoutsBelowFees ==
  /\ SumFunctionOnSet([k \in StackKeys |-> stacks[k].paid], StackKeys)
       = SumFunctionOnSet([e \in DayIds |-> epochs[e].allocated], DayIds)
  /\ \A k \in StackKeys :
       LET fees == {leaf.fees : leaf \in LeavesCredited(k)}
           bps == IF k[2] = "protocol" /\ k[1] \in Crowned THEN MaxKingStackedBps ELSE MaxStackedBps
       IN  IF fees = {} THEN stacks[k].paid = 0
           ELSE stacks[k].paid < Max(fees) /\ stacks[k].paid * Bps <= Max(fees) * bps

\* Nothing more of a day's budget can come back than what was paid out, returned, or
\* is still owable to fees not credited.
Settled(e) == epochs[e].finalized /\ Left(e) = Owable(e)

\* Every funded day ends, and what can never be owed returns, without the attestor and
\* without a reviewer who keeps to a veto.
DaysSettle == \A e \in DayIds : TermsOf(e).currency \notin Rebasing => (e[1] \in created ~> Settled(e))

=============================================================================
