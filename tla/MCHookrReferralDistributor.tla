---------------------- MODULE MCHookrReferralDistributor -----------------------
(* Instances of HookrReferralDistributor for TLC.  A behaviour looks at the  *)
(* review of one day, at the capacity of a payer that two campaigns share on *)
(* a day, or at the cash of two campaigns whose currency may shrink.         *)
EXTENDS HookrReferralDistributor, TLC

\* Model values.
CONSTANTS one, two, three, \* campaigns
          x, y,            \* payers
          r,               \* a referrer
          eth, usd,        \* currencies
          pool, king       \* pools

CONSTANT Focuses \* the parts a run looks at

VARIABLE focus

OneDay(source, p, c, referrer, cashback) ==
  [currency |-> c, pool |-> p, source |-> source, start |-> 0, days |-> 1, referrerBps |-> referrer,
   cashbackBps |-> cashback, dailyBudget |-> 12, walletFeeCap |-> 6, reviewDelay |-> 1]

\* The second day of two is the day of three.
MCTerms ==
  one :> [OneDay("royalty", pool, eth, 5, 3) EXCEPT !.reviewDelay = 2]
  @@ two :> [OneDay("protocol", king, usd, 2, 2) EXCEPT !.days = 2, !.dailyBudget = 3]
  @@ three :> [OneDay("protocol", king, usd, 5, 4) EXCEPT !.start = 1, !.dailyBudget = 6]

MCPolicies == {MCTerms[c] : c \in Campaigns}

Leaf(payer, fees) == [payer |-> payer, referrer |-> r, fees |-> fees]
Tree(leaves, fees) == [leaves |-> leaves, totalFees |-> fees]

MCProposals ==
  {Tree({}, 0), Tree({Leaf(x, 3)}, 3), Tree({Leaf(x, 4), Leaf(y, 2)}, 6), Tree({Leaf(x, 6), Leaf(y, 7)}, 14)}

MCReferrals == Campaigns \X {x, y} \X {r}

CampaignsOf == [f \in {"review", "stack", "cash"} |-> IF f = "review" THEN {one} ELSE {two, three}]

InFocus ==
  /\ created' \subseteq CampaignsOf[focus]
  /\ focus # "review" =>
       /\ UNCHANGED approvals
       /\ \A e \in DayIds : ~epochs'[e].challenged /\ epochs'[e].version <= (IF e = <<two, 0>> THEN 0 ELSE 1)
  /\ focus = "stack" => claimable' = claimable \/ credited' # credited
  /\ focus = "stack" => UNCHANGED refunded /\ (held' = held \/ created' # created)
  /\ focus = "cash" => \A e \in DayIds : epochs'[e].totalFees <= 3

MCInit == Init /\ focus \in Focuses

MCNext == Next /\ InFocus /\ UNCHANGED focus

MCFairness == Fairness

MCSpec == MCInit /\ [][MCNext]_<<vars, focus>> /\ MCFairness

=============================================================================
