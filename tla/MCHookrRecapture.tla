--------------------------- MODULE MCHookrRecapture ---------------------------
(* Instances of HookrRecapture for TLC.  A behaviour looks at the donation,  *)
(* at the crown (one currency moves, no liquidity is in range, nothing is    *)
(* paid), or at the ledger (time stands still after the first epoch ends).   *)
EXTENDS HookrRecapture

\* Model values.
CONSTANTS q, s, x,   \* the pool's quote and subject, and another settlement currency
          a, b,      \* traders
          p, i, o    \* the protocol, the integrator, the liquidity owner

NoFee == [rulesFee |-> 0, advisoryFee |-> 0, refund |-> 0, advisoryRecipient |-> a]

FreeSwaps == {NoFee}

\* No fee, a fee of the Rules, and one of the advisory with a refund.
SomeFees == {NoFee, [NoFee EXCEPT !.rulesFee = 2], [NoFee EXCEPT !.advisoryFee = 1, !.refund = 1]}

CONSTANT Focuses \* the parts a run looks at

VARIABLE focus

InFocus ==
  /\ focus = "crown" =>
       /\ ~liquidity' /\ ~claiming' /\ seen'.flushBlock = 0
       /\ \A c \in Currencies : rules'.liabilities[c] \in {rules.liabilities[c], IF c = q THEN rules.liabilities[c] + 8 ELSE 0}
       /\ rules'.accrued[q] >= rules.accrued[q] /\ rules'.claims[q][p] <= 8
  /\ focus = "ledger" =>
       /\ block' <= 2 /\ second' \in {1, 3} /\ ~tx'.sold
       /\ rules'.leader = NoOne /\ \A c \in Currencies : rules'.claims[c][b] = 0
       /\ \E c \in Currencies : \A d \in Currencies : rules'.liabilities[d] <= IF d = c THEN 6 ELSE 0

MCInit == Init /\ focus \in Focuses

MCNext == Next /\ InFocus /\ UNCHANGED focus

MCSpec == MCInit /\ [][MCNext]_<<vars, focus>>

=============================================================================
