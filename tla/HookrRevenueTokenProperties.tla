---------------------- MODULE HookrRevenueTokenProperties ----------------------
(* What holds of a revenue token, its history, its drops and its income.     *)
EXTENDS HookrRevenueToken

-----------------------------------------------------------------------------
(* The history.                                                              *)

\* Every snapshot a drop recorded is answered exactly, for every account and for the
\* earning supply, however the ring and the archive were overwritten since.
SnapshotsAnswer ==
  \A s \in snapshotAt :
    /\ \A a \in Accounts : BalanceAt(a, s) = IF Earns(a) THEN was[a][s] ELSE 0
    /\ EarningSupplyAt(s) = wasEarning[s]

-----------------------------------------------------------------------------
(* Drops.                                                                    *)

Remaining(i) == drops[i].amount - drops[i].paid

\* The running total is the sum of what the drops still hold, and the box has that much
\* of every currency that does not shrink by itself.
BoxOwesWhatDropsHold ==
  \A c \in Currencies :
    /\ owedOf[c] = SumFunctionOnSet([i \in DropIds |-> Remaining(i)],
                                    {i \in DropIds : drops[i].asset = c})
    /\ c \notin Rebasing => owedOf[c] <= boxHeld[c]

\* A holder's part, its balance looked up by the search.
PartFound(d, h) ==
  IF Earns(h) THEN (SearchedAt(accounts[h], d.snapshotBlock) * d.amount) \div d.earningSupply ELSE 0

\* The promise of HookrDropShares, with each part read back from the history.
DropShares == INSTANCE HookrDropShares WITH
  Holders <- Accounts,
  MaxAmount <- MaxHeld,
  closing <- [h \in Accounts |-> IF Earns(h) THEN was[h][block - 1] ELSE 0],
  part <- [i \in DropIds |-> [h \in Accounts |-> PartFound(drops[i], h)]],
  paid <- [i \in DropIds |-> drops[i].paid],
  taken <- claimed

\* A drop is split over the balances of the block before it, nobody's part, as the search
\* finds it, moves with what is traded later, and each is paid in full once.
DropSharesSpec == DropShares!ShareSpec

\* What a drop can be asked never changes: no later step moves a balance it reads.
DropTermsStand ==
  [][\A i \in DropIds : \A h \in Accounts :
       BalanceAt(h, drops[i].snapshotBlock)' = BalanceAt(h, drops[i].snapshotBlock)]_vars

-----------------------------------------------------------------------------
(* Income.                                                                   *)

\* What an account is owed at the index of the last release, scaled.
CreditNow(account, asset) == Settled(account, holders[account][asset], books[asset].index).creditScaled

\* Everything released is credited, paid or carried, exactly, whatever was rounded and
\* whoever traded in between.
Conserved(a) ==
  LET book == books[a]
  IN  SumFunctionOnSet([h \in Accounts |-> CreditNow(h, a)], Accounts)
        + book.paid * Scale + book.carry
      = (book.received - book.pendingStream) * Scale

\* The books of an asset balance, and never claim more than the token holds of one that
\* does not shrink by itself, the tip and the bridge's slice having left before they
\* were counted.
IncomeAccounted ==
  \A a \in Assets :
    /\ Conserved(a)
    /\ books[a].pendingStream >= 0 /\ books[a].paid <= books[a].received
    /\ a \notin Slashable => books[a].received - books[a].paid <= cash[a]

\* While shares earn, within one second nothing but a claim of one's own changes what
\* an account can claim: not a transfer in or out, a sync, a bonus or a poke, so a
\* holder that buys and sells within a second gets nothing.
OnlyTimeEarns ==
  [][EarningSupply > 0 /\ now' = now =>
       \E payee \in Accounts : \A h \in Accounts, a \in Assets :
         ClaimableScaled(h, a)' = ClaimableScaled(h, a)
           - IF h = payee THEN (books'[a].paid - books[a].paid) * Scale ELSE 0]_vars

\* An arrival next to a stream that still runs never ends it sooner, and makes it
\* longer by no more than the arrival's weight of a full period.
ArrivalsBarelyStretch ==
  [][\A a \in Assets :
       LET running == Released(books[a])
           arrived == books'[a].received - running.received
           stretch == books'[a].streamEnd - running.streamEnd
       IN  arrived > 0 /\ running.pendingStream > 0 /\ now < running.streamEnd =>
             /\ stretch >= 0 /\ books'[a].streamEnd <= now + StreamSeconds
             /\ stretch * running.pendingStream <= arrived * StreamSeconds]_vars

\* A comment of the ledger: while no share earns a release waits, its stream's last
\* release stays put, and the whole elapsed window is released once somebody earns.
WaitingStreamsStayPut ==
  [][\A a \in Assets : EarningSupply = 0 /\ books[a].pendingStream > 0 =>
       books'[a].lastRelease = books[a].lastRelease]_vars

=============================================================================
