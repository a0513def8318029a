--------------------------- MODULE HookrIncomeLedger ---------------------------
(* The income of a revenue token (base/HookrIncomeLedger.sol and             *)
(* base/HookrIncomeSync.sol): what a sync finds of an asset above the books  *)
(* streams over streamSeconds into an index per share, and each holder's     *)
(* credit is settled before its balance moves.  The lock leaves only poke    *)
(* and share transfers open to the code a door or a payment runs, and those  *)
(* see the books as they are between two calls, so each entry point is one   *)
(* action.  Payments by the assets are exact; a rebasing one may grow or     *)
(* shrink at any time.                                                       *)
EXTENDS HookrBalanceHistory

CONSTANTS Assets,        \* the token's fixed assets
          Eth,           \* the native one
          Slashable,     \* those whose balances may shrink by themselves
          Scale,         \* SCALE of the index
          StreamSeconds, \* streamSeconds
          TipBps, BridgeBps, Bps, \* the caller's tip and the Fee Bridge's slice, and the whole
          MinTipPull,    \* MIN_TIP_PULL
          MaxReceived,   \* MAX_RECEIVED
          MaxCash,       \* bound on what the token holds of an asset
          MaxNow         \* bound on time

ASSUME IncomeAssumption ==
  /\ Eth \in Assets /\ Slashable \subseteq Assets
  /\ {Scale, StreamSeconds, Bps, MinTipPull, MaxReceived} \subseteq Nat \ {0}
  /\ TipBps \in 0..Bps /\ BridgeBps \in 0..Bps
  /\ MaxCash \in Nat /\ MaxNow \in Nat

VARIABLES
  now,     \* block.timestamp
  books,   \* _assets
  holders, \* _holders, per account and asset
  cash     \* what the token holds of an asset

incomeVars == <<now, books, holders, cash>>

IncomeInit ==
  /\ now = 0
  /\ books = [a \in Assets |-> [received |-> 0, paid |-> 0, pendingStream |-> 0, streamEnd |-> 0,
                                lastRelease |-> 0, index |-> 0, carry |-> 0]]
  /\ holders = [h \in Accounts |-> [a \in Assets |-> [index |-> 0, creditScaled |-> 0]]]
  /\ cash = [a \in Assets |-> 0]

-----------------------------------------------------------------------------
(* The books of one asset.                                                   *)

Lesser(m, n) == IF m < n THEN m ELSE n

\* _due: everything from the stream's end on, else its part of the time.
Due(book) ==
  LET end == book.streamEnd
      last == book.lastRelease
  IN  IF now >= end \/ end <= last THEN book.pendingStream
      ELSE IF now <= last THEN 0
      ELSE (book.pendingStream * (now - last)) \div (end - last)

\* _release: what is due goes into the index over the shares that earn, with the
\* remainder carried.  With nothing due, or nobody earning, nothing is written.
Released(book) ==
  LET due == Due(book)
      total == due * Scale + book.carry
  IN  IF due = 0 \/ EarningSupply = 0 THEN book
      ELSE [book EXCEPT !.pendingStream = @ - due,
                        !.index = @ + total \div EarningSupply,
                        !.carry = total % EarningSupply,
                        !.lastRelease = Lesser(now, book.streamEnd)]

\* Fault: every arrival starts a full period again.
WindowFull(book, amount) == StreamSeconds

\* The window a recognition sets: by weight while the stream runs, else a full one.
Window(book, amount) ==
  LET remaining == book.pendingStream
  IN  IF remaining # 0 /\ now < book.streamEnd
      THEN (remaining * (book.streamEnd - now) + amount * StreamSeconds) \div (remaining + amount)
      ELSE StreamSeconds

\* _recognize, of a positive amount that fits.
Recognized(book, amount) ==
  LET released == Released(book)
  IN  [released EXCEPT !.received = @ + amount,
                       !.pendingStream = @ + amount,
                       !.streamEnd = now + Window(released, amount),
                       !.lastRelease = now]

\* _settle of an account at an index: what its shares earned since it last settled.
Settled(account, holder, index) ==
  [index |-> index,
   creditScaled |-> holder.creditScaled
     + IF Earns(account) THEN balance[account] * (index - holder.index) ELSE 0]

\* claimable, scaled: what the account is owed if the stream were released now.
ClaimableScaled(account, asset) ==
  Settled(account, holders[account][asset], Released(books[asset]).index).creditScaled

-----------------------------------------------------------------------------
(* Operations.                                                               *)

NextSecond ==
  /\ now < MaxNow /\ now' = now + 1
  /\ UNCHANGED <<books, holders, cash>> /\ UNCHANGED sharesVars

\* poke.
Poke ==
  /\ books' = [a \in Assets |-> Released(books[a])]
  /\ UNCHANGED <<now, holders, cash>> /\ UNCHANGED sharesVars

\* Fault: shares move before what is due is released.
SettleBothUnreleased(from, to) ==
  /\ books' = books
  /\ holders' = [h \in Accounts |->
       IF h \in {from, to}
       THEN [a \in Assets |-> Settled(h, holders[h][a], books[a].index)] ELSE holders[h]]
  /\ UNCHANGED <<now, cash>>

\* Before shares move: every stream is released and both sides settled at it.
SettleBoth(from, to) ==
  /\ books' = [a \in Assets |-> Released(books[a])]
  /\ holders' = [h \in Accounts |->
       IF h \in {from, to}
       THEN [a \in Assets |-> Settled(h, holders[h][a], books'[a].index)] ELSE holders[h]]
  /\ UNCHANGED <<now, cash>>

\* What the books do not know of yet, up to what they can still count.
Recognizable(asset, held) ==
  LET accounted == books[asset].received - books[asset].paid
  IN  IF held > accounted THEN Lesser(held - accounted, MaxReceived - books[asset].received) ELSE 0

\* What the caller's tip and the bridge's slice take of the ETH the doors brought.
Sent(pulled) ==
  LET tip == IF pulled[Eth] >= MinTipPull THEN (pulled[Eth] * TipBps) \div Bps ELSE 0
  IN  tip + ((pulled[Eth] - tip) * BridgeBps) \div Bps

Kept(pulled) == [a \in Assets |-> cash[a] + pulled[a] - IF a = Eth THEN Sent(pulled) ELSE 0]

\* Fault: what is about to be sent is recognized too.
FoundBeforeSending(pulled) == [a \in Assets |-> Recognizable(a, cash[a] + pulled[a])]

Found(pulled) == [a \in Assets |-> Recognizable(a, Kept(pulled)[a])]

\* sync and syncSome: the doors deliver what they do; the tip and the slice are sent;
\* then each asset's surplus is recognized.
Sync(pulled) ==
  /\ live /\ \A a \in Assets : cash[a] + pulled[a] <= MaxCash
  /\ cash' = Kept(pulled)
  /\ books' = [a \in Assets |->
       IF Found(pulled)[a] = 0 THEN books[a] ELSE Recognized(books[a], Found(pulled)[a])]
  /\ UNCHANGED <<now, holders>> /\ UNCHANGED sharesVars

DepositBonus(asset, amount) ==
  /\ live /\ amount \in 1..(MaxReceived - books[asset].received)
  /\ cash[asset] + amount <= MaxCash
  /\ cash' = [cash EXCEPT ![asset] = @ + amount]
  /\ books' = [books EXCEPT ![asset] = Recognized(@, amount)]
  /\ UNCHANGED <<now, holders>> /\ UNCHANGED sharesVars

\* What _pay pays a holder: no more than it is owed, nor than is held.
Payment(holder, asset) == Lesser(ClaimableScaled(holder, asset) \div Scale, cash[asset])

\* claim of one asset, or claimAll: each asset is released, the holder settled and
\* paid; the call reverts when nothing is paid.
Claim(holder, claiming) ==
  /\ \E a \in claiming : Payment(holder, a) > 0
  /\ books' = [a \in Assets |->
       IF a \in claiming THEN [Released(books[a]) EXCEPT !.paid = @ + Payment(holder, a)]
       ELSE books[a]]
  /\ holders' = [holders EXCEPT ![holder] = [a \in Assets |->
       IF a \in claiming
       THEN [index |-> books'[a].index,
             creditScaled |-> ClaimableScaled(holder, a) - Payment(holder, a) * Scale]
       ELSE @[a]]]
  /\ cash' = [a \in Assets |-> IF a \in claiming THEN cash[a] - Payment(holder, a) ELSE cash[a]]
  /\ UNCHANGED now /\ UNCHANGED sharesVars

\* A push to the token, or a rebase up.
Arrive(asset, amount) ==
  /\ cash[asset] + amount <= MaxCash
  /\ cash' = [cash EXCEPT ![asset] = @ + amount]
  /\ UNCHANGED <<now, books, holders>> /\ UNCHANGED sharesVars

\* A rebase down, a slashing or an issuer's burn.
Shrink(asset, amount) ==
  /\ asset \in Slashable /\ amount <= cash[asset]
  /\ cash' = [cash EXCEPT ![asset] = @ - amount]
  /\ UNCHANGED <<now, books, holders>> /\ UNCHANGED sharesVars

=============================================================================
