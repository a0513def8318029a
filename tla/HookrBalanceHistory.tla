-------------------------- MODULE HookrBalanceHistory --------------------------
(* The shares of a revenue token and the checkpoints kept of them            *)
(* (revenue-tokenizer/src/base/HookrBalanceHistory.sol).  Each history keeps *)
(* its two newest checkpoints in a ring of two slots, and of the older ones  *)
(* only those that a recorded snapshot falls on.  A checkpoint's value holds *)
(* from its block until the next checkpoint's.                               *)
(*                                                                           *)
(* The count of archived checkpoints, a field of the current slot in the     *)
(* code, is here the length of the archive.  Supplies are below 2^128 by the *)
(* token's terms, so no write is refused for its size.                       *)
EXTENDS Integers, Sequences, FiniteSets, Functions

CONSTANTS Accounts,    \* who may hold shares
          Excluded,    \* the PoolManager, 0xdead and the drop box: they never earn
          ShareSupply, \* minted once, at the seal
          MaxBlock     \* bound on block numbers

ASSUME SharesAssumption ==
  /\ IsFiniteSet(Accounts) /\ Excluded \subseteq Accounts
  /\ ShareSupply \in Nat \ {0} /\ MaxBlock \in Nat \ {0}

VARIABLES
  block,          \* block.number, which is clock()
  live,           \* whether the token is sealed
  balance,        \* shares held, per account
  accounts,       \* _accounts: a history for each account
  earning,        \* _earning: the history of the shares that earn
  latestSnapshot, \* _latestSnapshot
  snapshotAt,     \* the snapshot blocks recorded in _snapshotAt
  was,            \* history variable: per account and block, the balance the block ended with
  wasEarning      \* history variable: the same for the shares that earn

sharesVars == <<block, live, balance, accounts, earning, latestSnapshot, snapshotAt, was, wasEarning>>

Blocks == 0..MaxBlock

Earners == Accounts \ Excluded

Earns(account) == account \notin Excluded

-----------------------------------------------------------------------------
(* One history.                                                              *)

Slot == [key: Blocks, seen: Blocks, value: Nat]

Checkpoint == [key: Blocks, value: Nat]

History == [a: Slot, b: Slot, archive: Seq(Checkpoint)]

EmptySlot == [key |-> 0, seen |-> 0, value |-> 0]

EmptyHistory == [a |-> EmptySlot, b |-> EmptySlot, archive |-> <<>>]

\* The current checkpoint is in the slot with the higher block.
AIsCurrent(h) == h.a.key >= h.b.key

Current(h) == IF AIsCurrent(h) THEN h.a ELSE h.b

Predecessor(h) == IF AIsCurrent(h) THEN h.b ELSE h.a

\* Fault: a drop later in the current checkpoint's own block is forgotten.
NeededBeforeWrite(cur, prevKey) == cur.seen >= prevKey

\* Whether a snapshot falls on the blocks a predecessor from prevKey covers: one
\* recorded before cur was written, or one later in cur's own block.
Needed(cur, prevKey) ==
  \/ cur.seen >= prevKey
  \/ latestSnapshot + 1 >= cur.key /\ cur.key - 1 \in snapshotAt

\* The archive once the predecessor's slot is about to be reused.
Archive(h) ==
  LET prev == Predecessor(h)
  IN  IF prev.key # 0 /\ Needed(Current(h), prev.key)
      THEN Append(h.archive, [key |-> prev.key, value |-> prev.value])
      ELSE h.archive

\* value holds from this block on.  Within one block only the current checkpoint's
\* value moves; the first checkpoint goes to slot a, a later one over the predecessor.
Write(h, value) ==
  LET slot == [key |-> block, seen |-> latestSnapshot, value |-> value]
  IN  IF Current(h).key = block
      THEN IF AIsCurrent(h) THEN [h EXCEPT !.a.value = value] ELSE [h EXCEPT !.b.value = value]
      ELSE IF Current(h).key = 0 THEN [h EXCEPT !.a = slot]
      ELSE IF AIsCurrent(h) THEN [h EXCEPT !.b = slot, !.archive = Archive(h)]
      ELSE [h EXCEPT !.a = slot, !.archive = Archive(h)]

\* The binary search of _valueAt: how many archived checkpoints are at or before a
\* block.
BinarySearch(archive, blockNumber) ==
  LET Ends == 0..Len(archive)
      search[range \in Ends \X Ends] ==
        LET low == range[1]
            high == range[2]
            mid == (low + high) \div 2
        IN  IF low >= high THEN low
            ELSE IF archive[mid + 1].key > blockNumber THEN search[<<low, mid>>]
            ELSE search[<<mid + 1, high>>]
  IN  search[<<0, Len(archive)>>]

\* _valueAt as the code computes it.
SearchedAt(h, blockNumber) ==
  LET found == BinarySearch(h.archive, blockNumber)
  IN  IF blockNumber >= Current(h).key THEN Current(h).value
      ELSE IF blockNumber >= Predecessor(h).key THEN Predecessor(h).value
      ELSE IF found = 0 THEN 0 ELSE h.archive[found].value

\* What it finds in an archive whose blocks increase (HookrRevenueTokenProofs proves that
\* it does, and that they do), stated without the search so that what is read can be
\* proved about.
AtOrBefore(archive, blockNumber) == {i \in DOMAIN archive : archive[i].key <= blockNumber}

Archived(archive, blockNumber) ==
  LET found == AtOrBefore(archive, blockNumber)
      last == CHOOSE i \in found : \A j \in found : j <= i
  IN  IF found = {} THEN 0 ELSE archive[last].value

ValueAt(h, blockNumber) ==
  IF blockNumber >= Current(h).key THEN Current(h).value
  ELSE IF blockNumber >= Predecessor(h).key THEN Predecessor(h).value
  ELSE Archived(h.archive, blockNumber)

BalanceAt(account, blockNumber) ==
  IF Earns(account) THEN ValueAt(accounts[account], blockNumber) ELSE 0

\* Fault: the supply of now, against the balances of the block before.
EarningSupplyNow(blockNumber) == Current(earning).value

EarningSupplyAt(blockNumber) == ValueAt(earning, blockNumber)

EarningSupply == Current(earning).value

-----------------------------------------------------------------------------
(* The token's shares.                                                       *)

SharesTypeOK ==
  /\ block \in Blocks \ {0} /\ live \in BOOLEAN
  /\ balance \in [Accounts -> Nat]
  /\ accounts \in [Accounts -> History] /\ earning \in History
  /\ latestSnapshot \in Blocks /\ snapshotAt \subseteq Blocks
  /\ was \in [Accounts -> [Blocks -> Nat]] /\ wasEarning \in [Blocks -> Nat]

SharesInit ==
  /\ block = 1 /\ live = FALSE
  /\ balance = [a \in Accounts |-> 0]
  /\ accounts = [a \in Accounts |-> EmptyHistory] /\ earning = EmptyHistory
  /\ latestSnapshot = 0 /\ snapshotAt = {}
  /\ was = [a \in Accounts |-> [b \in Blocks |-> 0]] /\ wasEarning = [b \in Blocks |-> 0]

\* A record of end-of-block values, when value holds from this block on.
From(record, value) == [b \in Blocks |-> IF b < block THEN record[b] ELSE value]

\* The new balances of the touched accounts, each earning one checkpointed.
SetBalances(new, touched) ==
  /\ balance' = new
  /\ accounts' = [a \in Accounts |->
       IF a \in touched /\ Earns(a) THEN Write(accounts[a], new[a]) ELSE accounts[a]]
  /\ was' = [a \in Accounts |-> IF a \in touched THEN From(was[a], new[a]) ELSE was[a]]

SetEarning(value) ==
  /\ earning' = Write(earning, value)
  /\ wasEarning' = From(wasEarning, value)

\* The mints of the seal: their earning part is the first earning supply.
MintAll(amounts) ==
  LET earned == SumFunctionOnSet(amounts, Earners)
  IN  /\ ~live /\ live' = TRUE
      /\ SumFunctionOnSet(amounts, Accounts) = ShareSupply
      /\ SetBalances(amounts, {a \in Accounts : amounts[a] > 0})
      /\ IF earned = 0 THEN UNCHANGED <<earning, wasEarning>> ELSE SetEarning(earned)
      /\ UNCHANGED <<block, latestSnapshot, snapshotAt>>

\* _update: the earning supply is written when exactly one side earns, by checked
\* arithmetic.  A transfer of nothing writes nothing.
Move(from, to, value) ==
  /\ value \in 1..balance[from]
  /\ Earns(from) /\ ~Earns(to) => value <= EarningSupply
  /\ SetBalances([a \in Accounts |-> balance[a] - (IF a = from THEN value ELSE 0) + (IF a = to THEN value ELSE 0)],
                 {from, to})
  /\ IF Earns(from) = Earns(to) THEN UNCHANGED <<earning, wasEarning>>
     ELSE SetEarning(IF Earns(to) THEN EarningSupply + value ELSE EarningSupply - value)
  /\ UNCHANGED <<block, live, latestSnapshot, snapshotAt>>

\* Fault: the newest snapshot alone is kept.
RecordLatestSnapshot ==
  /\ latestSnapshot' = block - 1 /\ snapshotAt' = {block - 1}
  /\ UNCHANGED <<block, live, balance, accounts, earning, was, wasEarning>>

\* _recordSnapshot, of the block before this one.
RecordSnapshot ==
  /\ latestSnapshot' = IF block - 1 > latestSnapshot THEN block - 1 ELSE latestSnapshot
  /\ snapshotAt' = snapshotAt \cup {block - 1}
  /\ UNCHANGED <<block, live, balance, accounts, earning, was, wasEarning>>

NextBlock ==
  /\ block < MaxBlock /\ block' = block + 1
  /\ UNCHANGED <<live, balance, accounts, earning, latestSnapshot, snapshotAt, was, wasEarning>>

=============================================================================
