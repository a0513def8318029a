------------------------------ MODULE ReleaseChain ------------------------------
(* The chain the release scripts of generation 3 read, as they see it through *)
(* their RPC endpoint: a latest head that grows and may be reorganised, a     *)
(* safe head behind it, and a finalized head below which no block changes.    *)
(* The deployer's transactions are mined in nonce order; other accounts'      *)
(* transactions come in between.  A block is named by its hash, here its      *)
(* height and the fork it was mined on.                                       *)
EXTENDS Integers, Sequences, FiniteSets, SequencesExt

CONSTANTS MaxBlocks, \* bound: the longest chain
          MaxForks   \* bound: how often the chain is reorganised

ASSUME BoundAssumption == MaxBlocks \in Nat \ {0} /\ MaxForks \in Nat

VARIABLES
  chain, \* the canonical blocks, oldest first
  safe,  \* the height of the safe head
  final, \* the height of the finalized head
  fork,  \* how many reorganisations there have been
  sent   \* the deployer's transactions, in nonce order

chainVars == <<chain, safe, final, fork, sent>>

Latest == Len(chain)

BlockAt(n) == chain[n]

\* A header as eth_getBlock returns it.
Header(n) == [number |-> n, hash |-> chain[n].hash]

\* The blocks a hash commits to: the state at a block is what they did.
ChainThrough(n) == SubSeq(chain, 1, n)

Mined(blocks) == UNION {ToSet(blocks[n].txs) : n \in DOMAIN blocks}

\* The first block that holds a transaction.
HeightOf(blocks, tx) ==
  CHOOSE n \in DOMAIN blocks :
    tx \in ToSet(blocks[n].txs) /\ \A m \in 1..n - 1 : tx \notin ToSet(blocks[m].txs)

\* A receipt: where the chain holds a transaction, and how it ended.
ReceiptIn(blocks, tx) ==
  LET n == HeightOf(blocks, tx)
  IN [tx |-> tx, blockNumber |-> n, blockHash |-> blocks[n].hash,
      transactionIndex |-> CHOOSE i \in DOMAIN blocks[n].txs : blocks[n].txs[i] = tx,
      clock |-> blocks[n].clock]

\* The order of two receipts on the chain.
Before(r, s) ==
  \/ r.blockNumber < s.blockNumber
  \/ r.blockNumber = s.blockNumber /\ r.transactionIndex < s.transactionIndex

Nonces(blocks) == Cardinality({tx \in Mined(blocks) : tx.from = "deployer"})

Pending == SubSeq(sent, Nonces(chain) + 1, Len(sent))

-----------------------------------------------------------------------------

\* A block of the deployer's next transactions, after those of other accounts.
\* The clock is what contracts see: the parent chain's height and time.
Grow(strangers, next, clock) ==
  /\ Latest < MaxBlocks
  /\ clock >= chain[Latest].clock
  /\ chain' = Append(chain, [hash |-> <<Latest + 1, fork>>, txs |-> strangers \o next, clock |-> clock])
  /\ UNCHANGED <<safe, final, fork, sent>>

AdvanceSafe ==
  /\ \E n \in safe + 1..Latest : safe' = n
  /\ UNCHANGED <<chain, final, fork, sent>>

AdvanceFinal ==
  /\ \E n \in final + 1..safe : final' = n
  /\ UNCHANGED <<chain, safe, fork, sent>>

\* Blocks above the finalized head are dropped; their transactions are mined again later.
Reorganise ==
  /\ fork < MaxForks
  /\ \E n \in final..Latest - 1 :
       /\ chain' = ChainThrough(n)
       /\ safe' = IF safe > n THEN n ELSE safe
  /\ fork' = fork + 1
  /\ UNCHANGED <<final, sent>>

Send(txs) ==
  /\ sent' = sent \o txs
  /\ UNCHANGED <<chain, safe, final, fork>>

=============================================================================
