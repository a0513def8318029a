------------------------ MODULE HookrRevenueTokenProofs ------------------------
(* Proofs about a revenue token, for every set of accounts, assets and       *)
(* currencies, supply, allocation, scale, period and number of blocks: what  *)
(* a drop reads stays exact, the box owes what its drops hold, a drop keeps  *)
(* its promise, and the books of the income balance and move with time alone. *)
EXTENDS HookrRevenueTokenProperties, AccountingLaws, SequenceTheorems

-----------------------------------------------------------------------------
(* The inductive invariant.                                                  *)

\* An archive answers a block with a value: the last checkpoint at or before it has
\* that value, or there is none and the value is zero.
Answers(archive, s, value) ==
  \/ AtOrBefore(archive, s) = {} /\ value = 0
  \/ \E i \in AtOrBefore(archive, s) :
       /\ \A j \in AtOrBefore(archive, s) : j <= i
       /\ value = archive[i].value

\* The ring: two different blocks, none after the current one, and a slot never
\* written says zero and has nothing behind it.
RingOK(h, top) ==
  /\ Current(h).key <= top
  /\ Predecessor(h).key < Current(h).key \/ Current(h).key = 0
  /\ Current(h).key = 0 => Predecessor(h).key = 0 /\ Current(h).value = 0
  /\ Predecessor(h).key = 0 => Predecessor(h).value = 0 /\ h.archive = <<>>

\* A history against the record of what each block ended with: the two slots hold it
\* on all they cover, and the archive on every snapshot before.
AgreesWith(h, record, snapshots) ==
  /\ \A b \in Blocks : b >= Current(h).key => record[b] = Current(h).value
  /\ \A b \in Blocks : Predecessor(h).key <= b /\ b < Current(h).key =>
       record[b] = Predecessor(h).value
  /\ \A s \in snapshots : s < Predecessor(h).key => Answers(h.archive, s, record[s])

\* A snapshot before the current checkpoint was seen when that was written, or was
\* recorded later in the same block.
SeenOK(h, snapshots) ==
  \A s \in snapshots : s < Current(h).key => s <= Current(h).seen \/ s = Current(h).key - 1

HistoryOK(h, record, top, snapshots) ==
  /\ h \in History /\ record \in [Blocks -> Nat]
  /\ RingOK(h, top) /\ AgreesWith(h, record, snapshots) /\ SeenOK(h, snapshots)

\* Snapshots are of blocks that have ended, and the newest bounds them all.
ClockOK ==
  /\ block \in Blocks \ {0} /\ latestSnapshot \in Blocks /\ snapshotAt \subseteq Blocks
  /\ latestSnapshot < block
  /\ \A s \in snapshotAt : s <= latestSnapshot

HistoriesOK ==
  /\ \A a \in Earners : HistoryOK(accounts[a], was[a], block, snapshotAt)
  /\ HistoryOK(earning, wasEarning, block, snapshotAt)

SharesInvariant == SharesTypeOK /\ ClockOK /\ HistoriesOK

-----------------------------------------------------------------------------
(* One history.                                                              *)

\* Blocks are numbers from 1, and 0 stands for before the seal.
LEMMA BlocksType == MaxBlock \in Nat \ {0} /\ Blocks \subseteq Nat /\ 0 \in Blocks /\ 1 \in Blocks
  BY SharesAssumption DEF Blocks

\* The slots of a history are slots.
LEMMA RingType ==
  ASSUME NEW h \in History
  PROVE  /\ Current(h) \in Slot /\ Predecessor(h) \in Slot
         /\ Current(h).key \in Nat /\ Predecessor(h).key \in Nat
         /\ Current(h).seen \in Nat /\ Predecessor(h).seen \in Nat
         /\ h.archive \in Seq(Checkpoint)
  BY BlocksType DEF History, Slot, Current, Predecessor, AIsCurrent

\* An empty archive answers zero.
LEMMA EmptyAnswers ==
  ASSUME NEW s \in Nat
  PROVE  Answers(<<>>, s, 0)
  BY DEF Answers, AtOrBefore

\* A checkpoint put at the end answers for every block from its own on.
LEMMA AppendedAnswers ==
  ASSUME NEW archive \in Seq(Checkpoint), NEW c \in Checkpoint, NEW s \in Nat, c.key <= s
  PROVE  Answers(Append(archive, c), s, c.value)
  <1> DEFINE new == Append(archive, c)
             n == Len(archive) + 1
  <1>1. n \in DOMAIN new /\ new[n] = c /\ DOMAIN new = 1..n
    OBVIOUS
  <1>2. n \in AtOrBefore(new, s)
    BY <1>1 DEF AtOrBefore
  <1>3. \A j \in AtOrBefore(new, s) : j <= n
    BY <1>1 DEF AtOrBefore
  <1> QED
    BY <1>1, <1>2, <1>3 DEF Answers

\* It changes no answer for the blocks before it.
LEMMA AppendKeepsAnswers ==
  ASSUME NEW archive \in Seq(Checkpoint), NEW c \in Checkpoint, NEW s \in Nat, s < c.key,
         NEW value, Answers(archive, s, value)
  PROVE  Answers(Append(archive, c), s, value)
  <1> DEFINE new == Append(archive, c)
             n == Len(archive)
  <1>1. n \in Nat /\ DOMAIN archive = 1..n /\ DOMAIN new = 1..(n + 1) /\ new[n + 1] = c
    OBVIOUS
  <1>2. \A i \in 1..n : new[i] = archive[i]
    OBVIOUS
  <1>3. c.key \in Nat
    BY BlocksType DEF Checkpoint
  <1>4. AtOrBefore(new, s) = AtOrBefore(archive, s)
    BY <1>1, <1>2, <1>3 DEF AtOrBefore
  <1>5. \A i \in AtOrBefore(archive, s) : new[i] = archive[i]
    BY <1>1, <1>2 DEF AtOrBefore
  <1> QED
    BY <1>4, <1>5 DEF Answers

\* An answer is what is read.
LEMMA AnswerIsRead ==
  ASSUME NEW archive \in Seq(Checkpoint), NEW s \in Nat, NEW value, Answers(archive, s, value)
  PROVE  Archived(archive, s) = value
  <1> DEFINE found == AtOrBefore(archive, s)
             last == CHOOSE i \in found : \A j \in found : j <= i
  <1>1. found \subseteq Nat
    BY DEF AtOrBefore
  <1>2. CASE found = {} /\ value = 0
    BY <1>2 DEF Archived
  <1>3. CASE \E i \in found : (\A j \in found : j <= i) /\ value = archive[i].value
    <2>1. PICK i \in found : (\A j \in found : j <= i) /\ value = archive[i].value
      BY <1>3
    <2>2. last \in found /\ \A j \in found : j <= last
      BY <2>1
    <2>3. last = i
      BY <2>1, <2>2, <1>1
    <2> QED
      BY <2>1, <2>3 DEF Archived
  <1> QED
    BY <1>2, <1>3 DEF Answers

\* A history that agrees with a record reads every snapshot from it.
LEMMA HistoryReads ==
  ASSUME NEW h, NEW record, NEW top, NEW snapshots, snapshots \subseteq Blocks,
         HistoryOK(h, record, top, snapshots), NEW s \in snapshots
  PROVE  ValueAt(h, s) = record[s]
  <1>1. s \in Blocks /\ s \in Nat
    BY BlocksType
  <1>2. h \in History /\ AgreesWith(h, record, snapshots)
    BY DEF HistoryOK
  <1>3. CASE s >= Current(h).key
    BY <1>1, <1>2, <1>3 DEF AgreesWith, ValueAt
  <1>4. CASE ~(s >= Current(h).key) /\ s >= Predecessor(h).key
    BY <1>1, <1>2, <1>4, RingType DEF AgreesWith, ValueAt
  <1>5. CASE ~(s >= Current(h).key) /\ ~(s >= Predecessor(h).key)
    <2>1. Answers(h.archive, s, record[s])
      BY <1>1, <1>2, <1>5, RingType DEF AgreesWith
    <2>2. Archived(h.archive, s) = record[s]
      BY <2>1, <1>1, <1>2, RingType, AnswerIsRead
    <2> QED
      BY <1>5, <2>2 DEF ValueAt
  <1> QED
    BY <1>3, <1>4, <1>5

\* What a write does to the ring, whichever slot is the current one: within one block
\* the current value moves; the first checkpoint has an empty predecessor; later the
\* current checkpoint becomes the predecessor.
LEMMA WriteInBlock ==
  ASSUME ClockOK, NEW h \in History, NEW value \in Nat, Current(h).key = block
  PROVE  LET new == Write(h, value)
         IN  /\ new \in History
             /\ Current(new) = [key |-> block, seen |-> Current(h).seen, value |-> value]
             /\ Predecessor(new) = Predecessor(h) /\ new.archive = h.archive
  <1>1. block \in Nat
    BY BlocksType DEF ClockOK
  <1>2. CASE AIsCurrent(h)
    <2>1. Write(h, value) = [h EXCEPT !.a.value = value]
      BY <1>2 DEF Write
    <2> QED
      BY <2>1, <1>1, <1>2, BlocksType DEF History, Slot, Current, Predecessor, AIsCurrent
  <1>3. CASE ~AIsCurrent(h)
    <2>1. Write(h, value) = [h EXCEPT !.b.value = value]
      BY <1>3 DEF Write
    <2> QED
      BY <2>1, <1>1, <1>3, BlocksType DEF History, Slot, Current, Predecessor, AIsCurrent
  <1> QED
    BY <1>2, <1>3

\* The first checkpoint of a history fills its first slot.
LEMMA WriteFirst ==
  ASSUME ClockOK, NEW h \in History, NEW value \in Nat, RingOK(h, block), Current(h).key = 0
  PROVE  LET new == Write(h, value)
         IN  /\ new \in History
             /\ Current(new) = [key |-> block, seen |-> latestSnapshot, value |-> value]
             /\ Predecessor(new) = Predecessor(h) /\ new.archive = h.archive
  <1>1. block \in Nat \ {0} /\ block \in Blocks /\ latestSnapshot \in Blocks
    BY BlocksType DEF ClockOK
  <1>2. AIsCurrent(h) /\ h.b.key = 0
    BY BlocksType DEF RingOK, History, Slot, Current, Predecessor, AIsCurrent
  <1>3. Write(h, value) = [h EXCEPT !.a = [key |-> block, seen |-> latestSnapshot, value |-> value]]
    BY <1>1 DEF Write
  <1> QED
    BY <1>1, <1>2, <1>3, BlocksType DEF History, Slot, Current, Predecessor, AIsCurrent

\* What a write leaves archived is a sequence of checkpoints.
LEMMA ArchiveType ==
  ASSUME NEW h \in History
  PROVE  Archive(h) \in Seq(Checkpoint)
  <1> DEFINE moved == [key |-> Predecessor(h).key, value |-> Predecessor(h).value]
  <1>1. moved \in Checkpoint
    BY RingType DEF Checkpoint, Slot
  <1>2. h.archive \in Seq(Checkpoint) /\ Append(h.archive, moved) \in Seq(Checkpoint)
    BY <1>1, RingType
  <1> QED
    BY <1>2 DEF Archive

\* A write in a later block pushes the predecessor out, to the archive if it was seen.
LEMMA WriteLater ==
  ASSUME ClockOK, NEW h \in History, NEW value \in Nat,
         Current(h).key # 0, Current(h).key < block
  PROVE  LET new == Write(h, value)
         IN  /\ new \in History
             /\ Current(new) = [key |-> block, seen |-> latestSnapshot, value |-> value]
             /\ Predecessor(new) = Current(h) /\ new.archive = Archive(h)
  <1> DEFINE slot == [key |-> block, seen |-> latestSnapshot, value |-> value]
  <1>1. block \in Nat /\ slot \in Slot /\ Current(h).key # block
    BY BlocksType, RingType DEF ClockOK, Slot
  <1>2. CASE AIsCurrent(h)
    <2>1. Write(h, value) = [h EXCEPT !.b = slot, !.archive = Archive(h)]
      BY <1>1, <1>2 DEF Write
    <2>2. Write(h, value) = [a |-> h.a, b |-> slot, archive |-> Archive(h)]
      BY <2>1 DEF History
    <2>3. h.a.key < block /\ h.a.key \in Nat
      BY <1>2, BlocksType DEF Current, History, Slot
    <2>4. ~AIsCurrent(Write(h, value))
      BY <2>2, <2>3, <1>1 DEF AIsCurrent
    <2> QED
      BY <2>2, <2>4, <1>1, <1>2, ArchiveType DEF History, Current, Predecessor
  <1>3. CASE ~AIsCurrent(h)
    <2>1. Write(h, value) = [h EXCEPT !.a = slot, !.archive = Archive(h)]
      BY <1>1, <1>3 DEF Write
    <2>2. Write(h, value) = [a |-> slot, b |-> h.b, archive |-> Archive(h)]
      BY <2>1 DEF History
    <2>3. h.b.key < block /\ h.b.key \in Nat
      BY <1>3, BlocksType DEF Current, History, Slot
    <2>4. AIsCurrent(Write(h, value))
      BY <2>2, <2>3, <1>1 DEF AIsCurrent
    <2> QED
      BY <2>2, <2>4, <1>1, <1>3, ArchiveType DEF History, Current, Predecessor
  <1> QED
    BY <1>2, <1>3

\* A reused slot keeps every answer a snapshot may ask for: what Needed tells to keep
\* is archived, and nothing else was asked.
LEMMA ArchiveKeepsAnswers ==
  ASSUME ClockOK, NEW h, NEW record, HistoryOK(h, record, block, snapshotAt),
         NEW s \in snapshotAt, s < Current(h).key
  PROVE  Answers(Archive(h), s, record[s])
  <1> DEFINE cur == Current(h)
             prev == Predecessor(h)
             moved == [key |-> prev.key, value |-> prev.value]
  <1>1. /\ h \in History /\ RingOK(h, block) /\ AgreesWith(h, record, snapshotAt)
        /\ SeenOK(h, snapshotAt)
    BY DEF HistoryOK
  <1>2. /\ cur \in Slot /\ prev \in Slot /\ cur.key \in Nat /\ prev.key \in Nat
        /\ cur.seen \in Nat /\ h.archive \in Seq(Checkpoint)
    BY <1>1, RingType
  <1>3. s \in Blocks /\ s \in Nat /\ s <= latestSnapshot /\ latestSnapshot \in Nat
    BY BlocksType DEF ClockOK
  <1>4. moved \in Checkpoint
    BY <1>2 DEF Checkpoint, Slot
  <1>5. s >= prev.key => record[s] = prev.value
    BY <1>1, <1>2, <1>3 DEF AgreesWith
  <1>6. s < prev.key => Answers(h.archive, s, record[s])
    BY <1>1 DEF AgreesWith
  <1>7. CASE prev.key = 0
    <2>1. prev.value = 0 /\ h.archive = <<>> /\ Archive(h) = h.archive
      BY <1>1, <1>7 DEF RingOK, Archive
    <2>2. record[s] = 0
      BY <2>1, <1>3, <1>5, <1>7
    <2> QED
      BY <2>1, <2>2, <1>3, EmptyAnswers
  <1>8. CASE prev.key # 0 /\ Needed(cur, prev.key)
    <2>1. Archive(h) = Append(h.archive, moved)
      BY <1>8 DEF Archive
    <2>2. CASE s >= prev.key
      <3>1. Answers(Append(h.archive, moved), s, moved.value)
        BY <2>2, <1>2, <1>3, <1>4, AppendedAnswers
      <3> QED
        BY <3>1, <2>1, <2>2, <1>5
    <2>3. CASE s < prev.key
      <3>1. s < moved.key
        BY <2>3
      <3>2. Answers(h.archive, s, record[s])
        BY <2>3, <1>6
      <3> QED
        BY <3>1, <3>2, <2>1, <1>2, <1>3, <1>4, AppendKeepsAnswers
    <2> QED
      BY <2>2, <2>3, <1>2, <1>3
  <1>9. CASE prev.key # 0 /\ ~Needed(cur, prev.key)
    <2>1. Archive(h) = h.archive
      BY <1>9 DEF Archive
    <2>2. s <= cur.seen \/ s = cur.key - 1
      BY <1>1 DEF SeenOK
    <2>3. s < prev.key
      BY <2>2, <1>2, <1>3, <1>9 DEF Needed
    <2> QED
      BY <2>1, <2>3, <1>6
  <1> QED
    BY <1>7, <1>8, <1>9

\* A write keeps a history in agreement with the record of what it writes.
LEMMA WriteKeeps ==
  ASSUME ClockOK, NEW h, NEW record, HistoryOK(h, record, block, snapshotAt),
         NEW value \in Nat
  PROVE  HistoryOK(Write(h, value), From(record, value), block, snapshotAt)
  <1> DEFINE cur == Current(h)
             prev == Predecessor(h)
             new == Write(h, value)
             newRecord == From(record, value)
  <1>1. /\ h \in History /\ record \in [Blocks -> Nat] /\ RingOK(h, block)
        /\ AgreesWith(h, record, snapshotAt) /\ SeenOK(h, snapshotAt)
    BY DEF HistoryOK
  <1>2. /\ cur \in Slot /\ prev \in Slot /\ cur.key \in Nat /\ prev.key \in Nat
        /\ cur.seen \in Nat
    BY <1>1, RingType
  <1>3. /\ block \in Nat \ {0} /\ latestSnapshot \in Nat /\ Blocks \subseteq Nat
        /\ snapshotAt \subseteq Blocks
        /\ \A s \in snapshotAt : s < block /\ s <= latestSnapshot
    BY BlocksType DEF ClockOK
  <1>4. /\ newRecord \in [Blocks -> Nat]
        /\ \A b \in Blocks : newRecord[b] = IF b < block THEN record[b] ELSE value
    BY <1>1, <1>3 DEF From
  <1>5. \A s \in snapshotAt : newRecord[s] = record[s]
    BY <1>3, <1>4
  <1>6. CASE cur.key = block
    <2>1. /\ new \in History /\ Predecessor(new) = prev /\ new.archive = h.archive
          /\ Current(new) = [key |-> block, seen |-> cur.seen, value |-> value]
      BY <1>1, <1>6, WriteInBlock
    <2>2. RingOK(new, block)
      BY <2>1, <1>1, <1>3, <1>6 DEF RingOK
    <2>3. AgreesWith(new, newRecord, snapshotAt)
      BY <2>1, <1>1, <1>2, <1>3, <1>4, <1>5, <1>6 DEF AgreesWith
    <2>4. SeenOK(new, snapshotAt)
      BY <2>1, <1>1, <1>6 DEF SeenOK
    <2> QED
      BY <2>1, <2>2, <2>3, <2>4, <1>4 DEF HistoryOK
  <1>7. CASE cur.key = 0
    <2>1. /\ new \in History /\ Predecessor(new) = prev /\ new.archive = h.archive
          /\ Current(new) = [key |-> block, seen |-> latestSnapshot, value |-> value]
      BY <1>1, <1>7, WriteFirst
    <2>2. prev.key = 0 /\ cur.value = 0 /\ prev.value = 0 /\ h.archive = <<>>
      BY <1>1, <1>7 DEF RingOK
    <2>3. RingOK(new, block)
      BY <2>1, <2>2, <1>3 DEF RingOK
    <2>4. \A b \in Blocks : record[b] = 0
      BY <2>2, <1>1, <1>3, <1>7 DEF AgreesWith
    <2>5. AgreesWith(new, newRecord, snapshotAt)
      BY <2>1, <2>2, <2>4, <1>3, <1>4 DEF AgreesWith
    <2>6. SeenOK(new, snapshotAt)
      BY <2>1, <1>3 DEF SeenOK
    <2> QED
      BY <2>1, <2>3, <2>5, <2>6, <1>4 DEF HistoryOK
  <1>8. CASE cur.key # 0 /\ cur.key # block
    <2>1. cur.key < block
      BY <1>8, <1>1, <1>2, <1>3 DEF RingOK
    <2>2. /\ new \in History /\ Predecessor(new) = cur /\ new.archive = Archive(h)
          /\ Current(new) = [key |-> block, seen |-> latestSnapshot, value |-> value]
      BY <2>1, <1>1, <1>8, WriteLater
    <2>3. RingOK(new, block)
      BY <2>1, <2>2, <1>2, <1>3, <1>8 DEF RingOK
    <2>4. \A b \in Blocks : b >= block => newRecord[b] = value
      BY <1>3, <1>4
    <2>5. \A b \in Blocks : cur.key <= b /\ b < block => newRecord[b] = cur.value
      BY <1>1, <1>4 DEF AgreesWith
    <2>6. \A s \in snapshotAt : s < cur.key => Answers(Archive(h), s, newRecord[s])
      BY <1>5, ArchiveKeepsAnswers
    <2>7. AgreesWith(new, newRecord, snapshotAt)
      BY <2>2, <2>4, <2>5, <2>6 DEF AgreesWith
    <2>8. SeenOK(new, snapshotAt)
      BY <2>2, <1>3 DEF SeenOK
    <2> QED
      BY <2>2, <2>3, <2>7, <2>8, <1>4 DEF HistoryOK
  <1> QED
    BY <1>6, <1>7, <1>8

\* So does a new snapshot, of the block before this one: the predecessor and the
\* current checkpoint cover it.
LEMMA SnapshotKeeps ==
  ASSUME ClockOK, NEW h, NEW record, HistoryOK(h, record, block, snapshotAt)
  PROVE  HistoryOK(h, record, block, snapshotAt \cup {block - 1})
  <1>1. h \in History /\ RingOK(h, block)
    BY DEF HistoryOK
  <1>2. block \in Nat \ {0} /\ Current(h).key \in Nat /\ Predecessor(h).key \in Nat
    BY <1>1, RingType, BlocksType DEF ClockOK
  <1>3. ~(block - 1 < Predecessor(h).key)
    BY <1>1, <1>2 DEF RingOK
  <1>4. block - 1 < Current(h).key => block - 1 = Current(h).key - 1
    BY <1>1, <1>2 DEF RingOK
  <1> QED
    BY <1>3, <1>4 DEF HistoryOK, AgreesWith, SeenOK

\* And so does the next block.
LEMMA NextBlockKeeps ==
  ASSUME ClockOK, NEW h, NEW record, HistoryOK(h, record, block, snapshotAt)
  PROVE  HistoryOK(h, record, block + 1, snapshotAt)
  <1>1. h \in History /\ RingOK(h, block)
    BY DEF HistoryOK
  <1>2. block \in Nat /\ Current(h).key \in Nat
    BY <1>1, RingType, BlocksType DEF ClockOK
  <1> QED
    BY <1>1, <1>2 DEF HistoryOK, RingOK

-----------------------------------------------------------------------------
(* The steps.                                                                *)

\* The histories that earn, all of them typed, with their records.
AccountsOK ==
  /\ balance \in [Accounts -> Nat]
  /\ accounts \in [Accounts -> History] /\ was \in [Accounts -> [Blocks -> Nat]]
  /\ \A a \in Earners : HistoryOK(accounts[a], was[a], block, snapshotAt)

EarningOK ==
  /\ earning \in History /\ wasEarning \in [Blocks -> Nat]
  /\ HistoryOK(earning, wasEarning, block, snapshotAt)

\* The parts of the invariant of the shares.
LEMMA InvariantParts ==
  SharesInvariant <=> live \in BOOLEAN /\ ClockOK /\ AccountsOK /\ EarningOK
  BY DEF SharesInvariant, SharesTypeOK, ClockOK, HistoriesOK, AccountsOK, EarningOK

\* A record overwritten from a block on is a record.
LEMMA RecordType ==
  ASSUME NEW record \in [Blocks -> Nat], NEW value \in Nat
  PROVE  From(record, value) \in [Blocks -> Nat]
  BY DEF From

\* Checkpointing the balances a transfer touched keeps every history's invariant.
LEMMA SetBalancesKeeps ==
  ASSUME ClockOK, AccountsOK, NEW new \in [Accounts -> Nat], NEW touched,
         SetBalances(new, touched), UNCHANGED <<block, snapshotAt>>
  PROVE  AccountsOK'
  <1>1. balance' \in [Accounts -> Nat]
    BY DEF SetBalances
  <1>2. ASSUME NEW a \in Accounts
        PROVE  was'[a] = IF a \in touched THEN From(was[a], new[a]) ELSE was[a]
    BY DEF SetBalances
  <1>3. was' \in [Accounts -> [Blocks -> Nat]]
    BY RecordType DEF SetBalances, AccountsOK
  <1>4. ASSUME NEW a \in Earners
        PROVE  /\ accounts'[a] \in History
               /\ HistoryOK(accounts'[a], was'[a], block, snapshotAt)
    <2>1. a \in Accounts /\ Earns(a) /\ HistoryOK(accounts[a], was[a], block, snapshotAt)
      BY DEF Earners, Earns, AccountsOK
    <2>2. accounts'[a] = IF a \in touched THEN Write(accounts[a], new[a]) ELSE accounts[a]
      BY <2>1 DEF SetBalances
    <2>3. HistoryOK(Write(accounts[a], new[a]), From(was[a], new[a]), block, snapshotAt)
      BY <2>1, WriteKeeps
    <2>4. HistoryOK(accounts'[a], was'[a], block, snapshotAt)
      BY <2>1, <2>2, <2>3, <1>2
    <2> QED
      BY <2>4 DEF HistoryOK
  <1>5. ASSUME NEW a \in Accounts \ Earners
        PROVE  accounts'[a] = accounts[a]
    BY DEF SetBalances, Earners, Earns
  <1>6. accounts' \in [Accounts -> History]
    <2>1. accounts' = [a \in Accounts |-> accounts'[a]]
      BY DEF SetBalances
    <2>2. \A a \in Accounts : accounts'[a] \in History
      BY <1>4, <1>5 DEF AccountsOK
    <2> QED
      BY <2>1, <2>2
  <1>7. block' = block /\ snapshotAt' = snapshotAt
    OBVIOUS
  <1> QED
    BY <1>1, <1>3, <1>4, <1>6, <1>7 DEF AccountsOK

\* So does checkpointing the earning supply.
LEMMA SetEarningKeeps ==
  ASSUME ClockOK, EarningOK, NEW value \in Nat, SetEarning(value),
         UNCHANGED <<block, snapshotAt>>
  PROVE  EarningOK'
  <1>1. HistoryOK(Write(earning, value), From(wasEarning, value), block, snapshotAt)
    BY WriteKeeps DEF EarningOK
  <1>2. /\ earning' = Write(earning, value) /\ wasEarning' = From(wasEarning, value)
        /\ block' = block /\ snapshotAt' = snapshotAt
    BY DEF SetEarning
  <1>3. HistoryOK(earning', wasEarning', block', snapshotAt')
    BY <1>1, <1>2
  <1> QED
    BY <1>3 DEF EarningOK, HistoryOK

\* The shares start with empty histories.
LEMMA SharesStart == SharesInit => SharesInvariant
  <1> SUFFICES ASSUME SharesInit PROVE SharesInvariant
    OBVIOUS
  <1>1. ClockOK /\ live \in BOOLEAN
    <2>1. block = 1 /\ latestSnapshot = 0 /\ snapshotAt = {}
      BY DEF SharesInit
    <2>2. ClockOK
      BY <2>1, BlocksType DEF ClockOK
    <2>3. live \in BOOLEAN
      BY DEF SharesInit
    <2> QED
      BY <2>2, <2>3
  <1>2. EmptyHistory \in History
    BY BlocksType DEF EmptyHistory, EmptySlot, History, Slot
  <1>3. Current(EmptyHistory) = EmptySlot /\ Predecessor(EmptyHistory) = EmptySlot
    BY DEF EmptyHistory, Current, Predecessor, AIsCurrent
  <1>4. HistoryOK(EmptyHistory, [b \in Blocks |-> 0], block, snapshotAt)
    <2>1. RingOK(EmptyHistory, block)
      BY <1>3 DEF RingOK, EmptySlot, EmptyHistory, SharesInit
    <2>2. snapshotAt = {}
      BY DEF SharesInit
    <2>3. AgreesWith(EmptyHistory, [b \in Blocks |-> 0], snapshotAt)
      BY <1>3, <2>2, BlocksType DEF AgreesWith, EmptySlot
    <2> QED
      BY <1>2, <2>1, <2>2, <2>3 DEF HistoryOK, SeenOK
  <1>5. AccountsOK /\ EarningOK
    BY <1>2, <1>4 DEF SharesInit, AccountsOK, EarningOK, Earners
  <1> QED
    BY <1>1, <1>5, InvariantParts

\* The earners are finitely many.
LEMMA EarnersFinite == IsFiniteSet(Earners) /\ IsFiniteSet(Accounts) /\ Earners \subseteq Accounts
  BY SharesAssumption, FS_Subset DEF Earners

\* The mints of seal keep the invariant of the shares.
LEMMA MintAllKeeps ==
  ASSUME SharesInvariant, NEW amounts \in Allocations, MintAll(amounts)
  PROVE  SharesInvariant'
  <1>1. ClockOK /\ AccountsOK /\ EarningOK
    BY InvariantParts
  <1>2. amounts \in [Accounts -> Nat] /\ SumFunctionOnSet(amounts, Earners) \in Nat
    BY AllocationAssumption, EarnersFinite, SumNatural
  <1>3. /\ block' = block /\ latestSnapshot' = latestSnapshot /\ snapshotAt' = snapshotAt
        /\ live' = TRUE
    BY DEF MintAll
  <1>4. AccountsOK'
    <2>1. SetBalances(amounts, {a \in Accounts : amounts[a] > 0})
      BY DEF MintAll
    <2> QED
      BY <2>1, <1>1, <1>2, <1>3, SetBalancesKeeps
  <1>5. EarningOK'
    <2>1. CASE SumFunctionOnSet(amounts, Earners) = 0
      <3>1. earning' = earning /\ wasEarning' = wasEarning
        BY <2>1 DEF MintAll
      <3> QED
        BY <3>1, <1>1, <1>3 DEF EarningOK
    <2>2. CASE SumFunctionOnSet(amounts, Earners) # 0
      <3>1. SetEarning(SumFunctionOnSet(amounts, Earners))
        BY <2>2 DEF MintAll
      <3> QED
        BY <3>1, <1>1, <1>2, <1>3, SetEarningKeeps
    <2> QED
      BY <2>1, <2>2
  <1>6. ClockOK'
    BY <1>1, <1>3 DEF ClockOK
  <1> QED
    BY <1>3, <1>4, <1>5, <1>6, InvariantParts DEF SharesInvariant, SharesTypeOK, ClockOK,
       HistoriesOK, AccountsOK, EarningOK

\* The guards of a transfer keep both sides and the earning supply from going below zero.
LEMMA MoveKeeps ==
  ASSUME SharesInvariant, NEW from \in Accounts, NEW to \in Accounts, NEW value,
         Move(from, to, value)
  PROVE  SharesInvariant'
  <1>1. ClockOK /\ AccountsOK /\ EarningOK /\ live \in BOOLEAN
    BY InvariantParts
  <1>2. /\ block' = block /\ latestSnapshot' = latestSnapshot /\ snapshotAt' = snapshotAt
        /\ live' = live
    BY DEF Move
  <1>3. value \in Nat /\ value <= balance[from] /\ balance \in [Accounts -> Nat]
    BY <1>1 DEF Move, AccountsOK
  <1>4. AccountsOK'
    <2> DEFINE new == [a \in Accounts |->
                        balance[a] - (IF a = from THEN value ELSE 0) + (IF a = to THEN value ELSE 0)]
    <2>1. new \in [Accounts -> Nat]
      BY <1>3
    <2>2. SetBalances(new, {from, to})
      BY DEF Move
    <2> QED
      BY <2>1, <2>2, <1>1, <1>2, SetBalancesKeeps
  <1>5. EarningSupply \in Nat
    BY <1>1, RingType DEF EarningOK, EarningSupply, Slot
  <1>6. EarningOK'
    <2>1. CASE Earns(from) = Earns(to)
      <3>1. earning' = earning /\ wasEarning' = wasEarning
        BY <2>1 DEF Move
      <3> QED
        BY <3>1, <1>1, <1>2 DEF EarningOK
    <2>2. CASE Earns(from) # Earns(to)
      <3> DEFINE supply == IF Earns(to) THEN EarningSupply + value ELSE EarningSupply - value
      <3>1. SetEarning(supply)
        BY <2>2 DEF Move
      <3>2. ~Earns(to) => value <= EarningSupply
        BY <2>2 DEF Move, Earns
      <3>3. supply \in Nat
        BY <3>2, <1>3, <1>5
      <3> QED
        BY <3>1, <3>3, <1>1, <1>2, SetEarningKeeps
    <2> QED
      BY <2>1, <2>2
  <1>7. ClockOK'
    BY <1>1, <1>2 DEF ClockOK
  <1> QED
    BY <1>1, <1>2, <1>4, <1>6, <1>7 DEF SharesInvariant, SharesTypeOK, ClockOK,
       HistoriesOK, AccountsOK, EarningOK

\* A snapshot keeps the invariant of the shares.
LEMMA RecordSnapshotKeeps ==
  ASSUME SharesInvariant, RecordSnapshot
  PROVE  SharesInvariant'
  <1>1. ClockOK /\ AccountsOK /\ EarningOK /\ live \in BOOLEAN
    BY InvariantParts
  <1>2. /\ block' = block /\ live' = live /\ balance' = balance /\ accounts' = accounts
        /\ earning' = earning /\ was' = was /\ wasEarning' = wasEarning
        /\ snapshotAt' = snapshotAt \cup {block - 1}
        /\ latestSnapshot' = IF block - 1 > latestSnapshot THEN block - 1 ELSE latestSnapshot
    BY DEF RecordSnapshot
  <1>3. ClockOK'
    BY <1>1, <1>2, BlocksType DEF ClockOK, Blocks
  <1>4. \A a \in Earners : HistoryOK(accounts'[a], was'[a], block', snapshotAt')
    BY <1>1, <1>2, SnapshotKeeps DEF AccountsOK
  <1>5. HistoryOK(earning', wasEarning', block', snapshotAt')
    BY <1>1, <1>2, SnapshotKeeps DEF EarningOK
  <1> QED
    BY <1>1, <1>2, <1>3, <1>4, <1>5 DEF SharesInvariant, SharesTypeOK, ClockOK, HistoriesOK,
       AccountsOK, EarningOK

\* A new block keeps the invariant of the shares.
LEMMA NextBlockStepKeeps ==
  ASSUME SharesInvariant, NextBlock
  PROVE  SharesInvariant'
  <1>1. ClockOK /\ AccountsOK /\ EarningOK /\ live \in BOOLEAN
    BY InvariantParts
  <1>2. /\ block < MaxBlock /\ block' = block + 1 /\ snapshotAt' = snapshotAt
        /\ live' = live /\ balance' = balance /\ accounts' = accounts
        /\ earning' = earning /\ was' = was /\ wasEarning' = wasEarning
        /\ latestSnapshot' = latestSnapshot
    BY DEF NextBlock
  <1>3. ClockOK'
    BY <1>1, <1>2, BlocksType DEF ClockOK, Blocks
  <1>4. \A a \in Earners : HistoryOK(accounts'[a], was'[a], block', snapshotAt')
    BY <1>1, <1>2, NextBlockKeeps DEF AccountsOK
  <1>5. HistoryOK(earning', wasEarning', block', snapshotAt')
    BY <1>1, <1>2, NextBlockKeeps DEF EarningOK
  <1> QED
    BY <1>1, <1>2, <1>3, <1>4, <1>5 DEF SharesInvariant, SharesTypeOK, ClockOK, HistoriesOK,
       AccountsOK, EarningOK

\* The drops touch the shares only by their snapshots, and the income not at all.
LEMMA DropsOnlyRecord ==
  ASSUME NEW c, NEW n, Drop(c, n) \/ DropStray(c, n) \/ DropTokenStray(c, n)
  PROVE  RecordSnapshot
  BY DEF Drop, DropStray, DropTokenStray, RecordDrop

\* What the box does to the shares is to take a snapshot.
LEMMA BoxSteps ==
  ASSUME Box
  PROVE  RecordSnapshot \/ UNCHANGED sharesVars
  BY DropsOnlyRecord DEF Box, ArriveAtBox, ShrinkAtBox, ClaimDrop

\* What the ledger does leaves the shares alone.
LEMMA IncomeSteps ==
  ASSUME Income
  PROVE  UNCHANGED sharesVars
  BY DEF Income, NextSecond, Poke, Sync, DepositBonus, Arrive, Shrink, Claim

\* A step that leaves the shares alone keeps their invariant.
LEMMA StutterKeeps ==
  ASSUME SharesInvariant, UNCHANGED sharesVars
  PROVE  SharesInvariant'
  BY DEF SharesInvariant, SharesTypeOK, ClockOK, HistoriesOK, sharesVars

\* Every step keeps the invariant of the shares.
LEMMA StepKeeps ==
  ASSUME SharesInvariant, [Next]_vars
  PROVE  SharesInvariant'
  <1>1. CASE \E amounts \in Allocations : Seal(amounts)
    BY <1>1, MintAllKeeps DEF Seal
  <1>2. CASE NextBlock
    BY <1>2, NextBlockStepKeeps
  <1>3. CASE Box
    BY <1>3, BoxSteps, RecordSnapshotKeeps, StutterKeeps
  <1>4. CASE Income
    BY <1>4, IncomeSteps, StutterKeeps
  <1>5. CASE \E from, to \in Accounts, n \in Parts : Transfer(from, to, n)
    BY <1>5, MoveKeeps DEF Transfer
  <1>6. CASE UNCHANGED vars
    BY <1>6, StutterKeeps DEF vars
  <1> QED
    BY <1>1, <1>2, <1>3, <1>4, <1>5, <1>6 DEF Next, Shares

-----------------------------------------------------------------------------
(* The theorems.                                                             *)

\* Hence it holds in every reachable state.
LEMMA InvariantHolds == Spec => []SharesInvariant
  <1>1. Init => SharesInvariant
    BY SharesStart DEF Init
  <1>2. SharesInvariant /\ [Next]_vars => SharesInvariant'
    BY StepKeeps
  <1> QED
    BY <1>1, <1>2, PTL DEF Spec

\* The shares, the two histories and their clocks keep their types.
THEOREM SharesTypeCorrect == Spec => []SharesTypeOK
  <1>1. SharesInvariant => SharesTypeOK
    BY DEF SharesInvariant
  <1> QED
    BY <1>1, InvariantHolds, PTL

\* Whatever trades and drops follow in whatever blocks, the two slots and the few
\* archived checkpoints answer every recorded snapshot with the exact balance and the
\* exact earning supply that block ended with (HookrBalanceHistory._write, _valueAt).
THEOREM SnapshotsAnswered == Spec => []SnapshotsAnswer
  <1>1. ASSUME SharesInvariant PROVE SnapshotsAnswer
    <2>1. ClockOK /\ AccountsOK /\ EarningOK
      BY <1>1, InvariantParts
    <2>2. ASSUME NEW s \in snapshotAt, NEW a \in Accounts
          PROVE  BalanceAt(a, s) = IF Earns(a) THEN was[a][s] ELSE 0
      <3>1. CASE Earns(a)
        <4>1. HistoryOK(accounts[a], was[a], block, snapshotAt)
          BY <2>1, <3>1 DEF AccountsOK, Earns, Earners
        <4> QED
          BY <2>1, <3>1, <4>1, HistoryReads DEF BalanceAt, ClockOK
      <3> QED
        BY <3>1 DEF BalanceAt
    <2>3. ASSUME NEW s \in snapshotAt
          PROVE  EarningSupplyAt(s) = wasEarning[s]
      BY <2>1, HistoryReads DEF EarningOK, EarningSupplyAt, ClockOK
    <2> QED
      BY <2>2, <2>3 DEF SnapshotsAnswer
  <1> QED
    BY <1>1, InvariantHolds, PTL

-----------------------------------------------------------------------------
(* The drops.                                                                *)

DropRecord == [asset: Currencies, snapshotBlock: Blocks, amount: Nat,
               earningSupply: Nat \ {0}, paid: Nat]

\* Every drop is of a recorded snapshot and pays no more than it holds.
DropsOK ==
  /\ drops \in Seq(DropRecord)
  /\ owedOf \in [Currencies -> Int] /\ boxHeld \in [Currencies -> Int]
  /\ \A i \in DropIds : drops[i].snapshotBlock \in snapshotAt /\ drops[i].paid <= drops[i].amount

\* What a drop can be asked, from one state to the next.
TermsKept ==
  /\ snapshotAt \subseteq snapshotAt'
  /\ \A i \in DropIds : i \in DOMAIN drops' /\ drops'[i].snapshotBlock = drops[i].snapshotBlock
  /\ \A a \in Earners, s \in snapshotAt : was'[a][s] = was[a][s]

\* The supply a drop divides by is read off the ring: the earning shares the last block
\* ended with.
LEMMA LastBlockReads ==
  ASSUME SharesInvariant
  PROVE  EarningSupplyAt(block - 1) = wasEarning[block - 1] /\ EarningSupplyAt(block - 1) \in Nat
  <1>1. ClockOK /\ HistoryOK(earning, wasEarning, block, snapshotAt)
    BY InvariantParts DEF EarningOK
  <1>2. HistoryOK(earning, wasEarning, block, snapshotAt \cup {block - 1})
    BY <1>1, SnapshotKeeps
  <1>3. block - 1 \in Blocks /\ snapshotAt \cup {block - 1} \subseteq Blocks
    BY <1>1, BlocksType DEF ClockOK, Blocks
  <1>4. ValueAt(earning, block - 1) = wasEarning[block - 1]
    BY <1>2, <1>3, HistoryReads
  <1> QED
    BY <1>1, <1>3, <1>4 DEF HistoryOK, EarningSupplyAt

\* A recorded snapshot reads a share of the earner's, a whole number.
LEMMA OwedType ==
  ASSUME SharesInvariant, DropsOK, NEW i \in DropIds, NEW holder \in Accounts
  PROVE  Owed(drops[i], holder) \in Nat /\ drops[i].paid + Owed(drops[i], holder) <= drops[i].amount
  <1> DEFINE d == drops[i]
  <1>1. /\ d \in DropRecord /\ d.snapshotBlock \in snapshotAt /\ d.paid <= d.amount
        /\ d.amount \in Nat /\ d.paid \in Nat /\ d.earningSupply \in Nat \ {0}
    <2>1. d \in DropRecord /\ d.snapshotBlock \in snapshotAt /\ d.paid <= d.amount
      BY DEF DropsOK, DropIds
    <2> QED
      BY <2>1 DEF DropRecord
  <1>2. BalanceAt(holder, d.snapshotBlock) \in Nat
    <2>1. ClockOK /\ AccountsOK
      BY InvariantParts
    <2>2. CASE Earns(holder)
      <3>1. HistoryOK(accounts[holder], was[holder], block, snapshotAt)
        BY <2>1, <2>2 DEF AccountsOK, Earns, Earners
      <3>2. snapshotAt \subseteq Blocks
        BY <2>1 DEF ClockOK
      <3>3. ValueAt(accounts[holder], d.snapshotBlock) = was[holder][d.snapshotBlock]
        BY <1>1, <3>1, <3>2, HistoryReads
      <3>4. was[holder] \in [Blocks -> Nat]
        BY <3>1 DEF HistoryOK
      <3> QED
        BY <1>1, <2>2, <3>2, <3>3, <3>4 DEF BalanceAt
    <2> QED
      BY <2>2 DEF BalanceAt
  <1>3. BalanceAt(holder, d.snapshotBlock) * d.amount \in Nat
    BY <1>1, <1>2
  <1>4. \A n \in Nat, m \in Nat \ {0} : n \div m \in Nat
    OBVIOUS
  <1>5. Share(d, holder) \in Nat
    BY <1>1, <1>3, <1>4 DEF Share
  <1> QED
    BY <1>1, <1>5 DEF Owed

\* A drop is recorded with the block before as its snapshot, and leaves earlier drops
\* alone.
LEMMA RecordDropKeeps ==
  ASSUME SharesInvariant, DropsOK, NEW c \in Currencies, NEW amount \in Nat,
         RecordDrop(c, amount), NEW held \in Int, boxHeld' = [boxHeld EXCEPT ![c] = held]
  PROVE  DropsOK' /\ TermsKept
  <1> DEFINE supply == EarningSupplyAt(block - 1)
             d == [asset |-> c, snapshotBlock |-> block - 1, amount |-> amount,
                   earningSupply |-> supply, paid |-> 0]
  <1>1. supply \in Nat \ {0}
    BY LastBlockReads DEF RecordDrop
  <1>2. block - 1 \in Blocks
    BY BlocksType DEF SharesInvariant, ClockOK, Blocks
  <1>3. d \in DropRecord
    BY <1>1, <1>2 DEF DropRecord
  <1>4. drops' = Append(drops, d) /\ drops \in Seq(DropRecord)
    BY DEF RecordDrop, DropsOK
  <1>5. snapshotAt' = snapshotAt \cup {block - 1} /\ was' = was
    BY DEF RecordDrop, RecordSnapshot
  <1>6. drops' \in Seq(DropRecord)
    BY <1>3, <1>4
  <1>7. \A i \in DOMAIN drops' : (i \in DropIds /\ drops'[i] = drops[i]) \/ drops'[i] = d
    BY <1>3, <1>4 DEF DropIds
  <1>8. \A i \in DropIds : i \in DOMAIN drops' /\ drops'[i] = drops[i]
    BY <1>3, <1>4 DEF DropIds
  <1>9. \A i \in DOMAIN drops' :
          drops'[i].snapshotBlock \in snapshotAt' /\ drops'[i].paid <= drops'[i].amount
    BY <1>5, <1>7 DEF DropsOK
  <1>10. owedOf' \in [Currencies -> Int] /\ boxHeld' \in [Currencies -> Int]
    BY DEF RecordDrop, DropsOK
  <1>11. DropsOK'
    BY <1>6, <1>9, <1>10 DEF DropsOK, DropIds
  <1> QED
    BY <1>5, <1>8, <1>11 DEF TermsKept

\* A payment changes what a drop has paid and nothing else of it.
LEMMA PaidMore ==
  ASSUME NEW d \in DropRecord, NEW paid \in Nat
  PROVE  LET new == [d EXCEPT !.paid = paid]
         IN  /\ new \in DropRecord /\ new.paid = paid
             /\ new.snapshotBlock = d.snapshotBlock /\ new.amount = d.amount
  BY DEF DropRecord

\* A claim leaves every drop's terms alone.
LEMMA ClaimDropKeeps ==
  ASSUME SharesInvariant, DropsOK, NEW holder \in Accounts, NEW i \in DropIds,
         ClaimDrop(holder, i)
  PROVE  DropsOK' /\ TermsKept
  <1> DEFINE due == Owed(drops[i], holder)
             asset == drops[i].asset
  <1>1. due \in Nat /\ drops[i].paid + due <= drops[i].amount
    BY OwedType
  <1>2. drops \in Seq(DropRecord) /\ drops[i] \in DropRecord
    BY DEF DropsOK, DropIds
  <1>3. drops[i].paid \in Nat /\ asset \in Currencies
    BY <1>2 DEF DropRecord
  <1>4. /\ drops' = [drops EXCEPT ![i].paid = @ + due]
        /\ owedOf' = [owedOf EXCEPT ![asset] = @ - due]
        /\ boxHeld' = [boxHeld EXCEPT ![asset] = @ - due]
        /\ snapshotAt' = snapshotAt /\ was' = was
    BY DEF ClaimDrop, sharesVars
  <1> DEFINE new == [drops[i] EXCEPT !.paid = drops[i].paid + due]
  <1>5. /\ new \in DropRecord /\ new.snapshotBlock = drops[i].snapshotBlock
        /\ new.paid = drops[i].paid + due /\ new.amount = drops[i].amount
    <2>1. drops[i].paid + due \in Nat
      BY <1>1, <1>3
    <2> QED
      BY <2>1, <1>2, PaidMore
  <1>6. drops' = [drops EXCEPT ![i] = new]
    BY <1>4
  <1>7. drops' \in Seq(DropRecord) /\ DOMAIN drops' = DropIds
    BY <1>2, <1>5, <1>6 DEF DropIds
  <1>8. \A j \in DropIds : drops'[j] = IF j = i THEN new ELSE drops[j]
    BY <1>2, <1>6 DEF DropIds
  <1>9. owedOf' \in [Currencies -> Int] /\ boxHeld' \in [Currencies -> Int]
    BY <1>1, <1>3, <1>4 DEF DropsOK
  <1>10. \A j \in DropIds : drops'[j].snapshotBlock \in snapshotAt' /\ drops'[j].paid <= drops'[j].amount
    BY <1>1, <1>4, <1>5, <1>8 DEF DropsOK
  <1>11. DropsOK'
    BY <1>7, <1>9, <1>10 DEF DropsOK, DropIds
  <1>12. \A j \in DropIds : drops'[j].snapshotBlock = drops[j].snapshotBlock
    BY <1>5, <1>8
  <1> QED
    BY <1>4, <1>7, <1>11, <1>12 DEF TermsKept

\* So does a step outside the box.
LEMMA UntouchedDrops ==
  ASSUME DropsOK, UNCHANGED <<drops, owedOf, snapshotAt, was>>, boxHeld' \in [Currencies -> Int]
  PROVE  DropsOK' /\ TermsKept
  BY DEF DropsOK, TermsKept, DropIds

\* Trades write a record from this block on, and every snapshot is of a block before.
LEMMA TradesKeepTerms ==
  ASSUME SharesInvariant, DropsOK, UNCHANGED boxVars, UNCHANGED <<block, snapshotAt>>,
         NEW new, NEW touched, SetBalances(new, touched)
  PROVE  DropsOK' /\ TermsKept
  <1>1. drops' = drops /\ owedOf' = owedOf /\ boxHeld' = boxHeld /\ snapshotAt' = snapshotAt
    BY DEF boxVars
  <1>2. DropsOK'
    BY <1>1 DEF DropsOK, DropIds
  <1>3. ASSUME NEW a \in Earners, NEW s \in snapshotAt
        PROVE  was'[a][s] = was[a][s]
    <2>1. s \in Blocks /\ s < block
      BY BlocksType DEF SharesInvariant, ClockOK
    <2>2. was'[a] = was[a] \/ was'[a] = From(was[a], new[a])
      BY DEF SetBalances, Earners
    <2> QED
      BY <2>1, <2>2 DEF From
  <1> QED
    BY <1>1, <1>2, <1>3 DEF TermsKept, DropIds

\* There are no drops at the start.
LEMMA DropsStart == Init => DropsOK
  BY DEF Init, DropBoxInit, DropsOK, DropIds

\* Every step of the box keeps the drops' terms.
LEMMA BoxKeepsDrops ==
  ASSUME SharesInvariant, DropsOK, Box
  PROVE  DropsOK' /\ TermsKept
  <1>1. owedOf \in [Currencies -> Int] /\ boxHeld \in [Currencies -> Int] /\ Amounts \subseteq Nat
    BY AmountsAssumption DEF DropsOK
  <1>2. ASSUME NEW c \in Currencies, NEW n \in Amounts, Drop(c, n)
        PROVE  DropsOK' /\ TermsKept
    <2>1. /\ n \in Nat /\ RecordDrop(c, n) /\ boxHeld[c] + n \in Int
          /\ boxHeld' = [boxHeld EXCEPT ![c] = boxHeld[c] + n]
      BY <1>1, <1>2 DEF Drop
    <2> QED
      BY <2>1, RecordDropKeeps
  <1>3. ASSUME NEW c \in Currencies, NEW n \in Nat, DropStray(c, n)
        PROVE  DropsOK' /\ TermsKept
    <2> DEFINE held == boxHeld[c] + n
    <2>1. /\ held > owedOf[c] /\ RecordDrop(c, held - owedOf[c])
          /\ boxHeld' = [boxHeld EXCEPT ![c] = held]
      BY <1>3 DEF DropStray
    <2>2. held \in Int /\ held - owedOf[c] \in Nat
      BY <1>1, <2>1
    <2> QED
      BY <2>1, <2>2, RecordDropKeeps
  <1>4. ASSUME NEW c \in Currencies, NEW n \in Amounts, ArriveAtBox(c, n) \/ ShrinkAtBox(c, n)
        PROVE  DropsOK' /\ TermsKept
    <2>1. /\ UNCHANGED <<drops, owedOf, snapshotAt, was>>
          /\ \/ boxHeld' = [boxHeld EXCEPT ![c] = @ + n]
             \/ boxHeld' = [boxHeld EXCEPT ![c] = @ - n]
      BY <1>4 DEF ArriveAtBox, ShrinkAtBox, sharesVars
    <2>2. boxHeld' \in [Currencies -> Int]
      BY <1>1, <2>1
    <2> QED
      BY <2>1, <2>2, UntouchedDrops
  <1>5. CASE \E h \in Accounts, i \in DropIds : ClaimDrop(h, i)
    BY <1>5, ClaimDropKeeps
  <1>6. CASE \E c \in Currencies : DropStray(c, 0)
    BY <1>6, <1>3
  <1>7. CASE \E c \in Currencies, n \in Amounts :
               Drop(c, n) \/ DropTokenStray(c, n) \/ ArriveAtBox(c, n) \/ ShrinkAtBox(c, n)
    BY <1>1, <1>2, <1>3, <1>4, <1>7 DEF DropTokenStray
  <1> QED
    BY <1>5, <1>6, <1>7 DEF Box

\* So does every step of the token.
LEMMA StepKeepsDrops ==
  ASSUME SharesInvariant, DropsOK, [Next]_vars
  PROVE  DropsOK' /\ TermsKept
  <1>1. CASE \E amounts \in Allocations : Seal(amounts)
    BY <1>1, TradesKeepTerms DEF Seal, MintAll
  <1>2. CASE \E from, to \in Accounts, n \in Parts : Transfer(from, to, n)
    BY <1>2, TradesKeepTerms DEF Transfer, Move
  <1>3. CASE NextBlock /\ UNCHANGED <<boxVars, incomeVars>>
    BY <1>3, UntouchedDrops DEF NextBlock, boxVars, DropsOK
  <1>4. CASE Box
    BY <1>4, BoxKeepsDrops
  <1>5. CASE Income
    BY <1>5, IncomeSteps, UntouchedDrops DEF Income, sharesVars, boxVars, DropsOK
  <1>6. CASE UNCHANGED vars
    BY <1>6, UntouchedDrops DEF vars, sharesVars, boxVars, DropsOK
  <1> QED
    BY <1>1, <1>2, <1>3, <1>4, <1>5, <1>6 DEF Next, Shares

\* Whatever happens after a drop, in its own block or later, no account's balance at its
\* snapshot changes any more: what each holder can ask of it is fixed as it lands.
THEOREM DropsAskTheSame == Spec => DropTermsStand
  <1> DEFINE Fixed == \A i \in DropIds : \A h \in Accounts :
               BalanceAt(h, drops[i].snapshotBlock)' = BalanceAt(h, drops[i].snapshotBlock)
  <1>1. ASSUME SharesInvariant, SharesInvariant', DropsOK, DropsOK', TermsKept PROVE Fixed
    <2> SUFFICES ASSUME NEW i \in DropIds, NEW h \in Accounts
                 PROVE  BalanceAt(h, drops[i].snapshotBlock)' = BalanceAt(h, drops[i].snapshotBlock)
      OBVIOUS
    <2> DEFINE s == drops[i].snapshotBlock
    <2>1. s \in snapshotAt /\ s \in snapshotAt' /\ drops'[i].snapshotBlock = s
      BY <1>1 DEF DropsOK, TermsKept
    <2>2. CASE ~Earns(h)
      BY <2>2 DEF BalanceAt, Earns
    <2>3. CASE Earns(h)
      <3>1. h \in Earners
        BY <2>3 DEF Earners, Earns
      <3>2. ValueAt(accounts[h], s) = was[h][s]
        BY <1>1, <2>1, <3>1, HistoryReads DEF SharesInvariant, HistoriesOK, ClockOK
      <3>3. HistoryOK(accounts'[h], was'[h], block', snapshotAt') /\ snapshotAt' \subseteq Blocks
        BY <1>1, <3>1 DEF SharesInvariant, HistoriesOK, ClockOK
      <3>4. ValueAt(accounts'[h], s) = was'[h][s]
        BY <2>1, <3>3, HistoryReads
      <3>5. was'[h][s] = was[h][s]
        BY <1>1, <2>1, <3>1 DEF TermsKept
      <3> QED
        BY <2>1, <2>3, <3>2, <3>4, <3>5 DEF BalanceAt, Earns
    <2> QED
      BY <2>2, <2>3
  <1>2. Init => SharesInvariant /\ DropsOK
    BY SharesStart, DropsStart DEF Init
  <1>3. SharesInvariant /\ DropsOK /\ [Next]_vars =>
          SharesInvariant' /\ DropsOK' /\ TermsKept
    BY StepKeeps, StepKeepsDrops
  <1>4. SharesInvariant /\ DropsOK /\ [Next]_vars => [Fixed]_vars
    BY <1>1, <1>3
  <1> QED
    BY <1>2, <1>3, <1>4, PTL DEF Spec, DropTermsStand

-----------------------------------------------------------------------------
(* The earning supply is a sum.                                              *)

\* The shares that earn add up to the earning supply, and before the seal nobody holds
\* any.
SupplyOK ==
  /\ EarningSupply = SumFunctionOnSet(balance, Earners)
  /\ ~live => \A a \in Accounts : balance[a] = 0

\* A write is what is read from its block on.
LEMMA WrittenIsCurrent ==
  ASSUME ClockOK, NEW h, NEW record, HistoryOK(h, record, block, snapshotAt), NEW value \in Nat
  PROVE  Current(Write(h, value)).value = value
  <1>1. h \in History /\ RingOK(h, block) /\ block \in Nat /\ Current(h).key \in Nat
    BY BlocksType, RingType DEF HistoryOK, ClockOK
  <1>2. CASE Current(h).key = block
    BY <1>1, <1>2, WriteInBlock
  <1>3. CASE Current(h).key = 0
    BY <1>1, <1>3, WriteFirst
  <1>4. CASE Current(h).key # 0 /\ Current(h).key # block
    <2>1. Current(h).key < block
      BY <1>1, <1>4 DEF RingOK
    <2> QED
      BY <1>1, <1>4, <2>1, WriteLater
  <1> QED
    BY <1>2, <1>3, <1>4

\* Setting the earning supply sets it.
LEMMA EarningIsSet ==
  ASSUME SharesInvariant, NEW value \in Nat, SetEarning(value)
  PROVE  EarningSupply' = value
  <1>1. ClockOK /\ HistoryOK(earning, wasEarning, block, snapshotAt)
    BY InvariantParts DEF EarningOK
  <1>2. Current(Write(earning, value)).value = value
    BY <1>1, WrittenIsCurrent
  <1>3. earning' = Write(earning, value)
    BY DEF SetEarning
  <1> QED
    BY <1>2, <1>3 DEF EarningSupply

\* Changing one account's shares changes what the earners hold if it earns.
LEMMA EarnedChange ==
  ASSUME NEW f, NEW g, \A x \in Accounts : f[x] \in Int /\ g[x] \in Int,
         NEW e \in Accounts, \A x \in Accounts \ {e} : f[x] = g[x]
  PROVE  SumFunctionOnSet(g, Earners) = SumFunctionOnSet(f, Earners) + (IF Earns(e) THEN g[e] - f[e] ELSE 0)
  <1>1. CASE Earns(e)
    <2>1. e \in Earners
      BY <1>1 DEF Earns, Earners
    <2> QED
      BY <1>1, <2>1, EarnersFinite, SumChange
  <1>2. CASE ~Earns(e)
    <2>1. \A x \in Earners : f[x] = g[x]
      BY <1>2 DEF Earns, Earners
    <2>2. SumFunctionOnSet(f, Earners) = SumFunctionOnSet(g, Earners)
      BY <2>1, EarnersFinite, SumSame
    <2>3. SumFunctionOnSet(f, Earners) \in Int
      BY EarnersFinite, SumType
    <2> QED
      BY <1>2, <2>2, <2>3
  <1> QED
    BY <1>1, <1>2

\* The supply is a number, and nothing before the seal.
LEMMA SupplyType ==
  ASSUME SharesInvariant, SupplyOK
  PROVE  EarningSupply \in Nat /\ (~live => EarningSupply = 0)
  <1>1. balance \in [Accounts -> Nat]
    BY DEF SharesInvariant, SharesTypeOK
  <1>2. SumFunctionOnSet(balance, Earners) \in Nat
    BY <1>1, EarnersFinite, SumNatural
  <1>3. ASSUME ~live
        PROVE  SumFunctionOnSet(balance, Earners) = 0
    BY <1>3, EarnersFinite, SumZero DEF SupplyOK
  <1> QED
    BY <1>2, <1>3 DEF SupplyOK

\* A seal mints the first earning supply.
LEMMA SealSupplies ==
  ASSUME SharesInvariant, SupplyOK, NEW amounts \in Allocations, MintAll(amounts)
  PROVE  SupplyOK'
  <1>1. amounts \in [Accounts -> Nat]
    BY AllocationAssumption
  <1> DEFINE earned == SumFunctionOnSet(amounts, Earners)
  <1>2. earned \in Nat
    BY <1>1, EarnersFinite, SumNatural
  <1>3. ~live /\ live' = TRUE /\ balance' = amounts
    BY DEF MintAll, SetBalances
  <1>4. EarningSupply' = earned
    <2>1. CASE earned = 0
      <3>1. earning' = earning
        BY <2>1 DEF MintAll
      <3>2. EarningSupply = 0
        BY <1>3, SupplyType
      <3> QED
        BY <2>1, <3>1, <3>2 DEF EarningSupply
    <2>2. CASE earned # 0
      <3>1. SetEarning(earned)
        BY <2>2 DEF MintAll
      <3> HIDE DEF earned
      <3> QED
        BY <1>2, <3>1, EarningIsSet
    <2> QED
      BY <2>1, <2>2
  <1> QED
    BY <1>3, <1>4 DEF SupplyOK

\* A transfer moves the supply by what crosses between those who earn and those who
\* do not.
LEMMA MoveSupplies ==
  ASSUME SharesInvariant, SupplyOK, NEW from \in Accounts, NEW to \in Accounts, NEW value,
         Move(from, to, value)
  PROVE  SupplyOK'
  <1>1. balance \in [Accounts -> Nat] /\ EarningSupply \in Nat
    BY SupplyType DEF SharesInvariant, SharesTypeOK
  <1>2. value \in Nat /\ value <= balance[from] /\ live' = live /\ value # 0
    BY <1>1 DEF Move
  <1>3. live
    BY <1>1, <1>2 DEF SupplyOK
  <1> DEFINE new == [a \in Accounts |->
                       balance[a] - (IF a = from THEN value ELSE 0) + (IF a = to THEN value ELSE 0)]
             mid == [a \in Accounts |-> balance[a] - (IF a = from THEN value ELSE 0)]
             earned == SumFunctionOnSet(balance, Earners)
  <1>4. balance' = new
    BY DEF Move, SetBalances
  <1>5. /\ \A a \in Accounts : mid[a] \in Int /\ new[a] \in Int
        /\ mid[from] = balance[from] - value /\ \A a \in Accounts \ {from} : mid[a] = balance[a]
        /\ new[to] = mid[to] + value /\ \A a \in Accounts \ {to} : new[a] = mid[a]
    BY <1>1, <1>2
  <1> HIDE DEF new, mid
  <1>6. SumFunctionOnSet(mid, Earners) = earned + (IF Earns(from) THEN mid[from] - balance[from] ELSE 0)
    BY <1>1, <1>5, EarnedChange
  <1>7. SumFunctionOnSet(new, Earners) = SumFunctionOnSet(mid, Earners) + (IF Earns(to) THEN new[to] - mid[to] ELSE 0)
    BY <1>5, EarnedChange
  <1>8. earned = EarningSupply
    BY DEF SupplyOK
  <1> HIDE DEF earned
  <1>9. SumFunctionOnSet(new, Earners)
          = EarningSupply - (IF Earns(from) THEN value ELSE 0) + (IF Earns(to) THEN value ELSE 0)
    <2>1. mid[from] - balance[from] = 0 - value /\ new[to] - mid[to] = value
      BY <1>1, <1>2, <1>5
    <2> QED
      BY <1>1, <1>2, <1>6, <1>7, <1>8, <2>1
  <1>10. EarningSupply' = SumFunctionOnSet(new, Earners)
    <2>1. CASE Earns(from) = Earns(to)
      <3>1. earning' = earning
        BY <2>1 DEF Move
      <3>2. SumFunctionOnSet(new, Earners) = EarningSupply
        <4>1. Earns(from) <=> Earns(to)
          BY <2>1
        <4> QED
          BY <1>1, <1>2, <1>9, <4>1
      <3> QED
        BY <3>1, <3>2 DEF EarningSupply
    <2>2. CASE Earns(from) # Earns(to)
      <3> DEFINE supply == IF Earns(to) THEN EarningSupply + value ELSE EarningSupply - value
      <3>1. SetEarning(supply)
        BY <2>2 DEF Move
      <3>2. ~Earns(to) => value <= EarningSupply
        BY <2>2 DEF Move, Earns
      <3>3. supply \in Nat
        BY <3>2, <1>1, <1>2
      <3>4. SumFunctionOnSet(new, Earners) = supply
        <4>1. Earns(from) <=> ~Earns(to)
          BY <2>2 DEF Earns
        <4> QED
          BY <1>1, <1>2, <1>9, <4>1
      <3> HIDE DEF supply
      <3> QED
        BY <3>1, <3>3, <3>4, EarningIsSet
    <2> QED
      BY <2>1, <2>2
  <1> QED
    BY <1>2, <1>3, <1>4, <1>10 DEF SupplyOK

\* Nothing else moves a share.
LEMMA StepSupplies ==
  ASSUME SharesInvariant, SupplyOK, [Next]_vars
  PROVE  SupplyOK'
  <1>1. CASE \E amounts \in Allocations : Seal(amounts)
    BY <1>1, SealSupplies DEF Seal
  <1>2. CASE \E from, to \in Accounts, n \in Parts : Transfer(from, to, n)
    BY <1>2, MoveSupplies DEF Transfer
  <1>3. UNCHANGED <<balance, earning, live>> => SupplyOK'
    BY DEF SupplyOK, EarningSupply
  <1>4. CASE NextBlock
    BY <1>3, <1>4 DEF NextBlock
  <1>5. CASE Box
    BY <1>3, <1>5, BoxSteps DEF RecordSnapshot, sharesVars
  <1>6. CASE Income
    BY <1>3, <1>6, IncomeSteps DEF sharesVars
  <1>7. CASE UNCHANGED vars
    BY <1>3, <1>7 DEF vars, sharesVars
  <1> QED
    BY <1>1, <1>2, <1>4, <1>5, <1>6, <1>7 DEF Next, Shares

\* A new token has no shares.
LEMMA SupplyStart ==
  ASSUME Init
  PROVE  SupplyOK
  <1>1. \A a \in Accounts : balance[a] = 0
    BY DEF Init, SharesInit
  <1>2. SumFunctionOnSet(balance, Earners) = 0
    BY <1>1, EarnersFinite, SumZero
  <1>3. EarningSupply = 0
    BY DEF Init, SharesInit, EarningSupply, Current, AIsCurrent, EmptyHistory, EmptySlot
  <1> QED
    BY <1>1, <1>2, <1>3 DEF SupplyOK

-----------------------------------------------------------------------------
(* What the drops hold is a sum.                                             *)

\* What the drops of a currency hold together.
HeldByDrops(ds, c) ==
  SumFunctionOnSet([i \in DOMAIN ds |-> ds[i].amount - ds[i].paid],
                   {i \in DOMAIN ds : ds[i].asset = c})

\* What each of finitely many drops still holds is a number.
LEMMA HeldTerms ==
  ASSUME NEW ds \in Seq(DropRecord)
  PROVE  /\ IsFiniteSet(DOMAIN ds)
         /\ \A i \in DOMAIN ds : ds[i] \in DropRecord /\ ds[i].amount - ds[i].paid \in Int
  <1>1. DOMAIN ds = 1..Len(ds) /\ Len(ds) \in Nat
    OBVIOUS
  <1>2. IsFiniteSet(DOMAIN ds)
    BY <1>1, FS_Interval
  <1>3. \A i \in DOMAIN ds : ds[i] \in DropRecord
    BY <1>1
  <1>4. \A d \in DropRecord : d.amount - d.paid \in Int
    BY DEF DropRecord
  <1> QED
    BY <1>2, <1>3, <1>4

\* A new drop adds what it brings to its own currency's sum and to no other.
LEMMA AppendedHolds ==
  ASSUME NEW ds \in Seq(DropRecord), NEW d \in DropRecord, NEW c
  PROVE  HeldByDrops(Append(ds, d), c)
           = HeldByDrops(ds, c) + (IF d.asset = c THEN d.amount - d.paid ELSE 0)
  <1> DEFINE n == Len(ds) + 1
             new == Append(ds, d)
             f == [i \in DOMAIN ds |-> ds[i].amount - ds[i].paid]
             g == [i \in DOMAIN new |-> new[i].amount - new[i].paid]
             S == {i \in DOMAIN ds : ds[i].asset = c}
             T == {i \in DOMAIN new : new[i].asset = c}
  <1>1. /\ new \in Seq(DropRecord) /\ DOMAIN new = DOMAIN ds \cup {n} /\ n \notin DOMAIN ds
        /\ new[n] = d /\ \A i \in DOMAIN ds : new[i] = ds[i]
    OBVIOUS
  <1>2. IsFiniteSet(DOMAIN ds) /\ \A i \in DOMAIN ds : ds[i].amount - ds[i].paid \in Int
    BY HeldTerms
  <1>3. d.amount - d.paid \in Int
    BY DEF DropRecord
  <1> HIDE DEF n, new
  <1>4. IsFiniteSet(S)
    BY <1>2, FS_Subset
  <1>5. /\ \A i \in S : f[i] \in Int /\ g[i] = f[i]
        /\ g[n] = d.amount - d.paid /\ n \notin S
        /\ T = IF d.asset = c THEN S \cup {n} ELSE S
    BY <1>1, <1>2
  <1>6. HeldByDrops(ds, c) = SumFunctionOnSet(f, S) /\ HeldByDrops(new, c) = SumFunctionOnSet(g, T)
    BY DEF HeldByDrops
  <1> HIDE DEF f, g, S, T
  <1>7. SumFunctionOnSet(f, S) = SumFunctionOnSet(g, S) /\ SumFunctionOnSet(f, S) \in Int
    <2>1. SumFunctionOnSet(f, S) = SumFunctionOnSet(g, S)
      BY <1>4, <1>5, SumSame
    <2> QED
      BY <1>4, <1>5, <2>1, SumType
  <1>8. CASE d.asset = c
    <2>1. SumFunctionOnSet(g, S \cup {n}) = SumFunctionOnSet(g, S) + g[n]
      <3>1. \A i \in S \cup {n} : g[i] \in Int
        BY <1>3, <1>5
      <3>2. n \notin S
        BY <1>5
      <3> QED
        BY <1>4, <3>1, <3>2, SumInsert
    <2> QED
      BY <1>5, <1>6, <1>7, <1>8, <2>1 DEF new
  <1>9. CASE d.asset # c
    BY <1>5, <1>6, <1>7, <1>9 DEF new
  <1> QED
    BY <1>8, <1>9

\* A drop that pays lowers its own currency's sum by what it pays.
LEMMA PaidHolds ==
  ASSUME NEW ds \in Seq(DropRecord), NEW i \in DOMAIN ds, NEW d \in DropRecord,
         d.asset = ds[i].asset, NEW c
  PROVE  HeldByDrops([ds EXCEPT ![i] = d], c)
           = HeldByDrops(ds, c)
             + (IF d.asset = c THEN (d.amount - d.paid) - (ds[i].amount - ds[i].paid) ELSE 0)
  <1> DEFINE new == [ds EXCEPT ![i] = d]
             f == [j \in DOMAIN ds |-> ds[j].amount - ds[j].paid]
             g == [j \in DOMAIN new |-> new[j].amount - new[j].paid]
             S == {j \in DOMAIN ds : ds[j].asset = c}
             T == {j \in DOMAIN new : new[j].asset = c}
  <1>1. /\ DOMAIN new = DOMAIN ds /\ new[i] = d /\ \A j \in DOMAIN ds \ {i} : new[j] = ds[j]
    OBVIOUS
  <1>2. IsFiniteSet(DOMAIN ds) /\ \A j \in DOMAIN ds : ds[j].amount - ds[j].paid \in Int
    BY HeldTerms
  <1>3. d.amount - d.paid \in Int
    BY DEF DropRecord
  <1> HIDE DEF new
  <1>4. IsFiniteSet(S)
    BY <1>2, FS_Subset
  <1>5. /\ \A j \in DOMAIN ds : f[j] \in Int /\ g[j] \in Int /\ (j # i => g[j] = f[j])
        /\ g[i] = d.amount - d.paid /\ f[i] = ds[i].amount - ds[i].paid
    BY <1>1, <1>2, <1>3
  <1>6. T = S /\ S \subseteq DOMAIN ds /\ (i \in S <=> d.asset = c)
    BY <1>1
  <1>7. HeldByDrops(ds, c) = SumFunctionOnSet(f, S) /\ HeldByDrops(new, c) = SumFunctionOnSet(g, S)
    BY <1>6 DEF HeldByDrops
  <1> HIDE DEF f, g, S, T
  <1>8. CASE d.asset = c
    <2>1. SumFunctionOnSet(g, S) = SumFunctionOnSet(f, S) + (g[i] - f[i])
      <3>1. (\A j \in S : f[j] \in Int /\ g[j] \in Int) /\ i \in S
        BY <1>5, <1>6, <1>8
      <3>2. \A j \in S \ {i} : f[j] = g[j]
        BY <1>5, <1>6
      <3> QED
        BY <1>4, <3>1, <3>2, SumChange
    <2> QED
      BY <1>5, <1>7, <1>8, <2>1 DEF new
  <1>9. CASE d.asset # c
    <2>1. SumFunctionOnSet(f, S) = SumFunctionOnSet(g, S)
      BY <1>4, <1>5, <1>6, <1>9, SumSame
    <2>2. SumFunctionOnSet(f, S) \in Int
      BY <1>4, <1>5, <1>6, SumType
    <2> QED
      BY <1>7, <1>9, <2>1, <2>2 DEF new
  <1> QED
    BY <1>8, <1>9

-----------------------------------------------------------------------------
(* The box owes what its drops hold.                                         *)

\* The property, by what the drops of a currency hold together.
LEMMA OwedParts ==
  BoxOwesWhatDropsHold <=>
    \A c \in Currencies : owedOf[c] = HeldByDrops(drops, c) /\ (c \notin Rebasing => owedOf[c] <= boxHeld[c])
  BY DEF BoxOwesWhatDropsHold, HeldByDrops, Remaining, DropIds

\* A drop is owed in full and stays within what arrived above what was owed before.
LEMMA RecordDropOwes ==
  ASSUME DropsOK, SharesInvariant, BoxOwesWhatDropsHold,
         NEW c \in Currencies, NEW amount \in Nat, RecordDrop(c, amount),
         NEW held \in Int, boxHeld' = [boxHeld EXCEPT ![c] = held],
         c \notin Rebasing => owedOf[c] + amount <= held
  PROVE  BoxOwesWhatDropsHold'
  <1> DEFINE supply == EarningSupplyAt(block - 1)
             d == [asset |-> c, snapshotBlock |-> block - 1, amount |-> amount,
                   earningSupply |-> supply, paid |-> 0]
  <1>1. supply \in Nat \ {0}
    BY LastBlockReads DEF RecordDrop
  <1>2. block - 1 \in Blocks
    BY BlocksType DEF SharesInvariant, ClockOK, Blocks
  <1>3. d \in DropRecord /\ d.asset = c /\ d.amount - d.paid = amount
    BY <1>1, <1>2 DEF DropRecord
  <1>4. /\ drops' = Append(drops, d) /\ drops \in Seq(DropRecord)
        /\ owedOf' = [owedOf EXCEPT ![c] = @ + amount]
        /\ owedOf \in [Currencies -> Int] /\ boxHeld \in [Currencies -> Int]
    BY DEF RecordDrop, DropsOK
  <1> HIDE DEF d, supply
  <1>5. ASSUME NEW e \in Currencies
        PROVE  owedOf'[e] = HeldByDrops(drops', e) /\ (e \notin Rebasing => owedOf'[e] <= boxHeld'[e])
    <2>1. HeldByDrops(drops', e) = HeldByDrops(drops, e) + (IF d.asset = e THEN d.amount - d.paid ELSE 0)
      BY <1>3, <1>4, AppendedHolds
    <2>2. owedOf[e] = HeldByDrops(drops, e) /\ (e \notin Rebasing => owedOf[e] <= boxHeld[e])
      BY OwedParts
    <2>3. CASE e = c
      BY <1>3, <1>4, <2>1, <2>2, <2>3
    <2>4. CASE e # c
      BY <1>3, <1>4, <2>1, <2>2, <2>4
    <2> QED
      BY <2>3, <2>4
  <1> QED
    BY <1>5 DEF BoxOwesWhatDropsHold, HeldByDrops, Remaining, DropIds

\* A claim takes the same from the drop, from what is owed and from the box.
LEMMA ClaimDropOwes ==
  ASSUME SharesInvariant, DropsOK, BoxOwesWhatDropsHold,
         NEW holder \in Accounts, NEW i \in DropIds, ClaimDrop(holder, i)
  PROVE  BoxOwesWhatDropsHold'
  <1> DEFINE due == Owed(drops[i], holder)
             asset == drops[i].asset
             new == [drops[i] EXCEPT !.paid = drops[i].paid + due]
  <1>1. due \in Nat
    BY OwedType
  <1>2. /\ drops \in Seq(DropRecord) /\ drops[i] \in DropRecord /\ i \in DOMAIN drops
        /\ owedOf \in [Currencies -> Int] /\ boxHeld \in [Currencies -> Int]
    BY DEF DropsOK, DropIds
  <1>3. drops[i].paid \in Nat /\ asset \in Currencies /\ drops[i].amount \in Nat
    BY <1>2 DEF DropRecord
  <1>4. /\ drops' = [drops EXCEPT ![i] = new]
        /\ owedOf' = [owedOf EXCEPT ![asset] = @ - due]
        /\ boxHeld' = [boxHeld EXCEPT ![asset] = @ - due]
    BY DEF ClaimDrop
  <1>5. /\ new \in DropRecord /\ new.asset = asset
        /\ (new.amount - new.paid) - (drops[i].amount - drops[i].paid) = 0 - due
    <2>1. drops[i].paid + due \in Nat
      BY <1>1, <1>3
    <2>2. /\ new \in DropRecord /\ new.paid = drops[i].paid + due /\ new.amount = drops[i].amount
      BY <2>1, <1>2, PaidMore
    <2>3. new.asset = asset
      BY <1>2 DEF DropRecord
    <2> HIDE DEF due, new
    <2> QED
      BY <1>1, <1>3, <2>2, <2>3
  <1> HIDE DEF due, new, asset
  <1>6. ASSUME NEW e \in Currencies
        PROVE  owedOf'[e] = HeldByDrops(drops', e) /\ (e \notin Rebasing => owedOf'[e] <= boxHeld'[e])
    <2>1. HeldByDrops(drops', e)
            = HeldByDrops(drops, e)
              + (IF new.asset = e THEN (new.amount - new.paid) - (drops[i].amount - drops[i].paid) ELSE 0)
      <3>1. new \in DropRecord /\ new.asset = drops[i].asset
        BY <1>5 DEF asset
      <3>2. HeldByDrops([drops EXCEPT ![i] = new], e)
            = HeldByDrops(drops, e)
              + (IF new.asset = e THEN (new.amount - new.paid) - (drops[i].amount - drops[i].paid) ELSE 0)
        <4>1. drops \in Seq(DropRecord) /\ i \in DOMAIN drops
          BY <1>2
        <4>2. ASSUME NEW d \in DropRecord, d.asset = drops[i].asset
              PROVE  HeldByDrops([drops EXCEPT ![i] = d], e)
                       = HeldByDrops(drops, e)
                         + (IF d.asset = e THEN (d.amount - d.paid) - (drops[i].amount - drops[i].paid) ELSE 0)
          BY <4>1, <4>2, PaidHolds
        <4> QED
          BY <3>1, <4>2
      <3> QED
        BY <1>4, <3>2
    <2>2. owedOf[e] = HeldByDrops(drops, e) /\ (e \notin Rebasing => owedOf[e] <= boxHeld[e])
      BY OwedParts
    <2>3. CASE e = asset
      BY <1>1, <1>2, <1>3, <1>4, <1>5, <2>1, <2>2, <2>3
    <2>4. CASE e # asset
      BY <1>1, <1>2, <1>3, <1>4, <1>5, <2>1, <2>2, <2>4
    <2> QED
      BY <2>3, <2>4
  <1> QED
    BY <1>6 DEF BoxOwesWhatDropsHold, HeldByDrops, Remaining, DropIds

\* A step that leaves drops and totals alone keeps it if what the box holds stays
\* enough.
LEMMA UntouchedOwes ==
  ASSUME BoxOwesWhatDropsHold, UNCHANGED <<drops, owedOf>>,
         \A c \in Currencies \ Rebasing : owedOf[c] <= boxHeld[c] => owedOf[c] <= boxHeld'[c]
  PROVE  BoxOwesWhatDropsHold'
  BY DEF BoxOwesWhatDropsHold, Remaining, DropIds

\* No call of the box separates what it owes from what its drops hold.
LEMMA BoxKeepsOwing ==
  ASSUME SharesInvariant, DropsOK, BoxOwesWhatDropsHold, Box
  PROVE  BoxOwesWhatDropsHold'
  <1>1. owedOf \in [Currencies -> Int] /\ boxHeld \in [Currencies -> Int] /\ Amounts \subseteq Nat
    BY AmountsAssumption DEF DropsOK
  <1>2. ASSUME NEW c \in Currencies, NEW n \in Amounts, Drop(c, n)
        PROVE  BoxOwesWhatDropsHold'
    <2> DEFINE held == boxHeld[c] + n
    <2>1. /\ n \in Nat /\ RecordDrop(c, n) /\ held \in Int
          /\ boxHeld' = [boxHeld EXCEPT ![c] = held]
      BY <1>1, <1>2 DEF Drop
    <2>2. c \notin Rebasing => owedOf[c] + n <= held
      <3>1. c \notin Rebasing => owedOf[c] <= boxHeld[c]
        BY OwedParts
      <3> QED
        BY <1>1, <2>1, <3>1
    <2> HIDE DEF held
    <2> QED
      BY <2>1, <2>2, RecordDropOwes
  <1>3. ASSUME NEW c \in Currencies, NEW n \in Nat, DropStray(c, n)
        PROVE  BoxOwesWhatDropsHold'
    <2> DEFINE held == boxHeld[c] + n
               stray == held - owedOf[c]
    <2>1. /\ held > owedOf[c] /\ RecordDrop(c, stray) /\ boxHeld' = [boxHeld EXCEPT ![c] = held]
      BY <1>3 DEF DropStray
    <2>2. held \in Int /\ stray \in Nat /\ owedOf[c] + stray <= held
      BY <1>1, <2>1
    <2> HIDE DEF held, stray
    <2> QED
      BY <2>1, <2>2, RecordDropOwes
  <1>4. ASSUME NEW c \in Currencies, NEW n \in Amounts, ArriveAtBox(c, n)
        PROVE  BoxOwesWhatDropsHold'
    BY <1>1, <1>4, UntouchedOwes DEF ArriveAtBox
  <1>5. ASSUME NEW c \in Currencies, NEW n \in Amounts, ShrinkAtBox(c, n)
        PROVE  BoxOwesWhatDropsHold'
    BY <1>1, <1>5, UntouchedOwes DEF ShrinkAtBox
  <1>6. CASE \E h \in Accounts, i \in DropIds : ClaimDrop(h, i)
    BY <1>6, ClaimDropOwes
  <1>7. CASE \E c \in Currencies : DropStray(c, 0)
    BY <1>7, <1>3
  <1>8. CASE \E c \in Currencies, n \in Amounts :
               Drop(c, n) \/ DropTokenStray(c, n) \/ ArriveAtBox(c, n) \/ ShrinkAtBox(c, n)
    BY <1>1, <1>2, <1>3, <1>4, <1>5, <1>8 DEF DropTokenStray
  <1> QED
    BY <1>6, <1>7, <1>8 DEF Box

\* Every step keeps it.
LEMMA StepKeepsOwing ==
  ASSUME SharesInvariant, DropsOK, BoxOwesWhatDropsHold, [Next]_vars
  PROVE  BoxOwesWhatDropsHold'
  <1>1. UNCHANGED boxVars => BoxOwesWhatDropsHold'
    BY UntouchedOwes DEF boxVars
  <1>2. CASE Box
    BY <1>2, BoxKeepsOwing
  <1>3. CASE ~Box
    <2>1. UNCHANGED boxVars
      BY <1>3, Zenon DEF Next, Shares, Income, Seal, Transfer, vars
    <2> QED
      BY <1>1, <2>1
  <1> QED
    BY <1>2, <1>3

\* Nothing is owed at the start.
LEMMA OwingStart == Init => BoxOwesWhatDropsHold
  <1> SUFFICES ASSUME Init PROVE BoxOwesWhatDropsHold
    OBVIOUS
  <1>1. /\ drops = <<>> /\ owedOf = [c \in Currencies |-> 0] /\ boxHeld = [c \in Currencies |-> 0]
    BY DEF Init, DropBoxInit
  <1>2. ASSUME NEW c \in Currencies
        PROVE  HeldByDrops(drops, c) = 0
    <2>1. {i \in DOMAIN drops : drops[i].asset = c} = {}
      BY <1>1
    <2> QED
      BY <2>1, SumEmpty DEF HeldByDrops
  <1> QED
    BY <1>1, <1>2, OwedParts

\* After any drops, strays, rebases and claims, the box's running total of a currency is
\* the sum of what its drops still hold, and of a currency that does not shrink by itself
\* it has that much (HookrDropBox._record, _claim and _owedOf): no drop is paid out of
\* another's currency, and what strays in is never counted twice.
THEOREM BoxCoversItsDrops == Spec => []BoxOwesWhatDropsHold
  <1>1. Init => SharesInvariant /\ DropsOK /\ BoxOwesWhatDropsHold
    BY SharesStart, DropsStart, OwingStart DEF Init
  <1>2. SharesInvariant /\ DropsOK /\ BoxOwesWhatDropsHold /\ [Next]_vars =>
          SharesInvariant' /\ DropsOK' /\ BoxOwesWhatDropsHold'
    BY StepKeeps, StepKeepsDrops, StepKeepsOwing
  <1> QED
    BY <1>1, <1>2, PTL DEF Spec

-----------------------------------------------------------------------------
(* The search of the archive.                                                *)

\* The recursion the search unfolds to.
SearchEquation(archive, b, g) ==
  g = [range \in (0..Len(archive)) \X (0..Len(archive)) |->
         LET low == range[1]
             high == range[2]
             mid == (low + high) \div 2
         IN  IF low >= high THEN low
             ELSE IF archive[mid + 1].key > b THEN g[<<low, mid>>]
             ELSE g[<<mid + 1, high>>]]

\* The search is a solution of the recursion, read between the two ends of the archive.
LEMMA SearchUnfolds ==
  ASSUME NEW archive, NEW b
  PROVE  BinarySearch(archive, b) = (CHOOSE g : SearchEquation(archive, b, g))[<<0, Len(archive)>>]
  BY Zenon DEF BinarySearch, SearchEquation

\* Where the first c checkpoints are the ones at or before a block, a search between low
\* and high ends at c, or at the end nearer to it.
Nearest(c, low, high) ==
  IF low >= high \/ c < low THEN low ELSE IF c > high THEN high ELSE c

\* The middle lies between two ends.
LEMMA MiddleBetween ==
  ASSUME NEW low \in Nat, NEW high \in Nat, low < high
  PROVE  LET mid == (low + high) \div 2 IN mid \in Nat /\ low <= mid /\ mid < high
  OBVIOUS

\* One step of the search keeps where it ends.
LEMMA SearchStep ==
  ASSUME NEW c \in Nat, NEW low \in Nat, NEW high \in Nat, NEW mid \in Nat, low <= mid, mid < high
  PROVE  Nearest(c, low, high)
           = IF mid + 1 > c THEN Nearest(c, low, mid) ELSE Nearest(c, mid + 1, high)
  BY DEF Nearest

\* c checkpoints, the first ones, are at or before a block.
Splits(archive, b, c) ==
  c \in 0..Len(archive) /\ \A i \in 1..Len(archive) : archive[i].key > b <=> i > c

\* So where each search ends solves the recursion.
LEMMA SearchSolved ==
  ASSUME NEW archive, Len(archive) \in Nat, NEW b, NEW c, Splits(archive, b, c)
  PROVE  \E g : SearchEquation(archive, b, g)
  <1> DEFINE n == Len(archive)
             g == [range \in (0..n) \X (0..n) |-> Nearest(c, range[1], range[2])]
  <1>1. ASSUME NEW range \in (0..n) \X (0..n)
        PROVE  g[range] =
                 LET low == range[1]
                     high == range[2]
                     mid == (low + high) \div 2
                 IN  IF low >= high THEN low
                     ELSE IF archive[mid + 1].key > b THEN g[<<low, mid>>]
                     ELSE g[<<mid + 1, high>>]
    <2>1. PICK low \in 0..n, high \in 0..n : range = <<low, high>>
      OBVIOUS
    <2> DEFINE mid == (low + high) \div 2
    <2>2. \A l, h \in 0..n : g[<<l, h>>] = Nearest(c, l, h)
      OBVIOUS
    <2>3. CASE low >= high
      <3>1. g[range] = low
        BY <2>1, <2>2, <2>3 DEF Nearest
      <3> QED
        BY <2>1, <2>3, <3>1
    <2>4. CASE low < high
      <3>1. /\ n \in Nat /\ c \in 0..n
            /\ \A i \in 1..n : archive[i].key > b <=> i > c
        BY DEF Splits
      <3> HIDE DEF g, n
      <3>2. mid \in Nat /\ low <= mid /\ mid < high
        BY <2>4, <3>1, MiddleBetween
      <3> HIDE DEF mid
      <3>3. mid \in 0..n /\ mid + 1 \in 1..n /\ mid + 1 \in 0..n
        BY <3>1, <3>2
      <3>4. Nearest(c, low, high) = IF mid + 1 > c THEN Nearest(c, low, mid) ELSE Nearest(c, mid + 1, high)
        <4>1. c \in Nat /\ low \in Nat /\ high \in Nat
          BY <3>1
        <4> QED
          BY <3>2, <4>1, SearchStep
      <3>5. ~(low >= high)
        BY <2>4, <3>1
      <3>6. g[range] = IF archive[mid + 1].key > b THEN g[<<low, mid>>] ELSE g[<<mid + 1, high>>]
        BY <2>1, <2>2, <3>1, <3>3, <3>4
      <3>7. range[1] = low /\ range[2] = high
        BY <2>1
      <3> QED
        BY <3>5, <3>6, <3>7, Zenon DEF mid
    <2>5. low >= high \/ low < high
      OBVIOUS
    <2> QED
      BY <2>3, <2>4, <2>5
  <1>2. SearchEquation(archive, b, g)
    <2>1. g = [range \in (0..n) \X (0..n) |-> g[range]]
      OBVIOUS
    <2> HIDE DEF g
    <2> QED
      BY <1>1, <2>1 DEF SearchEquation
  <1> QED
    BY <1>2

\* And every solution ends there.
LEMMA SearchEnds ==
  ASSUME NEW archive, Len(archive) \in Nat, NEW b, NEW c, Splits(archive, b, c),
         NEW g, SearchEquation(archive, b, g)
  PROVE  g[<<0, Len(archive)>>] = c
  <1> DEFINE n == Len(archive)
             Bad == {d \in Nat : \E low, high \in 0..n : high - low = d /\ g[<<low, high>>] # Nearest(c, low, high)}
  <1>1. /\ n \in Nat /\ c \in 0..n
        /\ \A i \in 1..n : archive[i].key > b <=> i > c
    BY DEF Splits
  <1>2. ASSUME NEW low \in 0..n, NEW high \in 0..n
        PROVE  LET mid == (low + high) \div 2
               IN g[<<low, high>>] =
                    IF low >= high THEN low
                    ELSE IF archive[mid + 1].key > b THEN g[<<low, mid>>]
                    ELSE g[<<mid + 1, high>>]
    BY DEF SearchEquation
  <1>3. Bad = {}
    <2> SUFFICES ASSUME Bad # {}
                 PROVE  FALSE
      OBVIOUS
    <2>1. PICK d \in Bad : \A e \in Bad : ~(<<e, d>> \in OpToRel(<, Nat))
      <3>1. Bad \subseteq Nat
        OBVIOUS
      <3> HIDE DEF Bad
      <3> QED
        BY <3>1, NatLessThanWellFounded, WFMin
    <2>2. d \in Nat /\ \A e \in Bad : ~(e < d)
      BY <2>1 DEF OpToRel
    <2>3. PICK low \in 0..n, high \in 0..n : high - low = d /\ g[<<low, high>>] # Nearest(c, low, high)
      BY <2>1
    <2>4. \A l, h \in 0..n : h - l \in Nat /\ h - l < d => g[<<l, h>>] = Nearest(c, l, h)
      BY <2>2
    <2> HIDE DEF Bad
    <2> DEFINE mid == (low + high) \div 2
    <2>5. CASE low >= high
      <3>1. g[<<low, high>>] = low
        BY <1>2, <2>5
      <3> QED
        BY <2>3, <2>5, <3>1 DEF Nearest
    <2>6. CASE low < high
      <3>1. mid \in Nat /\ low <= mid /\ mid < high
        BY <1>1, <2>6, MiddleBetween
      <3>2. ~(low >= high)
        BY <2>6, <1>1
      <3>3. g[<<low, high>>] = IF archive[mid + 1].key > b THEN g[<<low, mid>>] ELSE g[<<mid + 1, high>>]
        BY <1>2, <3>2
      <3> HIDE DEF mid, n
      <3>4. /\ mid \in 0..n /\ mid + 1 \in 1..n /\ mid + 1 \in 0..n
            /\ mid - low \in Nat /\ mid - low < high - low
            /\ high - (mid + 1) \in Nat /\ high - (mid + 1) < high - low
        BY <1>1, <3>1
      <3>5. Nearest(c, low, high) = IF mid + 1 > c THEN Nearest(c, low, mid) ELSE Nearest(c, mid + 1, high)
        <4>1. c \in Nat /\ low \in Nat /\ high \in Nat
          BY <1>1
        <4> QED
          BY <3>1, <4>1, SearchStep
      <3>6. g[<<low, mid>>] = Nearest(c, low, mid) /\ g[<<mid + 1, high>>] = Nearest(c, mid + 1, high)
        BY <2>3, <2>4, <3>4
      <3> QED
        BY <1>1, <2>3, <3>4, <3>3, <3>6, <3>5
    <2> QED
      BY <1>1, <2>5, <2>6
  <1>4. 0 \in 0..n /\ n \in 0..n /\ n - 0 \in Nat
    BY <1>1
  <1>5. g[<<0, n>>] = Nearest(c, 0, n)
    BY <1>3, <1>4
  <1> HIDE DEF Bad
  <1>6. Nearest(c, 0, n) = c
    BY <1>1 DEF Nearest
  <1> QED
    BY <1>5, <1>6

\* The archive's blocks increase, and lie before the two slots'.
ArchiveOK(h) ==
  /\ \A i, j \in DOMAIN h.archive : i < j => h.archive[i].key < h.archive[j].key
  /\ \A i \in DOMAIN h.archive : h.archive[i].key < Predecessor(h).key

\* An archive whose blocks increase is split by every block, and the last checkpoint at or
\* before it is the one that is read.
LEMMA ArchiveSplits ==
  ASSUME NEW archive \in Seq(Checkpoint), NEW b \in Nat,
         \A i, j \in DOMAIN archive : i < j => archive[i].key < archive[j].key
  PROVE  \E c \in 0..Len(archive) :
           /\ Splits(archive, b, c)
           /\ Archived(archive, b) = IF c = 0 THEN 0 ELSE archive[c].value
  <1> DEFINE n == Len(archive)
             found == AtOrBefore(archive, b)
  <1>1. n \in Nat /\ DOMAIN archive = 1..n /\ \A i \in 1..n : archive[i].key \in Nat
    <2>1. n \in Nat /\ DOMAIN archive = 1..n /\ \A i \in 1..n : archive[i] \in Checkpoint
      OBVIOUS
    <2> QED
      BY <2>1, BlocksType DEF Checkpoint
  <1>2. found \subseteq 1..n /\ IsFiniteSet(found) /\ \A i \in 1..n : i \in found <=> archive[i].key <= b
    <2>1. found \subseteq 1..n /\ \A i \in 1..n : i \in found <=> archive[i].key <= b
      BY <1>1 DEF AtOrBefore
    <2>2. IsFiniteSet(1..n)
      BY <1>1, FS_Interval
    <2> HIDE DEF found, n
    <2> QED
      BY <2>1, <2>2, FS_Subset
  <1>3. CASE found = {}
    <2>1. Splits(archive, b, 0)
      BY <1>1, <1>2, <1>3 DEF Splits
    <2>2. Archived(archive, b) = 0
      BY <1>3 DEF Archived
    <2> QED
      BY <1>1, <2>1, <2>2
  <1>4. CASE found # {}
    <2>1. PICK c \in found : \A i \in found : c >= i
      <3>1. \A i \in found : i \in Int
        BY <1>1, <1>2
      <3> HIDE DEF found
      <3> QED
        BY <1>2, <1>4, <3>1, FiniteMaximum
    <2>2. c \in 1..n /\ c # 0 /\ archive[c].key <= b
      BY <1>1, <1>2, <2>1
    <2>3. \A i \in 1..n : archive[i].key > b <=> i > c
      <3> SUFFICES ASSUME NEW i \in 1..n
                   PROVE  archive[i].key > b <=> i > c
        OBVIOUS
      <3>1. archive[i].key \in Nat /\ archive[c].key \in Nat
        BY <1>1, <2>2
      <3>2. i > c => archive[i].key > b
        <4>1. i > c => i \notin found
          BY <1>1, <2>1, <2>2
        <4> QED
          BY <1>2, <3>1, <4>1
      <3>3. i < c => archive[i].key < archive[c].key
        BY <1>1, <2>2
      <3> QED
        BY <1>1, <2>2, <3>1, <3>2, <3>3
    <2>4. Splits(archive, b, c)
      BY <2>2, <2>3 DEF Splits
    <2>5. Answers(archive, b, archive[c].value)
      <3>1. \A i \in found : i <= c
        BY <1>1, <1>2, <2>1
      <3> QED
        BY <2>1, <3>1 DEF Answers
    <2>6. Archived(archive, b) = archive[c].value
      BY <2>5, AnswerIsRead
    <2> QED
      BY <2>2, <2>4, <2>6
  <1> QED
    BY <1>3, <1>4

\* The search of _valueAt finds what is read off such an archive.
LEMMA SearchFinds ==
  ASSUME NEW h \in History, ArchiveOK(h), NEW b \in Nat
  PROVE  SearchedAt(h, b) = ValueAt(h, b)
  <1>1. h.archive \in Seq(Checkpoint) /\ Len(h.archive) \in Nat
    BY RingType
  <1>2. PICK c \in 0..Len(h.archive) :
          /\ Splits(h.archive, b, c)
          /\ Archived(h.archive, b) = IF c = 0 THEN 0 ELSE h.archive[c].value
    <2>1. \A i, j \in DOMAIN h.archive : i < j => h.archive[i].key < h.archive[j].key
      BY DEF ArchiveOK
    <2>2. \A archive \in Seq(Checkpoint) :
            (\A i, j \in DOMAIN archive : i < j => archive[i].key < archive[j].key) =>
               \E c \in 0..Len(archive) :
                 /\ Splits(archive, b, c)
                 /\ Archived(archive, b) = IF c = 0 THEN 0 ELSE archive[c].value
      BY ArchiveSplits
    <2> QED
      BY <1>1, <2>1, <2>2
  <1> DEFINE g == CHOOSE g : SearchEquation(h.archive, b, g)
  <1>3. SearchEquation(h.archive, b, g)
    <2>1. \E f : SearchEquation(h.archive, b, f)
      BY <1>1, <1>2, SearchSolved
    <2> QED
      BY <2>1
  <1>4. BinarySearch(h.archive, b) = g[<<0, Len(h.archive)>>]
    BY SearchUnfolds, Zenon
  <1> HIDE DEF g
  <1>5. BinarySearch(h.archive, b) = c
    BY <1>1, <1>2, <1>3, <1>4, SearchEnds
  <1> QED
    BY <1>2, <1>5 DEF SearchedAt, ValueAt

-----------------------------------------------------------------------------
(* Checkpoints keep the archives in order.                                   *)

\* Every archive of the shares.
ArchivesOK == (\A a \in Earners : ArchiveOK(accounts[a])) /\ ArchiveOK(earning)

\* A write leaves the archive in order: what it adds lies between the last of it and the
\* checkpoint that becomes the predecessor.
LEMMA WriteKeepsArchive ==
  ASSUME ClockOK, NEW h \in History, RingOK(h, block), NEW value \in Nat, ArchiveOK(h)
  PROVE  ArchiveOK(Write(h, value))
  <1> DEFINE cur == Current(h)
             prev == Predecessor(h)
             new == Write(h, value)
  <1>1. block \in Nat /\ cur.key \in Nat /\ prev.key \in Nat /\ prev \in Slot /\ h.archive \in Seq(Checkpoint)
    BY BlocksType, RingType DEF ClockOK
  <1>2. CASE cur.key = block
    <2>1. Predecessor(new) = prev /\ new.archive = h.archive
      BY <1>2, WriteInBlock
    <2> QED
      BY <2>1 DEF ArchiveOK
  <1>3. CASE cur.key = 0
    <2>1. Predecessor(new) = prev /\ new.archive = h.archive
      BY <1>3, WriteFirst
    <2> QED
      BY <2>1 DEF ArchiveOK
  <1>4. CASE cur.key # 0 /\ cur.key # block
    <2>1. cur.key < block /\ prev.key < cur.key
      BY <1>1, <1>4 DEF RingOK
    <2>2. Predecessor(new) = cur /\ new.archive = Archive(h)
      BY <1>4, <2>1, WriteLater
    <2> DEFINE moved == [key |-> prev.key, value |-> prev.value]
               n == Len(h.archive)
    <2>3. Archive(h) = h.archive \/ Archive(h) = Append(h.archive, moved)
      BY DEF Archive
    <2>4. /\ n \in Nat /\ DOMAIN h.archive = 1..n /\ moved \in Checkpoint /\ moved.key = prev.key
          /\ \A i \in 1..n : h.archive[i] \in Checkpoint
      <3>1. n \in Nat /\ DOMAIN h.archive = 1..n /\ \A i \in 1..n : h.archive[i] \in Checkpoint
        BY <1>1
      <3>2. moved \in Checkpoint
        BY <1>1 DEF Checkpoint, Slot
      <3> QED
        BY <3>1, <3>2
    <2>5. \A i \in 1..n : h.archive[i].key \in Nat
      BY <2>4, BlocksType DEF Checkpoint
    <2>6. /\ \A i, j \in 1..n : i < j => h.archive[i].key < h.archive[j].key
          /\ \A i \in 1..n : h.archive[i].key < prev.key
      BY <2>4 DEF ArchiveOK
    <2>7. CASE Archive(h) = h.archive
      <3>1. \A i \in 1..n : h.archive[i].key < cur.key
        BY <1>1, <2>1, <2>5, <2>6
      <3> QED
        BY <2>2, <2>4, <2>6, <2>7, <3>1 DEF ArchiveOK
    <2>8. CASE Archive(h) = Append(h.archive, moved)
      <3> DEFINE longer == Append(h.archive, moved)
      <3>1. /\ DOMAIN longer = 1..(n + 1) /\ longer[n + 1] = moved
            /\ \A i \in 1..n : longer[i] = h.archive[i]
        BY <1>1, <2>4
      <3> HIDE DEF longer, moved, n, cur, prev
      <3>2. ASSUME NEW i \in 1..(n + 1), NEW j \in 1..(n + 1), i < j
            PROVE  longer[i].key < longer[j].key
        <4>1. i \in 1..n
          BY <2>4, <3>2
        <4>2. j \in 1..n \/ j = n + 1
          BY <2>4
        <4> QED
          BY <2>4, <2>6, <3>1, <3>2, <4>1, <4>2
      <3>3. ASSUME NEW i \in 1..(n + 1)
            PROVE  longer[i].key < cur.key
        <4>1. i \in 1..n \/ i = n + 1
          BY <2>4
        <4> QED
          BY <1>1, <2>1, <2>4, <2>5, <2>6, <3>1, <4>1
      <3>4. new.archive = longer /\ Predecessor(new) = cur
        BY <2>2, <2>8 DEF longer
      <3>5. (\A i, j \in DOMAIN longer : i < j => longer[i].key < longer[j].key)
            /\ \A i \in DOMAIN longer : longer[i].key < cur.key
        BY <3>1, <3>2, <3>3
      <3> HIDE DEF new
      <3> QED
        BY <3>4, <3>5 DEF ArchiveOK, new
    <2> QED
      BY <2>3, <2>7, <2>8
  <1> QED
    BY <1>2, <1>3, <1>4

\* Checkpointing balances keeps every archive in order.
LEMMA SetBalancesKeepsArchives ==
  ASSUME SharesInvariant, ArchivesOK, NEW new \in [Accounts -> Nat], NEW touched, SetBalances(new, touched),
         NEW a \in Earners
  PROVE  ArchiveOK(accounts'[a])
  <1>1. a \in Accounts /\ Earns(a)
    BY DEF Earners, Earns
  <1>2. ClockOK /\ accounts[a] \in History /\ RingOK(accounts[a], block) /\ ArchiveOK(accounts[a])
    BY DEF SharesInvariant, HistoriesOK, HistoryOK, ArchivesOK
  <1>3. new[a] \in Nat /\ ArchiveOK(Write(accounts[a], new[a]))
    BY <1>1, <1>2, WriteKeepsArchive
  <1>4. accounts'[a] = IF a \in touched THEN Write(accounts[a], new[a]) ELSE accounts[a]
    BY <1>1 DEF SetBalances
  <1> QED
    BY <1>2, <1>3, <1>4

\* So does checkpointing the earning supply.
LEMMA SetEarningKeepsArchive ==
  ASSUME SharesInvariant, ArchivesOK, NEW value \in Nat, SetEarning(value)
  PROVE  ArchiveOK(earning')
  <1>1. ClockOK /\ earning \in History /\ RingOK(earning, block) /\ ArchiveOK(earning)
    BY DEF SharesInvariant, HistoriesOK, HistoryOK, ArchivesOK
  <1>2. ArchiveOK(Write(earning, value)) /\ earning' = Write(earning, value)
    BY <1>1, WriteKeepsArchive DEF SetEarning
  <1> QED
    BY <1>2

\* What trades set: the balances, and the earning supply when it changes.
LEMMA TradeSets ==
  ASSUME SharesInvariant, SupplyOK,
         \/ \E amounts \in Allocations : Seal(amounts)
         \/ \E from, to \in Accounts, n \in Parts : Transfer(from, to, n)
  PROVE  \E new \in [Accounts -> Nat], touched \in SUBSET Accounts :
           /\ SetBalances(new, touched) /\ \A a \in Accounts \ touched : new[a] = balance[a]
           /\ UNCHANGED <<earning, wasEarning>> \/ \E value \in Nat : SetEarning(value)
           /\ block' = block
  <1>1. balance \in [Accounts -> Nat] /\ EarningSupply \in Nat
    BY SupplyType DEF SharesInvariant, SharesTypeOK
  <1>2. ASSUME NEW amounts \in Allocations, Seal(amounts)
        PROVE  \E new \in [Accounts -> Nat], touched \in SUBSET Accounts :
                 /\ SetBalances(new, touched) /\ \A a \in Accounts \ touched : new[a] = balance[a]
                 /\ UNCHANGED <<earning, wasEarning>> \/ \E value \in Nat : SetEarning(value)
                 /\ block' = block
    <2> DEFINE touched == {a \in Accounts : amounts[a] > 0}
               earned == SumFunctionOnSet(amounts, Earners)
    <2>1. amounts \in [Accounts -> Nat] /\ earned \in Nat
      BY AllocationAssumption, EarnersFinite, SumNatural
    <2>2. ~live /\ SetBalances(amounts, touched) /\ block' = block
      BY <1>2 DEF Seal, MintAll
    <2>3. \A a \in Accounts \ touched : amounts[a] = balance[a]
      BY <2>1, <2>2 DEF SupplyOK
    <2>4. UNCHANGED <<earning, wasEarning>> \/ SetEarning(earned)
      BY <1>2 DEF Seal, MintAll
    <2> HIDE DEF earned
    <2> QED
      BY <2>1, <2>2, <2>3, <2>4
  <1>3. ASSUME NEW from \in Accounts, NEW to \in Accounts, NEW n \in Parts, Transfer(from, to, n)
        PROVE  \E new \in [Accounts -> Nat], touched \in SUBSET Accounts :
                 /\ SetBalances(new, touched) /\ \A a \in Accounts \ touched : new[a] = balance[a]
                 /\ UNCHANGED <<earning, wasEarning>> \/ \E value \in Nat : SetEarning(value)
                 /\ block' = block
    <2> DEFINE new == [a \in Accounts |->
                         balance[a] - (IF a = from THEN n ELSE 0) + (IF a = to THEN n ELSE 0)]
               supply == IF Earns(to) THEN EarningSupply + n ELSE EarningSupply - n
    <2>1. n \in Nat /\ n <= balance[from]
      BY <1>1, <1>3 DEF Transfer, Move
    <2>2. new \in [Accounts -> Nat] /\ \A a \in Accounts \ {from, to} : new[a] = balance[a]
      BY <1>1, <2>1
    <2>3. SetBalances(new, {from, to}) /\ block' = block
      BY <1>3 DEF Transfer, Move
    <2>4. UNCHANGED <<earning, wasEarning>> \/ (Earns(from) # Earns(to) /\ SetEarning(supply))
      BY <1>3 DEF Transfer, Move
    <2>5. Earns(from) # Earns(to) => supply \in Nat
      <3>1. Earns(from) /\ ~Earns(to) => n <= EarningSupply
        BY <1>3 DEF Transfer, Move
      <3>2. Earns(from) # Earns(to) /\ ~Earns(to) => Earns(from)
        BY DEF Earns
      <3> QED
        BY <1>1, <2>1, <3>1, <3>2
    <2> HIDE DEF new, supply
    <2> QED
      BY <2>2, <2>3, <2>4, <2>5
  <1> QED
    BY <1>2, <1>3

\* Nothing but a trade moves a share or a checkpoint.
LEMMA OtherStepsKeepShares ==
  ASSUME [Next]_vars,
         ~ \/ \E amounts \in Allocations : Seal(amounts)
           \/ \E from, to \in Accounts, n \in Parts : Transfer(from, to, n)
  PROVE  /\ UNCHANGED <<live, balance, accounts, earning, was, wasEarning>>
         /\ block' = block \/ (NextBlock /\ block' = block + 1 /\ UNCHANGED boxVars)
  <1>1. CASE NextBlock /\ UNCHANGED <<boxVars, incomeVars>>
    BY <1>1 DEF NextBlock
  <1>2. CASE Box
    BY <1>2, BoxSteps DEF RecordSnapshot, sharesVars
  <1>3. CASE Income
    BY <1>3, IncomeSteps DEF sharesVars
  <1>4. CASE UNCHANGED vars
    BY <1>4 DEF vars, sharesVars
  <1> QED
    BY <1>1, <1>2, <1>3, <1>4 DEF Next, Shares

\* Every step keeps the archives in order.
LEMMA StepKeepsArchives ==
  ASSUME SharesInvariant, SupplyOK, ArchivesOK, [Next]_vars
  PROVE  ArchivesOK'
  <1>1. CASE \/ \E amounts \in Allocations : Seal(amounts)
             \/ \E from, to \in Accounts, n \in Parts : Transfer(from, to, n)
    <2>1. PICK new \in [Accounts -> Nat], touched \in SUBSET Accounts :
                 /\ SetBalances(new, touched)
                 /\ UNCHANGED <<earning, wasEarning>> \/ \E value \in Nat : SetEarning(value)
      BY <1>1, TradeSets
    <2>2. \A a \in Earners : ArchiveOK(accounts'[a])
      BY <2>1, SetBalancesKeepsArchives
    <2>3. ArchiveOK(earning')
      BY <2>1, SetEarningKeepsArchive DEF ArchivesOK
    <2> QED
      BY <2>2, <2>3 DEF ArchivesOK, ArchiveOK
  <1>2. CASE ~ \/ \E amounts \in Allocations : Seal(amounts)
               \/ \E from, to \in Accounts, n \in Parts : Transfer(from, to, n)
    <2>1. accounts' = accounts /\ earning' = earning
      BY <1>2, OtherStepsKeepShares
    <2> QED
      BY <2>1 DEF ArchivesOK
  <1> QED
    BY <1>1, <1>2

\* New archives are empty.
LEMMA ArchivesStart == Init => ArchivesOK
  <1>1. ArchiveOK(EmptyHistory)
    BY DEF ArchiveOK, EmptyHistory
  <1> QED
    BY <1>1, EarnersFinite DEF Init, SharesInit, ArchivesOK

-----------------------------------------------------------------------------
(* The record of the earning supply is a sum of the record of the balances.  *)

\* The record says of the blocks still to end what is held now, and of every block that the
\* earning supply was what the earners held.
RecordsOK ==
  /\ \A a \in Earners, b \in Blocks : b >= block => was[a][b] = balance[a]
  /\ \A b \in Blocks : wasEarning[b] = SumFunctionOnSet([a \in Earners |-> was[a][b]], Earners)

\* A step changes no record of a block that has ended, and sets that of the blocks to come
\* to what is held.
LEMMA RecordsFollow ==
  ASSUME SharesInvariant, SupplyOK, RecordsOK, [Next]_vars
  PROVE  /\ \A a \in Earners, b \in Blocks : b < block' => was'[a][b] = was[a][b]
         /\ \A b \in Blocks : b < block' => wasEarning'[b] = wasEarning[b]
         /\ \A a \in Earners, b \in Blocks : b >= block' => was'[a][b] = balance'[a]
         /\ block \in Nat /\ block' >= block
  <1>1. block \in Nat /\ Blocks \subseteq Nat
    BY BlocksType DEF SharesInvariant, ClockOK
  <1>2. CASE \/ \E amounts \in Allocations : Seal(amounts)
             \/ \E from, to \in Accounts, n \in Parts : Transfer(from, to, n)
    <2>1. PICK new \in [Accounts -> Nat], touched \in SUBSET Accounts :
                 /\ SetBalances(new, touched) /\ \A a \in Accounts \ touched : new[a] = balance[a]
                 /\ UNCHANGED <<earning, wasEarning>> \/ \E value \in Nat : SetEarning(value)
                 /\ block' = block
      BY <1>2, TradeSets
    <2>2. ASSUME NEW a \in Earners
          PROVE  was'[a] = (IF a \in touched THEN From(was[a], new[a]) ELSE was[a]) /\ balance'[a] = new[a]
                 /\ a \in Accounts
      BY <2>1 DEF SetBalances, Earners
    <2>3. ASSUME NEW a \in Earners, NEW b \in Blocks, b < block
          PROVE  was'[a][b] = was[a][b]
      BY <2>2, <2>3 DEF From
    <2>4. ASSUME NEW a \in Earners, NEW b \in Blocks, b >= block
          PROVE  was'[a][b] = balance'[a]
      <3>1. ~(b < block)
        BY <1>1, <2>4
      <3> QED
        BY <2>1, <2>2, <2>4, <3>1 DEF From, RecordsOK
    <2>5. ASSUME NEW b \in Blocks, b < block
          PROVE  wasEarning'[b] = wasEarning[b]
      BY <2>1, <2>5 DEF SetEarning, From
    <2>6. block' = block
      BY <2>1
    <2> QED
      BY <1>1, <2>3, <2>4, <2>5, <2>6
  <1>3. CASE ~ \/ \E amounts \in Allocations : Seal(amounts)
               \/ \E from, to \in Accounts, n \in Parts : Transfer(from, to, n)
    <2>1. /\ was' = was /\ wasEarning' = wasEarning /\ balance' = balance
          /\ block' = block \/ block' = block + 1
      BY <1>3, OtherStepsKeepShares
    <2>2. \A b \in Blocks : b >= block' => b >= block
      BY <1>1, <2>1
    <2> QED
      BY <1>1, <2>1, <2>2 DEF RecordsOK
  <1> QED
    BY <1>2, <1>3

\* What a history says now is recorded for the blocks to come.
LEMMA CurrentIsRecorded ==
  ASSUME NEW h, NEW record, NEW top \in Nat, NEW snapshots, HistoryOK(h, record, top, snapshots),
         NEW b \in Blocks, b >= top
  PROVE  record[b] = Current(h).value
  <1>1. Current(h).key <= top /\ Current(h).key \in Nat /\ AgreesWith(h, record, snapshots) /\ b \in Nat
    BY RingType, BlocksType DEF HistoryOK, RingOK
  <1> QED
    BY <1>1 DEF AgreesWith

\* Every step keeps the records adding up.
LEMMA StepKeepsRecords ==
  ASSUME SharesInvariant, SupplyOK, RecordsOK, [Next]_vars
  PROVE  RecordsOK'
  <1>1. SharesInvariant' /\ SupplyOK'
    BY StepKeeps, StepSupplies
  <1>2. /\ \A a \in Earners, b \in Blocks : b < block' => was'[a][b] = was[a][b]
        /\ \A b \in Blocks : b < block' => wasEarning'[b] = wasEarning[b]
        /\ \A a \in Earners, b \in Blocks : b >= block' => was'[a][b] = balance'[a]
    BY RecordsFollow
  <1>3. block' \in Nat /\ Blocks \subseteq Nat
    BY <1>1, BlocksType DEF SharesInvariant, ClockOK
  <1>4. ASSUME NEW b \in Blocks
        PROVE  wasEarning'[b] = SumFunctionOnSet([a \in Earners |-> was'[a][b]], Earners)
    <2>1. PICK before : before = [a \in Earners |-> was[a][b]]
      OBVIOUS
    <2>2. PICK after : after = [a \in Earners |-> was'[a][b]]
      OBVIOUS
    <2>3. CASE b < block'
      <3>1. \A a \in Earners : before[a] = after[a]
        BY <1>2, <2>1, <2>2, <2>3
      <3>2. SumFunctionOnSet(before, Earners) = SumFunctionOnSet(after, Earners)
        BY <3>1, EarnersFinite, SumSame
      <3> QED
        BY <1>2, <2>1, <2>2, <2>3, <3>2 DEF RecordsOK
    <2>4. CASE b >= block'
      <3>1. wasEarning'[b] = SumFunctionOnSet(balance', Earners)
        <4>1. HistoryOK(earning', wasEarning', block', snapshotAt')
          BY <1>1 DEF SharesInvariant, HistoriesOK
        <4>2. wasEarning'[b] = Current(earning').value
          BY <1>3, <2>4, <4>1, CurrentIsRecorded
        <4> QED
          BY <1>1, <4>2 DEF SupplyOK, EarningSupply
      <3>2. \A a \in Earners : balance'[a] = after[a]
        BY <1>2, <2>2, <2>4
      <3>3. SumFunctionOnSet(balance', Earners) = SumFunctionOnSet(after, Earners)
        <4>1. PICK held : held = balance'
          OBVIOUS
        <4>2. SumFunctionOnSet(held, Earners) = SumFunctionOnSet(after, Earners)
          BY <3>2, <4>1, EarnersFinite, SumSame
        <4> QED
          BY <4>1, <4>2
      <3> QED
        BY <2>2, <3>1, <3>3
    <2> QED
      BY <1>3, <2>3, <2>4
  <1> QED
    BY <1>2, <1>4 DEF RecordsOK

\* Nothing was held before the seal.
LEMMA RecordsStart == Init => RecordsOK
  <1> SUFFICES ASSUME Init
               PROVE  RecordsOK
    OBVIOUS
  <1>1. /\ was = [a \in Accounts |-> [b \in Blocks |-> 0]] /\ wasEarning = [b \in Blocks |-> 0]
        /\ balance = [a \in Accounts |-> 0]
    BY DEF Init, SharesInit
  <1>2. ASSUME NEW b \in Blocks
        PROVE  wasEarning[b] = SumFunctionOnSet([a \in Earners |-> was[a][b]], Earners)
    <2>1. PICK f : f = [a \in Earners |-> was[a][b]]
      OBVIOUS
    <2>2. \A a \in Earners : f[a] = 0
      BY <1>1, <2>1, EarnersFinite
    <2>3. SumFunctionOnSet(f, Earners) = 0
      BY <2>2, EarnersFinite, SumZero
    <2> QED
      BY <1>1, <2>1, <2>3
  <1> QED
    BY <1>1, <1>2, EarnersFinite DEF RecordsOK

-----------------------------------------------------------------------------
(* The parts of a drop.                                                      *)

\* What the earners held when a block closed.
ClosedAt(b) == [h \in Accounts |-> IF Earns(h) THEN was[h][b] ELSE 0]

\* A holder's part of a drop, by the record.
PartOf(d, h) ==
  IF Earns(h) THEN (was[h][d.snapshotBlock] * d.amount) \div d.earningSupply ELSE 0

PartsOf(d) == [h \in Accounts |-> PartOf(d, h)]

ClaimedOf(i) == {h \in Accounts : <<i, h>> \in claimed}

\* Every drop divides by what its snapshot's block closed with, and has paid each holder
\* that claimed its part.
PartsOK ==
  /\ \A i \in DropIds : drops[i].earningSupply = wasEarning[drops[i].snapshotBlock]
  /\ claimed \subseteq DropIds \X Accounts
  /\ \A i \in DropIds : drops[i].paid = SumFunctionOnSet(PartsOf(drops[i]), ClaimedOf(i))
  /\ \A c \in Currencies : boxHeld[c] \in Nat

\* Parts rounded down never add up to more than the whole.
LEMMA PartsFit ==
  ASSUME NEW S, IsFiniteSet(S), NEW f, \A x \in S : f[x] \in Nat,
         NEW s \in Nat \ {0}, s = SumFunctionOnSet(f, S), NEW amount \in Nat,
         NEW p, \A x \in S : p[x] = (f[x] * amount) \div s
  PROVE  (\A x \in S : p[x] \in Nat) /\ SumFunctionOnSet(p, S) <= amount
  <1>1. ASSUME NEW x \in S
        PROVE  p[x] \in Nat /\ f[x] * amount \in Nat /\ p[x] * s <= f[x] * amount
    <2>1. PICK n \in Nat : n = f[x] * amount
      OBVIOUS
    <2>2. n \div s \in Nat /\ (n \div s) * s <= n
      BY DivisionBounds
    <2> QED
      BY <2>1, <2>2
  <1>2. PICK q : q = [x \in S |-> p[x] * s]
    OBVIOUS
  <1>3. PICK r : r = [x \in S |-> f[x] * amount]
    OBVIOUS
  <1>4. SumFunctionOnSet(q, S) = SumFunctionOnSet(p, S) * s
    <2>1. s \in Int /\ \A x \in S : p[x] \in Int /\ q[x] = p[x] * s
      BY <1>1, <1>2
    <2> QED
      BY <2>1, SumScale
  <1>5. SumFunctionOnSet(r, S) = s * amount
    <2>1. amount \in Int /\ \A x \in S : f[x] \in Int /\ r[x] = f[x] * amount
      BY <1>3
    <2>2. SumFunctionOnSet(r, S) = SumFunctionOnSet(f, S) * amount
      BY <2>1, SumScale
    <2> QED
      BY <2>2, Zenon
  <1>6. SumFunctionOnSet(q, S) <= SumFunctionOnSet(r, S)
    <2>1. \A x \in S : q[x] \in Int /\ r[x] \in Int /\ q[x] <= r[x]
      BY <1>1, <1>2, <1>3
    <2> QED
      BY <2>1, SumMonotone
  <1>7. SumFunctionOnSet(p, S) \in Nat
    BY <1>1, SumNatural
  <1>8. PICK t \in Nat : t = SumFunctionOnSet(p, S)
    BY <1>7
  <1>9. t <= amount
    <2>1. t * s <= amount * s
      BY <1>4, <1>5, <1>6, <1>8
    <2>2. ~(amount < t)
      <3> SUFFICES ASSUME amount < t
                   PROVE  FALSE
        OBVIOUS
      <3>1. amount + 1 <= t
        OBVIOUS
      <3>2. (amount + 1) * s <= t * s
        BY <3>1, ProductMonotone
      <3>3. (amount + 1) * s = amount * s + s
        OBVIOUS
      <3>4. amount * s \in Int /\ t * s \in Int
        OBVIOUS
      <3> QED
        BY <2>1, <3>2, <3>3, <3>4
    <2> QED
      BY <2>2
  <1> QED
    BY <1>1, <1>8, <1>9

\* What a block closed with adds up to the earning supply of its record.
LEMMA ClosedSums ==
  ASSUME SharesInvariant, RecordsOK, NEW b \in Blocks
  PROVE  /\ \A h \in Accounts : ClosedAt(b)[h] \in Nat
         /\ SumFunctionOnSet(ClosedAt(b), Accounts) = wasEarning[b]
  <1>1. PICK f : f = ClosedAt(b)
    OBVIOUS
  <1>2. PICK g : g = [a \in Earners |-> was[a][b]]
    OBVIOUS
  <1>3. was \in [Accounts -> [Blocks -> Nat]]
    BY DEF SharesInvariant, SharesTypeOK
  <1>4. \A h \in Accounts : f[h] \in Nat
    BY <1>1, <1>3 DEF ClosedAt
  <1>5. /\ IsFiniteSet(Earners) /\ IsFiniteSet(Accounts \ Earners)
        /\ Earners \cap (Accounts \ Earners) = {} /\ Earners \cup (Accounts \ Earners) = Accounts
    <2>1. IsFiniteSet(Accounts \ Earners)
      BY EarnersFinite, FS_Subset
    <2> QED
      BY <2>1, EarnersFinite
  <1>6. SumFunctionOnSet(f, Earners) = wasEarning[b]
    <2>1. \A h \in Earners : f[h] = g[h]
      BY <1>1, <1>2, EarnersFinite DEF ClosedAt, Earners, Earns
    <2>2. SumFunctionOnSet(f, Earners) = SumFunctionOnSet(g, Earners)
      BY <1>5, <2>1, SumSame
    <2> QED
      BY <1>2, <2>2 DEF RecordsOK
  <1>7. SumFunctionOnSet(f, Accounts \ Earners) = 0
    <2>1. \A h \in Accounts \ Earners : f[h] = 0
      BY <1>1 DEF ClosedAt, Earners, Earns
    <2> QED
      BY <1>5, <2>1, SumZero
  <1>8. SumFunctionOnSet(f, Accounts) = SumFunctionOnSet(f, Earners) + SumFunctionOnSet(f, Accounts \ Earners)
    <2>1. \A x \in Earners \cup (Accounts \ Earners) : f[x] \in Int
      BY <1>4, <1>5
    <2>2. SumFunctionOnSet(f, Earners \cup (Accounts \ Earners))
            = SumFunctionOnSet(f, Earners) + SumFunctionOnSet(f, Accounts \ Earners)
      BY <1>5, <2>1, SumUnion
    <2> QED
      BY <1>5, <2>2
  <1>9. wasEarning[b] \in Nat
    BY DEF SharesInvariant, SharesTypeOK
  <1> QED
    BY <1>1, <1>4, <1>6, <1>7, <1>8, <1>9

\* All the state a drop's parts rest on.
BoxInvariant ==
  /\ SharesInvariant /\ SupplyOK /\ ArchivesOK /\ RecordsOK
  /\ DropsOK /\ BoxOwesWhatDropsHold /\ PartsOK

\* A drop's fields, and its parts, which fit in it.
LEMMA DropFacts ==
  ASSUME BoxInvariant, NEW i \in DropIds
  PROVE  /\ drops[i] \in DropRecord /\ drops[i].snapshotBlock \in snapshotAt
         /\ drops[i].snapshotBlock \in Blocks /\ drops[i].snapshotBlock < block
         /\ drops[i].amount \in Nat /\ drops[i].earningSupply \in Nat \ {0} /\ drops[i].paid \in Nat
         /\ \A h \in Accounts : PartOf(drops[i], h) \in Nat
         /\ SumFunctionOnSet(PartsOf(drops[i]), Accounts) <= drops[i].amount
  <1> DEFINE d == drops[i]
             s == d.snapshotBlock
  <1>1. d \in DropRecord /\ s \in snapshotAt
    <2>1. DropsOK
      BY DEF BoxInvariant
    <2> QED
      BY <2>1 DEF DropsOK, DropIds
  <1>2. s \in Blocks /\ s < block
    <2>1. ClockOK
      BY DEF BoxInvariant, SharesInvariant
    <2> HIDE DEF s
    <2> QED
      BY <1>1, <2>1, BlocksType DEF ClockOK
  <1>3. d.amount \in Nat /\ d.earningSupply \in Nat \ {0} /\ d.paid \in Nat
    BY <1>1 DEF DropRecord
  <1>4. d.earningSupply = SumFunctionOnSet(ClosedAt(s), Accounts) /\ \A h \in Accounts : ClosedAt(s)[h] \in Nat
    BY <1>2, ClosedSums DEF BoxInvariant, PartsOK
  <1>5. \A h \in Accounts : PartsOf(d)[h] = (ClosedAt(s)[h] * d.amount) \div d.earningSupply
    <2>1. ASSUME NEW h \in Accounts, ~Earns(h)
          PROVE  (0 * d.amount) \div d.earningSupply = 0
      <3>1. \A n \in Nat, m \in Nat \ {0} : 0 * n = 0 /\ 0 \div m = 0
        OBVIOUS
      <3> QED
        BY <1>3, <3>1
    <2> QED
      BY <2>1 DEF PartsOf, PartOf, ClosedAt
  <1>6. PICK p : p = PartsOf(d)
    OBVIOUS
  <1>7. PICK f : f = ClosedAt(s)
    OBVIOUS
  <1>8. (\A h \in Accounts : p[h] \in Nat) /\ SumFunctionOnSet(p, Accounts) <= d.amount
    <2>1. /\ \A h \in Accounts : f[h] \in Nat
          /\ d.earningSupply = SumFunctionOnSet(f, Accounts)
          /\ \A h \in Accounts : p[h] = (f[h] * d.amount) \div d.earningSupply
      BY <1>4, <1>5, <1>6, <1>7
    <2> HIDE DEF d
    <2> QED
      BY <1>3, <2>1, EarnersFinite, PartsFit
  <1>9. \A h \in Accounts : PartOf(d, h) = p[h]
    BY <1>6 DEF PartsOf
  <1> QED
    BY <1>1, <1>2, <1>3, <1>6, <1>8, <1>9

\* A snapshot reads the record, by the slots and the archive, and by the search.
LEMMA SnapshotReads ==
  ASSUME BoxInvariant, NEW h \in Accounts, Earns(h), NEW s \in snapshotAt
  PROVE  ValueAt(accounts[h], s) = was[h][s] /\ SearchedAt(accounts[h], s) = was[h][s]
  <1>1. h \in Earners
    BY DEF Earners, Earns
  <1>2. HistoryOK(accounts[h], was[h], block, snapshotAt) /\ ArchiveOK(accounts[h]) /\ snapshotAt \subseteq Blocks
    BY <1>1 DEF BoxInvariant, SharesInvariant, HistoriesOK, ClockOK, ArchivesOK
  <1>3. ValueAt(accounts[h], s) = was[h][s]
    BY <1>2, HistoryReads
  <1>4. accounts[h] \in History /\ s \in Nat
    BY <1>2, BlocksType DEF HistoryOK
  <1>5. SearchedAt(accounts[h], s) = ValueAt(accounts[h], s)
    BY <1>2, <1>4, SearchFinds
  <1> QED
    BY <1>3, <1>5

\* So a holder's share of a drop, and its part as the search finds it, are its part.
LEMMA SharesAreParts ==
  ASSUME BoxInvariant, NEW i \in DropIds, NEW h \in Accounts
  PROVE  Share(drops[i], h) = PartOf(drops[i], h) /\ PartFound(drops[i], h) = PartOf(drops[i], h)
  <1> DEFINE d == drops[i]
  <1>1. /\ d.snapshotBlock \in snapshotAt /\ d.amount \in Nat /\ d.earningSupply \in Nat \ {0}
    BY DropFacts
  <1>2. CASE Earns(h)
    <2>1. /\ ValueAt(accounts[h], d.snapshotBlock) = was[h][d.snapshotBlock]
          /\ SearchedAt(accounts[h], d.snapshotBlock) = was[h][d.snapshotBlock]
      BY <1>1, <1>2, SnapshotReads
    <2> QED
      BY <1>2, <2>1 DEF Share, BalanceAt, PartFound, PartOf
  <1>3. CASE ~Earns(h)
    <2>1. \A n \in Nat, m \in Nat \ {0} : 0 * n = 0 /\ 0 \div m = 0
      OBVIOUS
    <2>2. (0 * d.amount) \div d.earningSupply = 0
      BY <1>1, <2>1
    <2> HIDE DEF d
    <2>3. Share(d, h) = 0 /\ PartFound(d, h) = 0 /\ PartOf(d, h) = 0
      BY <1>3, <2>2 DEF Share, BalanceAt, PartFound, PartOf
    <2> QED
      BY <2>3 DEF d
  <1> QED
    BY <1>2, <1>3

\* The parts that were not paid are still there: a claim is never cut to what is left.
LEMMA OwedIsPart ==
  ASSUME BoxInvariant, NEW i \in DropIds, NEW h \in Accounts, <<i, h>> \notin claimed
  PROVE  Owed(drops[i], h) = PartOf(drops[i], h)
  <1> DEFINE d == drops[i]
             S == ClaimedOf(i)
  <1>1. /\ d.amount \in Nat /\ d.paid \in Nat /\ \A x \in Accounts : PartOf(d, x) \in Nat
        /\ SumFunctionOnSet(PartsOf(d), Accounts) <= d.amount
    BY DropFacts
  <1>2. PICK p : p = PartsOf(d)
    OBVIOUS
  <1>3. \A x \in Accounts : p[x] = PartOf(d, x) /\ p[x] \in Nat
    BY <1>1, <1>2 DEF PartsOf
  <1>4. /\ S \subseteq Accounts /\ h \notin S /\ IsFiniteSet(S) /\ IsFiniteSet(S \cup {h})
        /\ IsFiniteSet(Accounts \ (S \cup {h}))
    <2>1. S \subseteq Accounts /\ h \notin S
      BY DEF ClaimedOf
    <2> HIDE DEF S
    <2>2. S \cup {h} \subseteq Accounts /\ Accounts \ (S \cup {h}) \subseteq Accounts
      BY <2>1
    <2> QED
      BY <2>1, <2>2, EarnersFinite, FS_Subset
  <1>5. d.paid = SumFunctionOnSet(p, S)
    BY <1>2 DEF BoxInvariant, PartsOK
  <1> HIDE DEF S, d
  <1>6. SumFunctionOnSet(p, S \cup {h}) = SumFunctionOnSet(p, S) + p[h]
    <2>1. h \notin S /\ \A x \in S \cup {h} : p[x] \in Int
      BY <1>3, <1>4
    <2> QED
      BY <1>4, <2>1, SumInsert
  <1>7. SumFunctionOnSet(p, S \cup {h}) <= SumFunctionOnSet(p, Accounts)
    <2> DEFINE T == S \cup {h}
               R == Accounts \ T
    <2>1. IsFiniteSet(T) /\ IsFiniteSet(R) /\ T \cap R = {} /\ T \cup R = Accounts
      BY <1>4
    <2>2. (\A x \in T \cup R : p[x] \in Int) /\ (\A x \in R : p[x] \in Nat) /\ (\A x \in T : p[x] \in Nat)
      BY <1>3, <1>4, <2>1
    <2> HIDE DEF T, R
    <2>3. SumFunctionOnSet(p, T \cup R) = SumFunctionOnSet(p, T) + SumFunctionOnSet(p, R)
      BY <2>1, <2>2, SumUnion
    <2>4. SumFunctionOnSet(p, R) \in Nat /\ SumFunctionOnSet(p, T) \in Nat
      BY <2>1, <2>2, SumNatural
    <2>5. SumFunctionOnSet(p, T) <= SumFunctionOnSet(p, Accounts)
      <3>1. SumFunctionOnSet(p, Accounts) = SumFunctionOnSet(p, T) + SumFunctionOnSet(p, R)
        BY <2>1, <2>3, Zenon
      <3> QED
        BY <2>4, <3>1
    <2> QED
      BY <2>5 DEF T
  <1>8. d.paid + p[h] <= d.amount
    <2>1. SumFunctionOnSet(p, Accounts) \in Nat
      BY <1>3, EarnersFinite, SumNatural
    <2> QED
      BY <1>1, <1>2, <1>3, <1>5, <1>6, <1>7, <2>1
  <1>9. Share(d, h) = p[h]
    BY <1>3, SharesAreParts DEF d
  <1>10. Owed(d, h) = p[h]
    BY <1>1, <1>3, <1>8, <1>9 DEF Owed
  <1> QED
    BY <1>3, <1>10 DEF d

-----------------------------------------------------------------------------
(* What a step does to the drops.                                            *)

\* What is owed of a currency is never negative.
LEMMA OwingType ==
  ASSUME BoxInvariant, NEW c \in Currencies
  PROVE  owedOf[c] \in Nat /\ boxHeld[c] \in Nat
  <1>1. drops \in Seq(DropRecord) /\ \A i \in DropIds : drops[i].paid <= drops[i].amount
    BY DEF BoxInvariant, DropsOK
  <1>2. PICK f : f = [i \in DropIds |-> drops[i].amount - drops[i].paid]
    OBVIOUS
  <1>3. PICK S : S = {i \in DropIds : drops[i].asset = c}
    OBVIOUS
  <1>4. IsFiniteSet(S) /\ S \subseteq DropIds
    <2>1. IsFiniteSet(DropIds)
      BY <1>1, HeldTerms DEF DropIds
    <2> QED
      BY <1>3, <2>1, FS_Subset
  <1>5. \A i \in S : f[i] \in Nat
    <2> SUFFICES ASSUME NEW i \in S
                 PROVE  f[i] \in Nat
      OBVIOUS
    <2>1. i \in DropIds /\ drops[i].amount \in Nat /\ drops[i].paid \in Nat
      BY <1>4, DropFacts
    <2> QED
      BY <1>1, <1>2, <2>1
  <1>6. owedOf[c] = SumFunctionOnSet(f, S)
    BY <1>2, <1>3, OwedParts DEF BoxInvariant, HeldByDrops, DropIds
  <1>7. SumFunctionOnSet(f, S) \in Nat
    BY <1>4, <1>5, SumNatural
  <1> QED
    BY <1>6, <1>7 DEF BoxInvariant, PartsOK

\* The box stays above nothing.
HeldIsNatural == \A c \in Currencies : boxHeld'[c] \in Nat

\* A step records a drop, of no more than the box may hold, pays a part, or leaves the drops
\* alone.
LEMMA DropKinds ==
  ASSUME BoxInvariant, [Next]_vars
  PROVE  \/ UNCHANGED <<drops, claimed>> /\ HeldIsNatural
         \/ \E c \in Currencies, amount \in 1..MaxHeld : RecordDrop(c, amount) /\ HeldIsNatural
         \/ \E h \in Accounts, i \in DropIds : ClaimDrop(h, i)
  <1>1. /\ boxHeld \in [Currencies -> Nat] /\ \A c \in Currencies : owedOf[c] \in Nat
        /\ MaxHeld \in Nat /\ Amounts \subseteq Nat
    <2>1. boxHeld \in [Currencies -> Int]
      BY DEF BoxInvariant, DropsOK
    <2> QED
      BY <2>1, OwingType, DropAssumption, AmountsAssumption
  <1>2. ASSUME NEW c \in Currencies, NEW n \in Amounts, Drop(c, n)
        PROVE  \E amount \in 1..MaxHeld : RecordDrop(c, amount) /\ HeldIsNatural
    <2>1. /\ n > 0 /\ boxHeld[c] + n <= MaxHeld /\ RecordDrop(c, n)
          /\ boxHeld' = [boxHeld EXCEPT ![c] = boxHeld[c] + n]
      BY <1>2 DEF Drop
    <2>2. n \in 1..MaxHeld
      BY <1>1, <2>1
    <2>3. HeldIsNatural
      BY <1>1, <2>1 DEF HeldIsNatural
    <2> QED
      BY <2>1, <2>2, <2>3
  <1>3. ASSUME NEW c \in Currencies, NEW n \in Nat, DropStray(c, n)
        PROVE  \E amount \in 1..MaxHeld : RecordDrop(c, amount) /\ HeldIsNatural
    <2>1. PICK held : held = boxHeld[c] + n
      OBVIOUS
    <2>2. /\ held > owedOf[c] /\ held <= MaxHeld /\ RecordDrop(c, held - owedOf[c])
          /\ boxHeld' = [boxHeld EXCEPT ![c] = held]
      BY <1>3, <2>1 DEF DropStray
    <2>3. held - owedOf[c] \in 1..MaxHeld /\ held \in Nat
      BY <1>1, <2>1, <2>2
    <2>4. HeldIsNatural
      BY <1>1, <2>2, <2>3 DEF HeldIsNatural
    <2> QED
      BY <2>2, <2>3, <2>4
  <1>4. ASSUME NEW c \in Currencies, NEW n \in Amounts, ArriveAtBox(c, n) \/ ShrinkAtBox(c, n)
        PROVE  UNCHANGED <<drops, claimed>> /\ HeldIsNatural
    <2>1. CASE ArriveAtBox(c, n)
      <3>1. /\ UNCHANGED <<drops, claimed>> /\ boxHeld' = [boxHeld EXCEPT ![c] = boxHeld[c] + n]
            /\ boxHeld[c] + n \in Nat
        BY <1>1, <2>1 DEF ArriveAtBox
      <3> QED
        BY <1>1, <3>1 DEF HeldIsNatural
    <2>2. CASE ShrinkAtBox(c, n)
      <3>1. /\ UNCHANGED <<drops, claimed>> /\ boxHeld' = [boxHeld EXCEPT ![c] = boxHeld[c] - n]
            /\ boxHeld[c] - n \in Nat
        BY <1>1, <2>2 DEF ShrinkAtBox
      <3> QED
        BY <1>1, <3>1 DEF HeldIsNatural
    <2> QED
      BY <1>4, <2>1, <2>2
  <1>5. CASE ~Box
    <2>1. UNCHANGED boxVars
      BY <1>5, Zenon DEF Next, Shares, Income, Seal, Transfer, vars
    <2> QED
      BY <1>1, <2>1 DEF boxVars, HeldIsNatural
  <1>6. CASE \E c \in Currencies : DropStray(c, 0)
    BY <1>3, <1>6
  <1>7. CASE \E c \in Currencies, n \in Amounts :
               Drop(c, n) \/ DropTokenStray(c, n) \/ ArriveAtBox(c, n) \/ ShrinkAtBox(c, n)
    <2>1. PICK c \in Currencies, n \in Amounts :
               Drop(c, n) \/ DropTokenStray(c, n) \/ ArriveAtBox(c, n) \/ ShrinkAtBox(c, n)
      BY <1>7
    <2>2. n \in Nat
      BY <1>1
    <2> QED
      BY <1>2, <1>3, <1>4, <2>1, <2>2 DEF DropTokenStray
  <1>8. CASE \E h \in Accounts, i \in DropIds : ClaimDrop(h, i)
    BY <1>8
  <1> QED
    BY <1>5, <1>6, <1>7, <1>8 DEF Box

\* What a recorded drop looks like.
NewDrop(c, amount) == [asset |-> c, snapshotBlock |-> block - 1, amount |-> amount,
                       earningSupply |-> wasEarning[block - 1], paid |-> 0]

\* A recorded drop comes after the others, over the shares the last block closed with.
LEMMA DropIsRecorded ==
  ASSUME BoxInvariant, NEW c \in Currencies, NEW amount \in Nat, RecordDrop(c, amount)
  PROVE  /\ drops' = Append(drops, NewDrop(c, amount)) /\ NewDrop(c, amount) \in DropRecord
         /\ drops \in Seq(DropRecord) /\ Len(drops) \in Nat
         /\ DropIds = 1..Len(drops) /\ DOMAIN drops' = 1..(Len(drops) + 1)
         /\ drops'[Len(drops) + 1] = NewDrop(c, amount)
         /\ \A i \in DropIds : drops'[i] = drops[i]
         /\ UNCHANGED <<claimed, was, wasEarning, block>>
         /\ block - 1 \in Blocks /\ wasEarning[block - 1] \in Nat \ {0}
  <1>1. EarningSupplyAt(block - 1) = wasEarning[block - 1] /\ EarningSupplyAt(block - 1) \in Nat
    BY LastBlockReads DEF BoxInvariant
  <1>2. block - 1 \in Blocks
    BY BlocksType DEF BoxInvariant, SharesInvariant, ClockOK, Blocks
  <1>3. wasEarning[block - 1] \in Nat \ {0} /\ drops' = Append(drops, NewDrop(c, amount))
    BY <1>1 DEF RecordDrop, NewDrop
  <1>4. NewDrop(c, amount) \in DropRecord
    BY <1>2, <1>3 DEF NewDrop, DropRecord
  <1>5. drops \in Seq(DropRecord)
    BY DEF BoxInvariant, DropsOK
  <1>6. PICK d \in DropRecord : d = NewDrop(c, amount)
    BY <1>4
  <1>7. /\ Len(drops) \in Nat /\ DropIds = 1..Len(drops) /\ DOMAIN drops' = 1..(Len(drops) + 1)
        /\ drops'[Len(drops) + 1] = d /\ \A i \in DropIds : drops'[i] = drops[i]
    BY <1>3, <1>5, <1>6 DEF DropIds
  <1>8. UNCHANGED <<claimed, was, wasEarning, block>>
    BY DEF RecordDrop, RecordSnapshot
  <1> QED
    BY <1>2, <1>3, <1>4, <1>5, <1>6, <1>7, <1>8

\* A claim pays a part that was not paid, whole.
LEMMA PartIsPaid ==
  ASSUME BoxInvariant, NEW h \in Accounts, NEW i \in DropIds, ClaimDrop(h, i)
  PROVE  LET due == PartOf(drops[i], h)
         IN  /\ due \in Nat \ {0} /\ <<i, h>> \notin claimed /\ claimed' = claimed \cup {<<i, h>>}
             /\ DOMAIN drops' = DropIds /\ \A j \in DropIds \ {i} : drops'[j] = drops[j]
             /\ drops'[i] = [drops[i] EXCEPT !.paid = drops[i].paid + due]
             /\ UNCHANGED sharesVars /\ HeldIsNatural
  <1>1. <<i, h>> \notin claimed
    BY DEF ClaimDrop
  <1>2. PICK due : due = PartOf(drops[i], h)
    OBVIOUS
  <1>3. Owed(drops[i], h) = due /\ due \in Nat
    BY <1>1, <1>2, OwedIsPart, DropFacts
  <1>4. /\ due # 0 /\ due <= boxHeld[drops[i].asset] /\ claimed' = claimed \cup {<<i, h>>}
        /\ drops' = [drops EXCEPT ![i].paid = @ + due]
        /\ boxHeld' = [boxHeld EXCEPT ![drops[i].asset] = @ - due]
        /\ UNCHANGED sharesVars
    BY <1>3 DEF ClaimDrop
  <1>5. drops \in Seq(DropRecord) /\ boxHeld \in [Currencies -> Int]
    BY DEF BoxInvariant, DropsOK
  <1>6. /\ DOMAIN drops' = DropIds /\ \A j \in DropIds \ {i} : drops'[j] = drops[j]
        /\ drops'[i] = [drops[i] EXCEPT !.paid = drops[i].paid + due]
    BY <1>4, <1>5 DEF DropIds
  <1>7. HeldIsNatural
    <2>1. drops[i].asset \in Currencies
      <3>1. drops[i] \in DropRecord
        BY DropFacts
      <3> QED
        BY <3>1 DEF DropRecord
    <2>2. \A c \in Currencies : boxHeld[c] \in Nat
      BY OwingType
    <2> QED
      BY <1>3, <1>4, <1>5, <2>1, <2>2 DEF HeldIsNatural
  <1> QED
    BY <1>1, <1>2, <1>3, <1>4, <1>6, <1>7

\* A part depends on a drop's terms and on the record of its snapshot, which stand.
LEMMA PartsStay ==
  ASSUME BoxInvariant, [Next]_vars, NEW i \in DropIds,
         /\ drops'[i].snapshotBlock = drops[i].snapshotBlock /\ drops'[i].amount = drops[i].amount
         /\ drops'[i].earningSupply = drops[i].earningSupply
  PROVE  /\ PartsOf(drops[i])' = PartsOf(drops[i])
         /\ drops'[i].earningSupply = wasEarning'[drops'[i].snapshotBlock]
  <1>1. PICK s : s = drops[i].snapshotBlock
    OBVIOUS
  <1>2. s \in Blocks /\ s < block /\ s \in Nat
    BY <1>1, DropFacts, BlocksType
  <1>3. /\ \A a \in Earners, b \in Blocks : b < block' => was'[a][b] = was[a][b]
        /\ \A b \in Blocks : b < block' => wasEarning'[b] = wasEarning[b]
        /\ block \in Nat /\ block' >= block /\ block' \in Nat
    <2>1. SharesInvariant /\ SupplyOK /\ RecordsOK
      BY DEF BoxInvariant
    <2>2. SharesInvariant'
      BY <2>1, StepKeeps
    <2>3. block' \in Nat
      BY <2>2, BlocksType DEF SharesInvariant, ClockOK
    <2> QED
      BY <2>1, <2>3, RecordsFollow
  <1>4. s < block'
    BY <1>2, <1>3
  <1>5. ASSUME NEW h \in Accounts
        PROVE  PartOf(drops[i], h)' = PartOf(drops[i], h)
    <2>1. Earns(h) => was'[h][s] = was[h][s]
      BY <1>2, <1>3, <1>4 DEF Earners, Earns
    <2> QED
      BY <1>1, <2>1 DEF PartOf, Earns
  <1>6. PartsOf(drops[i])' = PartsOf(drops[i])
    BY <1>5 DEF PartsOf
  <1>7. drops[i].earningSupply = wasEarning[s]
    BY <1>1 DEF BoxInvariant, PartsOK
  <1> QED
    BY <1>1, <1>2, <1>3, <1>4, <1>6, <1>7

-----------------------------------------------------------------------------
(* The books of the drops and the parts.                                     *)

\* No step separates a drop's books from its parts: that of a new drop, ...
LEMMA RecordKeepsParts ==
  ASSUME BoxInvariant, [Next]_vars, DropsOK',
         NEW c \in Currencies, NEW amount \in Nat, RecordDrop(c, amount), HeldIsNatural
  PROVE  PartsOK'
  <1>1. PICK n \in Nat : n = Len(drops) + 1
    BY DropIsRecorded
  <1>2. PICK d \in DropRecord : d = NewDrop(c, amount)
    BY DropIsRecorded
  <1>3. /\ DropIds = 1..(n - 1) /\ DOMAIN drops' = 1..n /\ drops'[n] = d /\ n \notin DropIds
        /\ \A i \in DropIds : drops'[i] = drops[i]
        /\ claimed' = claimed /\ wasEarning' = wasEarning
    BY <1>1, <1>2, DropIsRecorded
  <1>4. d.earningSupply = wasEarning[d.snapshotBlock] /\ d.paid = 0
    BY <1>2 DEF NewDrop
  <1>5. claimed \subseteq DropIds \X Accounts
    BY DEF BoxInvariant, PartsOK
  <1>6. \A i \in 1..n : i \in DropIds \/ i = n
    BY <1>1, <1>3
  <1>7. ASSUME NEW i \in 1..n
        PROVE  /\ drops'[i].earningSupply = wasEarning'[drops'[i].snapshotBlock]
               /\ drops'[i].paid = SumFunctionOnSet(PartsOf(drops[i])', ClaimedOf(i)')
    <2>1. CASE i \in DropIds
      <3>1. /\ drops'[i] = drops[i] /\ PartsOf(drops[i])' = PartsOf(drops[i])
            /\ drops'[i].earningSupply = wasEarning'[drops'[i].snapshotBlock]
        BY <1>3, <2>1, PartsStay
      <3>2. ClaimedOf(i)' = ClaimedOf(i)
        BY <1>3 DEF ClaimedOf
      <3>3. drops[i].paid = SumFunctionOnSet(PartsOf(drops[i]), ClaimedOf(i))
        BY <2>1 DEF BoxInvariant, PartsOK
      <3> QED
        BY <3>1, <3>2, <3>3
    <2>2. CASE i = n
      <3>1. ClaimedOf(i)' = {}
        BY <1>3, <1>5, <2>2 DEF ClaimedOf
      <3>2. SumFunctionOnSet(PartsOf(drops[i])', ClaimedOf(i)') = 0
        <4>1. PICK p : p = PartsOf(drops[i])'
          OBVIOUS
        <4>2. SumFunctionOnSet(p, {}) = 0
          BY SumEmpty
        <4> QED
          BY <3>1, <4>1, <4>2
      <3> QED
        BY <1>3, <1>4, <2>2, <3>2
    <2> QED
      BY <1>6, <2>1, <2>2
  <1>8. DOMAIN drops' = 1..n /\ claimed' \subseteq (1..n) \X Accounts
    <2>1. DropIds \subseteq 1..n
      BY <1>1, <1>3
    <2> QED
      BY <1>3, <1>5, <2>1
  <1> QED
    BY <1>7, <1>8 DEF PartsOK, DropIds, HeldIsNatural

\* ... of a claim, ...
LEMMA ClaimKeepsParts ==
  ASSUME BoxInvariant, [Next]_vars, NEW h \in Accounts, NEW i \in DropIds, ClaimDrop(h, i)
  PROVE  PartsOK'
  <1>1. PICK due : due = PartOf(drops[i], h)
    OBVIOUS
  <1>2. /\ due \in Nat \ {0} /\ <<i, h>> \notin claimed /\ claimed' = claimed \cup {<<i, h>>}
        /\ DOMAIN drops' = DropIds /\ \A j \in DropIds \ {i} : drops'[j] = drops[j]
        /\ drops'[i] = [drops[i] EXCEPT !.paid = drops[i].paid + due] /\ HeldIsNatural
    BY <1>1, PartIsPaid
  <1>3. /\ drops[i] \in DropRecord /\ drops[i].paid \in Nat
        /\ \A x \in Accounts : PartOf(drops[i], x) \in Nat
    BY DropFacts
  <1>4. /\ drops'[i].paid = drops[i].paid + due
        /\ drops'[i].snapshotBlock = drops[i].snapshotBlock /\ drops'[i].amount = drops[i].amount
        /\ drops'[i].earningSupply = drops[i].earningSupply
    BY <1>2, <1>3 DEF DropRecord
  <1>5. ASSUME NEW j \in DropIds
        PROVE  /\ drops'[j].earningSupply = wasEarning'[drops'[j].snapshotBlock]
               /\ drops'[j].paid = SumFunctionOnSet(PartsOf(drops[j])', ClaimedOf(j)')
    <2>1. /\ PartsOf(drops[j])' = PartsOf(drops[j])
          /\ drops'[j].earningSupply = wasEarning'[drops'[j].snapshotBlock]
      BY <1>2, <1>4, PartsStay
    <2>2. drops[j].paid = SumFunctionOnSet(PartsOf(drops[j]), ClaimedOf(j))
      BY DEF BoxInvariant, PartsOK
    <2>3. CASE j # i
      <3>1. ClaimedOf(j)' = ClaimedOf(j)
        BY <1>2, <2>3 DEF ClaimedOf
      <3> QED
        BY <1>2, <2>1, <2>2, <2>3, <3>1
    <2>4. CASE j = i
      <3>1. PICK S : S = ClaimedOf(i)
        OBVIOUS
      <3>2. PICK p : p = PartsOf(drops[i])
        OBVIOUS
      <3>3. ClaimedOf(i)' = S \cup {h} /\ h \notin S /\ S \subseteq Accounts
        BY <1>2, <3>1 DEF ClaimedOf
      <3>4. IsFiniteSet(S) /\ p[h] = due /\ \A x \in S \cup {h} : p[x] \in Int
        BY <1>1, <1>3, <3>2, <3>3, EarnersFinite, FS_Subset DEF PartsOf
      <3>5. SumFunctionOnSet(p, S \cup {h}) = SumFunctionOnSet(p, S) + p[h]
        BY <3>3, <3>4, SumInsert
      <3> QED
        BY <1>4, <2>1, <2>2, <2>4, <3>1, <3>2, <3>3, <3>4, <3>5
    <2> QED
      BY <2>3, <2>4
  <1>6. claimed' \subseteq DropIds \X Accounts
    BY <1>2 DEF BoxInvariant, PartsOK
  <1> QED
    BY <1>2, <1>5, <1>6 DEF PartsOK, DropIds, HeldIsNatural

\* ... and that of any other step.
LEMMA StepKeepsParts ==
  ASSUME BoxInvariant, [Next]_vars
  PROVE  PartsOK'
  <1>1. DropsOK'
    BY StepKeepsDrops DEF BoxInvariant
  <1>2. CASE \E c \in Currencies, amount \in 1..MaxHeld : RecordDrop(c, amount) /\ HeldIsNatural
    <2>1. PICK c \in Currencies, amount \in 1..MaxHeld : RecordDrop(c, amount) /\ HeldIsNatural
      BY <1>2
    <2>2. amount \in Nat
      BY DropAssumption
    <2> QED
      BY <1>1, <2>1, <2>2, RecordKeepsParts
  <1>3. CASE \E h \in Accounts, i \in DropIds : ClaimDrop(h, i)
    BY <1>3, ClaimKeepsParts
  <1>4. CASE UNCHANGED <<drops, claimed>> /\ HeldIsNatural
    <2>1. ASSUME NEW i \in DropIds
          PROVE  /\ drops'[i].earningSupply = wasEarning'[drops'[i].snapshotBlock]
                 /\ drops'[i].paid = SumFunctionOnSet(PartsOf(drops[i])', ClaimedOf(i)')
      <3>1. /\ drops' = drops /\ PartsOf(drops[i])' = PartsOf(drops[i])
            /\ drops'[i].earningSupply = wasEarning'[drops'[i].snapshotBlock]
        BY <1>4, PartsStay
      <3>2. ClaimedOf(i)' = ClaimedOf(i)
        BY <1>4 DEF ClaimedOf
      <3>3. drops[i].paid = SumFunctionOnSet(PartsOf(drops[i]), ClaimedOf(i))
        BY DEF BoxInvariant, PartsOK
      <3> QED
        BY <3>1, <3>2, <3>3
    <2>2. DOMAIN drops' = DropIds /\ claimed' \subseteq DropIds \X Accounts
      BY <1>4 DEF DropIds, BoxInvariant, PartsOK
    <2> QED
      BY <1>4, <2>1, <2>2 DEF PartsOK, DropIds, HeldIsNatural
  <1> QED
    BY <1>2, <1>3, <1>4, DropKinds

\* The invariant of the box holds of a new token.
LEMMA BoxStart == Init => BoxInvariant
  <1>1. Init => PartsOK
    <2> SUFFICES ASSUME Init
                 PROVE  PartsOK
      OBVIOUS
    <2>1. DropIds = {} /\ claimed = {} /\ boxHeld = [c \in Currencies |-> 0]
      BY DEF Init, DropBoxInit, DropIds
    <2> QED
      BY <2>1 DEF PartsOK
  <1> QED
    BY <1>1, SharesStart, SupplyStart, ArchivesStart, RecordsStart, DropsStart, OwingStart
    DEF BoxInvariant, Init

\* Every step keeps the invariant of the box.
LEMMA BoxKeeps == BoxInvariant /\ [Next]_vars => BoxInvariant'
  <1> SUFFICES ASSUME BoxInvariant, [Next]_vars
               PROVE  BoxInvariant'
    OBVIOUS
  <1>1. /\ SharesInvariant /\ SupplyOK /\ ArchivesOK /\ RecordsOK
        /\ DropsOK /\ BoxOwesWhatDropsHold
    BY DEF BoxInvariant
  <1>2. SharesInvariant' /\ SupplyOK' /\ ArchivesOK' /\ RecordsOK'
    BY <1>1, StepKeeps, StepSupplies, StepKeepsArchives, StepKeepsRecords
  <1>3. DropsOK' /\ BoxOwesWhatDropsHold' /\ PartsOK'
    BY <1>1, StepKeepsDrops, StepKeepsOwing, StepKeepsParts
  <1> QED
    BY <1>2, <1>3 DEF BoxInvariant

-----------------------------------------------------------------------------
(* Refinement: the box keeps the promise of HookrDropShares.                 *)

\* What the mapping makes of the state.
ClosingNow == [h \in Accounts |-> IF Earns(h) THEN was[h][block - 1] ELSE 0]

PartsFound == [i \in DropIds |-> [h \in Accounts |-> PartFound(drops[i], h)]]

PaidNow == [i \in DropIds |-> drops[i].paid]

\* A sequence with one more element is the old one with it appended.
LEMMA AppendedIs ==
  ASSUME NEW T, NEW s \in Seq(T), NEW e \in T, NEW n \in Nat, Len(s) = n,
         NEW t \in Seq(T), Len(t) = n + 1, \A i \in 1..n : t[i] = s[i], t[n + 1] = e
  PROVE  t = Append(s, e)
  <1>1. PICK u \in Seq(T) : u = Append(s, e)
    BY AppendProperties
  <1>2. Len(u) = n + 1 /\ u[n + 1] = e /\ \A i \in 1..n : u[i] = s[i]
    BY <1>1, AppendProperties
  <1>3. \A i \in 1..Len(t) : t[i] = u[i]
    BY <1>2
  <1>4. t = u
    BY <1>2, <1>3, SeqEqual
  <1> QED
    BY <1>1, <1>4

\* The two modules sum alike.
LEMMA SumsAreSums ==
  ASSUME NEW f, NEW S
  PROVE  DropShares!SumFunctionOnSet(f, S) = SumFunctionOnSet(f, S)
  BY Zenon DEF DropShares!SumFunctionOnSet, DropShares!FoldFunctionOnSet, DropShares!MapThenFoldSet,
     SumFunctionOnSet, FoldFunctionOnSet, MapThenFoldSet

\* The parts the search finds are the parts of the record, and the closing balances are
\* those the record has of the last block.
MappingOK ==
  /\ PartsFound = [i \in DropIds |-> PartsOf(drops[i])]
  /\ ClosingNow \in [Accounts -> Nat] /\ ClosingNow = ClosedAt(block - 1)

\* The invariant gives the mapping.
LEMMA MappingHolds == BoxInvariant => MappingOK
  <1> SUFFICES ASSUME BoxInvariant
               PROVE  MappingOK
    OBVIOUS
  <1>1. ASSUME NEW i \in DropIds, NEW h \in Accounts
        PROVE  PartFound(drops[i], h) = PartOf(drops[i], h)
    BY SharesAreParts
  <1>2. was \in [Accounts -> [Blocks -> Nat]] /\ block - 1 \in Blocks
    BY BlocksType DEF BoxInvariant, SharesInvariant, SharesTypeOK, Blocks
  <1>3. PartsFound = [i \in DropIds |-> PartsOf(drops[i])]
    BY <1>1 DEF PartsFound, PartsOf
  <1> QED
    BY <1>2, <1>3 DEF MappingOK, ClosingNow, ClosedAt

\* Steps of the promise, in terms of the mapping: trades leave the drops alone, ...
LEMMA TradeOfMapping ==
  ASSUME ClosingNow' \in [Accounts -> Nat], PartsFound' = PartsFound, PaidNow' = PaidNow, claimed' = claimed
  PROVE  DropShares!Trade
  BY Zenon DEF DropShares!Trade, ClosingNow, PartsFound, PaidNow

\* ... a drop splits an amount over the closing balances, and nothing of it is paid yet, ...
LEMMA DropOfMapping ==
  ASSUME NEW amount, NEW supply, supply = SumFunctionOnSet(ClosingNow, Accounts), supply > 0,
         PartsFound' = Append(PartsFound, [h \in Accounts |-> (ClosingNow[h] * amount) \div supply]),
         PaidNow' = Append(PaidNow, 0), ClosingNow' = ClosingNow, claimed' = claimed
  PROVE  DropShares!Drop(amount)
  <1>1. supply = DropShares!SumFunctionOnSet(ClosingNow, Accounts)
    BY SumsAreSums, Zenon
  <1> QED
    BY <1>1, Zenon DEF DropShares!Drop, ClosingNow, PartsFound, PaidNow

\* ... and a claim takes one part of one drop, once.
LEMMA TakeOfMapping ==
  ASSUME NEW h, NEW i, NEW due, due > 0, PartsFound[i][h] = due,
         <<i, h>> \notin claimed, claimed' = claimed \cup {<<i, h>>},
         PaidNow' = [PaidNow EXCEPT ![i] = @ + due],
         ClosingNow' = ClosingNow, PartsFound' = PartsFound
  PROVE  DropShares!Take(h, i)
  BY Zenon DEF DropShares!Take, ClosingNow, PartsFound, PaidNow

\* A step that leaves the drops alone is a trade.
LEMMA TradeRefines ==
  ASSUME BoxInvariant, MappingOK, MappingOK', [Next]_vars, UNCHANGED <<drops, claimed>>
  PROVE  DropShares!Trade
  <1>1. ClosingNow' \in [Accounts -> Nat]
    BY DEF MappingOK
  <1>2. /\ PartsFound = [i \in DropIds |-> PartsOf(drops[i])]
        /\ PartsFound' = [i \in DropIds |-> PartsOf(drops[i])]'
    BY DEF MappingOK
  <1>3. \A i \in DropIds : PartsOf(drops[i])' = PartsOf(drops[i])
    BY PartsStay
  <1>4. PartsFound' = PartsFound
    BY <1>2, <1>3 DEF DropIds
  <1>5. PaidNow' = PaidNow
    BY DEF PaidNow, DropIds
  <1> QED
    BY <1>1, <1>4, <1>5, TradeOfMapping

\* A recorded drop is a drop: its parts are the closing shares' parts of it.
LEMMA DropRefines ==
  ASSUME BoxInvariant, MappingOK, MappingOK', [Next]_vars,
         NEW c \in Currencies, NEW amount \in 1..MaxHeld, RecordDrop(c, amount)
  PROVE  DropShares!Drop(amount)
  <1>1. amount \in Nat
    BY DropAssumption
  <1>2. PICK n \in Nat : n = Len(drops)
    BY <1>1, DropIsRecorded
  <1>3. PICK d \in DropRecord : d = NewDrop(c, amount)
    BY <1>1, DropIsRecorded
  <1>4. /\ DropIds = 1..n /\ DOMAIN drops' = 1..(n + 1) /\ drops'[n + 1] = d
        /\ \A i \in DropIds : drops'[i] = drops[i]
        /\ UNCHANGED <<claimed, was, wasEarning, block>>
        /\ block - 1 \in Blocks /\ wasEarning[block - 1] \in Nat \ {0}
    BY <1>1, <1>2, <1>3, DropIsRecorded
  <1>5. d.snapshotBlock = block - 1 /\ d.amount = amount /\ d.earningSupply = wasEarning[block - 1] /\ d.paid = 0
    BY <1>3 DEF NewDrop
  <1>6. ClosingNow = ClosedAt(block - 1) /\ ClosingNow' = ClosingNow
    BY <1>4, Zenon DEF MappingOK, ClosingNow
  <1>7. PICK closing \in [Accounts -> Nat] : closing = ClosingNow
    BY DEF MappingOK
  <1>8. PICK supply \in Nat \ {0} : supply = wasEarning[block - 1]
    BY <1>4
  <1>9. SumFunctionOnSet(closing, Accounts) = supply
    BY <1>4, <1>6, <1>7, <1>8, ClosedSums DEF BoxInvariant
  <1>10. PICK parts : parts = [h \in Accounts |-> (closing[h] * amount) \div supply]
    OBVIOUS
  <1>11. PartsOf(d)' = parts
    <2>1. ASSUME NEW h \in Accounts
          PROVE  PartOf(d, h)' = (closing[h] * amount) \div supply
      <3>1. CASE Earns(h)
        <4>1. closing[h] = was[h][block - 1] /\ was' = was
          BY <1>4, <1>7, <3>1 DEF ClosingNow
        <4> QED
          BY <1>5, <1>8, <3>1, <4>1 DEF PartOf, Earns
      <3>2. CASE ~Earns(h)
        <4>1. closing[h] = 0 /\ PartOf(d, h)' = 0
          BY <1>7, <3>2 DEF ClosingNow, PartOf, Earns
        <4>2. \A m \in Nat, k \in Nat \ {0} : 0 * m = 0 /\ 0 \div k = 0
          OBVIOUS
        <4> QED
          BY <1>1, <4>1, <4>2
      <3> QED
        BY <3>1, <3>2
    <2> QED
      BY <1>10, <2>1 DEF PartsOf
  <1>12. PartsFound' = Append(PartsFound, parts)
    <2>1. PICK s : s = PartsFound
      OBVIOUS
    <2>2. PICK t : t = PartsFound'
      OBVIOUS
    <2>3. s = [i \in 1..n |-> PartsOf(drops[i])] /\ t = [i \in 1..(n + 1) |-> PartsOf(drops[i])']
      <3>1. /\ PartsFound = [i \in DropIds |-> PartsOf(drops[i])]
            /\ PartsFound' = [i \in DropIds |-> PartsOf(drops[i])]'
        BY DEF MappingOK
      <3> QED
        BY <1>4, <2>1, <2>2, <3>1 DEF DropIds
    <2>4. \A i \in 1..n : t[i] = s[i]
      <3> SUFFICES ASSUME NEW i \in 1..n
                   PROVE  t[i] = s[i]
        OBVIOUS
      <3>1. i \in DropIds /\ i \in 1..(n + 1) /\ drops'[i] = drops[i]
        BY <1>4
      <3>2. PartsOf(drops[i])' = PartsOf(drops[i])
        BY <3>1, PartsStay
      <3> QED
        BY <2>3, <3>1, <3>2
    <2>5. t[n + 1] = parts
      <3>1. n + 1 \in 1..(n + 1)
        OBVIOUS
      <3>2. t[n + 1] = PartsOf(d)'
        BY <1>4, <2>3, <3>1 DEF PartsOf, PartOf
      <3> QED
        BY <1>11, <3>2
    <2>6. PICK T : T = {t[i] : i \in 1..(n + 1)}
      OBVIOUS
    <2>7. t \in Seq(T) /\ Len(t) = n + 1
      BY <2>3, <2>6
    <2>8. s \in Seq(T) /\ Len(s) = n /\ parts \in T
      <3>1. \A i \in 1..n : s[i] \in T
        BY <2>4, <2>6
      <3>2. s = [i \in 1..n |-> s[i]]
        BY <2>3
      <3>3. n + 1 \in 1..(n + 1)
        OBVIOUS
      <3> QED
        BY <2>5, <2>6, <3>1, <3>2, <3>3
    <2>9. t = Append(s, parts)
      BY <2>4, <2>5, <2>7, <2>8, AppendedIs
    <2> QED
      BY <2>1, <2>2, <2>9
  <1>13. PaidNow' = Append(PaidNow, 0)
    <2>1. PICK s : s = PaidNow
      OBVIOUS
    <2>2. PICK t : t = PaidNow'
      OBVIOUS
    <2>3. /\ s = [i \in 1..n |-> drops[i].paid] /\ t = [i \in 1..(n + 1) |-> drops'[i].paid]
      BY <1>4, <2>1, <2>2 DEF PaidNow, DropIds
    <2>4. \A i \in 1..n : drops[i].paid \in Nat
      BY <1>4, DropFacts
    <2>5. s \in Seq(Nat) /\ Len(s) = n /\ \A i \in 1..n : s[i] \in Nat
      <3>1. \A i \in 1..n : s[i] \in Nat
        BY <2>3, <2>4
      <3>2. s = [i \in 1..n |-> s[i]]
        BY <2>3
      <3> QED
        BY <3>1, <3>2
    <2>6. (\A i \in 1..n : t[i] = s[i]) /\ t[n + 1] = 0
      BY <1>4, <1>5, <2>3
    <2>7. t \in Seq(Nat) /\ Len(t) = n + 1
      <3>1. \A i \in 1..(n + 1) : i \in 1..n \/ i = n + 1
        OBVIOUS
      <3>2. \A i \in 1..(n + 1) : t[i] \in Nat
        BY <2>5, <2>6, <3>1
      <3>3. t = [i \in 1..(n + 1) |-> t[i]]
        BY <2>3
      <3> QED
        BY <3>2, <3>3
    <2>8. t = Append(s, 0)
      BY <2>5, <2>6, <2>7, AppendedIs
    <2> QED
      BY <2>1, <2>2, <2>8
  <1>14. /\ supply = SumFunctionOnSet(ClosingNow, Accounts) /\ supply > 0
         /\ PartsFound' = Append(PartsFound, [h \in Accounts |-> (ClosingNow[h] * amount) \div supply])
    BY <1>7, <1>8, <1>9, <1>10, <1>12
  <1> QED
    BY <1>4, <1>6, <1>13, <1>14, DropOfMapping

\* A claim takes a part.
LEMMA ClaimRefines ==
  ASSUME BoxInvariant, MappingOK, MappingOK', [Next]_vars,
         NEW h \in Accounts, NEW i \in DropIds, ClaimDrop(h, i)
  PROVE  i \in DOMAIN PartsFound /\ DropShares!Take(h, i)
  <1>1. PICK due : due = PartOf(drops[i], h)
    OBVIOUS
  <1>2. /\ due \in Nat \ {0} /\ <<i, h>> \notin claimed /\ claimed' = claimed \cup {<<i, h>>}
        /\ DOMAIN drops' = DropIds /\ \A j \in DropIds \ {i} : drops'[j] = drops[j]
        /\ drops'[i] = [drops[i] EXCEPT !.paid = drops[i].paid + due]
        /\ UNCHANGED sharesVars
    BY <1>1, PartIsPaid
  <1>3. drops[i] \in DropRecord /\ drops[i].paid \in Nat
    BY DropFacts
  <1>4. /\ drops'[i].paid = drops[i].paid + due
        /\ drops'[i].snapshotBlock = drops[i].snapshotBlock /\ drops'[i].amount = drops[i].amount
        /\ drops'[i].earningSupply = drops[i].earningSupply
    BY <1>2, <1>3 DEF DropRecord
  <1>5. /\ PartsFound = [j \in DropIds |-> PartsOf(drops[j])]
        /\ PartsFound' = [j \in DropIds |-> PartsOf(drops[j])]'
    BY DEF MappingOK
  <1>6. PartsFound' = PartsFound
    <2>1. \A j \in DropIds : PartsOf(drops[j])' = PartsOf(drops[j])
      BY <1>2, <1>4, PartsStay
    <2> QED
      BY <1>2, <1>5, <2>1 DEF DropIds
  <1>7. i \in DOMAIN PartsFound /\ PartsFound[i][h] = due
    BY <1>1, <1>5 DEF PartsOf
  <1>8. PaidNow' = [PaidNow EXCEPT ![i] = @ + due]
    BY <1>2, <1>4 DEF PaidNow, DropIds
  <1>9. ClosingNow' = ClosingNow
    BY <1>2 DEF ClosingNow, sharesVars
  <1>10. due > 0 /\ <<i, h>> \notin claimed /\ claimed' = claimed \cup {<<i, h>>}
    BY <1>2
  <1> QED
    BY <1>6, <1>7, <1>8, <1>9, <1>10, TakeOfMapping, Zenon

\* Every step of the token is one of the promise.
LEMMA StepRefines ==
  ASSUME BoxInvariant, MappingOK, MappingOK', [Next]_vars
  PROVE  DropShares!ShareNext
  <1>1. CASE UNCHANGED <<drops, claimed>>
    BY <1>1, TradeRefines DEF DropShares!ShareNext
  <1>2. CASE \E c \in Currencies, amount \in 1..MaxHeld : RecordDrop(c, amount)
    BY <1>2, DropRefines DEF DropShares!ShareNext
  <1>3. CASE \E h \in Accounts, i \in DropIds : ClaimDrop(h, i)
    <2>1. \E h \in Accounts, i \in DOMAIN PartsFound : DropShares!Take(h, i)
      BY <1>3, ClaimRefines
    <2> QED
      BY <2>1 DEF DropShares!ShareNext, PartsFound
  <1> QED
    BY <1>1, <1>2, <1>3, DropKinds

\* At the start nobody held anything and nothing was dropped.
LEMMA PromiseStart == Init => DropShares!ShareInit
  <1> SUFFICES ASSUME Init
               PROVE  DropShares!ShareInit
    OBVIOUS
  <1>1. /\ was = [a \in Accounts |-> [b \in Blocks |-> 0]] /\ block = 1
        /\ drops = <<>> /\ claimed = {}
    BY DEF Init, SharesInit, DropBoxInit
  <1>2. ClosingNow = [h \in Accounts |-> 0]
    BY <1>1, BlocksType DEF ClosingNow
  <1>3. PartsFound = <<>> /\ PaidNow = <<>>
    BY <1>1 DEF PartsFound, PaidNow, DropIds
  <1> QED
    BY <1>1, <1>2, <1>3 DEF DropShares!ShareInit, ClosingNow, PartsFound, PaidNow

\* The drop box implements HookrDropShares: a drop is split over what the block before it
\* closed with, its parts do not move with what is traded later, and drop and claimDrop
\* pay each part once and in full.
THEOREM DropsKeepTheirPromise == Spec => DropSharesSpec
  <1>1. Init => BoxInvariant /\ DropShares!ShareInit
    BY BoxStart, PromiseStart
  <1>2. BoxInvariant /\ MappingOK /\ MappingOK' /\ [Next]_vars =>
          [DropShares!ShareNext]_(DropShares!shareVars)
    BY StepRefines
  <1> QED
    BY <1>1, <1>2, BoxKeeps, MappingHolds, PTL DEF Spec, DropSharesSpec, DropShares!ShareSpec

\* The search of _valueAt, over the archive as the checkpoints leave it, answers every
\* recorded snapshot with what the record says its block ended with: every earner's
\* balance, and the earning supply.
THEOREM SearchReadsSnapshots ==
  Spec => [](\A s \in snapshotAt :
               /\ \A a \in Earners : SearchedAt(accounts[a], s) = was[a][s]
               /\ SearchedAt(earning, s) = wasEarning[s])
  <1> DEFINE Reads == \A s \in snapshotAt :
               /\ \A a \in Earners : SearchedAt(accounts[a], s) = was[a][s]
               /\ SearchedAt(earning, s) = wasEarning[s]
  <1>1. ASSUME BoxInvariant
        PROVE  Reads
    <2> SUFFICES ASSUME NEW s \in snapshotAt
                 PROVE  /\ \A a \in Earners : SearchedAt(accounts[a], s) = was[a][s]
                        /\ SearchedAt(earning, s) = wasEarning[s]
      OBVIOUS
    <2>1. \A a \in Earners : SearchedAt(accounts[a], s) = was[a][s]
      BY <1>1, SnapshotReads DEF Earners, Earns
    <2>2. /\ HistoryOK(earning, wasEarning, block, snapshotAt) /\ ArchiveOK(earning) /\ earning \in History
          /\ snapshotAt \subseteq Blocks /\ s \in Nat
      BY <1>1, BlocksType DEF BoxInvariant, SharesInvariant, HistoriesOK, HistoryOK, ClockOK, ArchivesOK
    <2>3. ValueAt(earning, s) = wasEarning[s]
      BY <2>2, HistoryReads
    <2>4. SearchedAt(earning, s) = ValueAt(earning, s)
      BY <2>2, SearchFinds
    <2> QED
      BY <2>1, <2>3, <2>4
  <1> QED
    BY <1>1, BoxStart, BoxKeeps, PTL DEF Spec

-----------------------------------------------------------------------------
(* The books of one asset.                                                   *)

Book == [received: Nat, paid: Nat, pendingStream: Nat, streamEnd: Nat,
         lastRelease: Nat, index: Nat, carry: Nat]

Credit == [index: Nat, creditScaled: Nat]

\* What an account is owed of an asset at an index.
CreditAt(h, a, index) ==
  holders[h][a].creditScaled + (IF Earns(h) THEN balance[h] * (index - holders[h][a].index) ELSE 0)

IncomeTypeOK ==
  /\ now \in Nat /\ books \in [Assets -> Book] /\ cash \in [Assets -> Nat]
  /\ holders \in [Accounts -> [Assets -> Credit]]

\* The books of one asset: within what it can count, streaming for a period at most, with
\* no holder ahead of its index, balanced, and held.
BooksOK(a) ==
  /\ books[a].received <= MaxReceived
  /\ books[a].streamEnd <= now + StreamSeconds
  /\ \A h \in Accounts : holders[h][a].index <= books[a].index
  /\ Conserved(a)
  /\ a \notin Slashable => books[a].received - books[a].paid <= cash[a]
  /\ ~live => books[a].index = 0

IncomeOK == IncomeTypeOK /\ \A a \in Assets : BooksOK(a)

\* The scale and the stream's length are positive, and the cuts are parts of Bps.
LEMMA ConstantsType ==
  /\ Scale \in Nat \ {0} /\ StreamSeconds \in Nat \ {0} /\ Bps \in Nat \ {0}
  /\ MaxReceived \in Nat \ {0} /\ TipBps \in 0..Bps /\ BridgeBps \in 0..Bps
  /\ Eth \in Assets
  BY IncomeAssumption

\* The fields of an asset's book.
LEMMA BookFields ==
  ASSUME NEW book \in Book
  PROVE  /\ book.received \in Nat /\ book.paid \in Nat /\ book.pendingStream \in Nat
         /\ book.streamEnd \in Nat /\ book.lastRelease \in Nat /\ book.index \in Nat
         /\ book.carry \in Nat
  BY DEF Book

\* Of a weighted amount, a part of the time is at most a part of the whole.
LEMMA PartOfWhole ==
  ASSUME NEW n \in Nat, NEW d \in Nat \ {0}, NEW e \in Nat, e <= d
  PROVE  (n * e) \div d \in Nat /\ (n * e) \div d <= n
  <1>1. n * e \in Nat /\ n * d \in Nat /\ n * e <= n * d
    OBVIOUS
  <1> DEFINE q == (n * e) \div d
  <1>2. q \in Nat /\ q * d <= n * e
    BY <1>1, DivisionBounds
  <1> HIDE DEF q
  <1>3. q * d <= n * d
    BY <1>1, <1>2
  <1>4. ~(q > n)
    <2>1. ASSUME q > n PROVE FALSE
      <3>1. (n + 1) * d <= q * d
        BY <1>2, <2>1, ProductMonotone
      <3>2. (n + 1) * d = n * d + d
        OBVIOUS
      <3>3. q * d \in Nat
        BY <1>2
      <3> QED
        BY <1>1, <1>3, <3>1, <3>2, <3>3
    <2> QED
      BY <2>1
  <1> QED
    BY <1>2, <1>4 DEF q

\* What is due is a part of what streams.
LEMMA DueBounds ==
  ASSUME now \in Nat, NEW book \in Book
  PROVE  Due(book) \in Nat /\ Due(book) <= book.pendingStream
  <1>1. book.pendingStream \in Nat /\ book.streamEnd \in Nat /\ book.lastRelease \in Nat
    BY BookFields
  <1>2. CASE now >= book.streamEnd \/ book.streamEnd <= book.lastRelease
    BY <1>1, <1>2 DEF Due
  <1>3. CASE now < book.streamEnd /\ book.lastRelease < book.streamEnd /\ now <= book.lastRelease
    BY <1>1, <1>3 DEF Due
  <1>4. CASE now < book.streamEnd /\ book.lastRelease < now
    <2> DEFINE e == now - book.lastRelease
               d == book.streamEnd - book.lastRelease
    <2>1. e \in Nat /\ d \in Nat \ {0} /\ e <= d
      BY <1>1, <1>4
    <2>2. Due(book) = (book.pendingStream * e) \div d
      BY <1>1, <1>4 DEF Due
    <2> HIDE DEF e, d
    <2> QED
      BY <1>1, <2>1, <2>2, PartOfWhole
  <1> QED
    BY <1>1, <1>2, <1>3, <1>4

\* A release moves what is due into the index and the carry, exactly.
LEMMA ReleaseEffect ==
  ASSUME now \in Nat, EarningSupply \in Nat, NEW book \in Book
  PROVE  LET r == Released(book)
         IN  /\ r \in Book
             /\ r.received = book.received /\ r.paid = book.paid /\ r.streamEnd = book.streamEnd
             /\ r.pendingStream <= book.pendingStream /\ book.index <= r.index
             /\ EarningSupply * (r.index - book.index) + r.carry
                  = (book.pendingStream - r.pendingStream) * Scale + book.carry
             /\ EarningSupply = 0 => r = book
  <1> DEFINE due == Due(book)
             total == due * Scale + book.carry
  <1>1. due \in Nat /\ due <= book.pendingStream
    BY DueBounds
  <1>2. /\ book.received \in Nat /\ book.paid \in Nat /\ book.pendingStream \in Nat
        /\ book.streamEnd \in Nat /\ book.lastRelease \in Nat /\ book.index \in Nat
        /\ book.carry \in Nat /\ Scale \in Nat
    BY BookFields, ConstantsType
  <1>3. CASE due = 0 \/ EarningSupply = 0
    <2>1. Released(book) = book
      BY <1>3 DEF Released
    <2>2. EarningSupply * (book.index - book.index) = 0 /\ (book.pendingStream - book.pendingStream) * Scale = 0
      BY <1>2
    <2> QED
      BY <1>2, <2>1, <2>2
  <1>4. CASE due # 0 /\ EarningSupply # 0
    <2> DEFINE gain == total \div EarningSupply
               rest == total % EarningSupply
               last == Lesser(now, book.streamEnd)
               r == [book EXCEPT !.pendingStream = book.pendingStream - due,
                                 !.index = book.index + gain, !.carry = rest, !.lastRelease = last]
    <2>1. total \in Nat
      BY <1>1, <1>2
    <2>2. gain \in Nat /\ rest \in Nat /\ EarningSupply * gain + rest = total
      <3> HIDE DEF total
      <3> QED
        BY <1>4, <2>1, DivisionRemainder
    <2>3. last \in Nat
      BY <1>2 DEF Lesser
    <2>4. Released(book) = r
      BY <1>4 DEF Released
    <2> HIDE DEF gain, rest, last
    <2>5. book.pendingStream - due \in Nat /\ book.index + gain \in Nat
      BY <1>1, <1>2, <2>2
    <2>6. /\ r \in Book /\ r.pendingStream = book.pendingStream - due /\ r.index = book.index + gain
          /\ r.carry = rest /\ r.received = book.received /\ r.paid = book.paid
          /\ r.streamEnd = book.streamEnd
      BY <2>2, <2>3, <2>5 DEF Book
    <2> HIDE DEF r, due
    <2>7. r.index - book.index = gain /\ book.pendingStream - r.pendingStream = due
      BY <1>1, <1>2, <2>2, <2>6
    <2> QED
      BY <1>1, <1>2, <1>4, <2>2, <2>4, <2>5, <2>6, <2>7
  <1> QED
    BY <1>3, <1>4

\* Once released, nothing is due until time passes.
LEMMA ReleasedIsFresh ==
  ASSUME now \in Nat, EarningSupply \in Nat \ {0}, NEW book \in Book
  PROVE  Due(Released(book)) = 0
  <1> DEFINE due == Due(book)
             r == Released(book)
  <1>1. due \in Nat /\ due <= book.pendingStream
    BY DueBounds
  <1>2. /\ book.pendingStream \in Nat /\ book.streamEnd \in Nat /\ book.lastRelease \in Nat
    BY BookFields
  <1>3. r \in Book
    BY ReleaseEffect
  <1>4. CASE due = 0
    BY <1>4 DEF Released
  <1>5. CASE due # 0
    <2>1. /\ r.pendingStream = book.pendingStream - due /\ r.streamEnd = book.streamEnd
          /\ r.lastRelease = Lesser(now, book.streamEnd)
      BY <1>5 DEF Released, Book
    <2> SUFFICES Due(r) = 0
      OBVIOUS
    <2> HIDE DEF r
    <2>2. CASE now >= book.streamEnd \/ book.streamEnd <= book.lastRelease
      <3>1. due = book.pendingStream
        BY <2>2 DEF Due
      <3>2. r.pendingStream = 0
        BY <1>2, <2>1, <3>1
      <3> QED
        BY <1>3, <3>2, DueBounds
    <2>3. CASE now < book.streamEnd
      BY <1>2, <2>1, <2>3 DEF Due, Lesser
    <2> QED
      BY <1>2, <2>2, <2>3
  <1> QED
    BY <1>1, <1>4, <1>5

-----------------------------------------------------------------------------
(* What the accounts are owed together.                                      *)

TotalAt(a, index) == SumFunctionOnSet([h \in Accounts |-> CreditAt(h, a, index)], Accounts)

\* A credit is a natural number at every index from the holder's own on.
LEMMA CreditType ==
  ASSUME SharesTypeOK, IncomeTypeOK, NEW h \in Accounts, NEW a \in Assets, NEW index \in Int
  PROVE  /\ balance[h] \in Nat /\ holders[h][a].index \in Nat /\ holders[h][a].creditScaled \in Nat
         /\ CreditAt(h, a, index) \in Int
         /\ holders[h][a].index <= index => CreditAt(h, a, index) \in Nat
  <1>1. balance[h] \in Nat /\ holders[h][a] \in Credit
    BY DEF SharesTypeOK, IncomeTypeOK
  <1>2. holders[h][a].index \in Nat /\ holders[h][a].creditScaled \in Nat
    BY <1>1 DEF Credit
  <1> DEFINE b == balance[h]
             c == holders[h][a].creditScaled
             i == holders[h][a].index
  <1>3. CreditAt(h, a, index) = c + (IF Earns(h) THEN b * (index - i) ELSE 0)
    BY DEF CreditAt
  <1>4. b \in Nat /\ c \in Nat /\ i \in Nat
    BY <1>1, <1>2
  <1> HIDE DEF b, c, i
  <1>5. b * (index - i) \in Int /\ (i <= index => b * (index - i) \in Nat)
    BY <1>4
  <1> QED
    BY <1>3, <1>4, <1>5 DEF b, c, i

\* A gain of the index is credited to the shares that earn, and they are the supply.
LEMMA TotalGrows ==
  ASSUME SharesTypeOK, SupplyOK, IncomeTypeOK, NEW a \in Assets, NEW index \in Int, NEW gain \in Int
  PROVE  TotalAt(a, index + gain) = TotalAt(a, index) + EarningSupply * gain
  <1> DEFINE f == [h \in Accounts |-> CreditAt(h, a, index)]
             after == [h \in Accounts |-> CreditAt(h, a, index + gain)]
             g == [h \in Accounts |-> IF Earns(h) THEN balance[h] * gain ELSE 0]
             Idle == Accounts \ Earners
  <1>1. /\ IsFiniteSet(Accounts) /\ IsFiniteSet(Earners) /\ IsFiniteSet(Idle)
        /\ Earners \cup Idle = Accounts /\ Earners \cap Idle = {}
    BY EarnersFinite, FS_Subset
  <1>2. ASSUME NEW h \in Accounts
        PROVE  f[h] \in Int /\ g[h] \in Int /\ after[h] = f[h] + g[h]
    <2> DEFINE b == balance[h]
               c == holders[h][a].creditScaled
               i == holders[h][a].index
    <2>1. b \in Nat /\ c \in Nat /\ i \in Nat
      BY CreditType
    <2>2. /\ f[h] = c + (IF Earns(h) THEN b * (index - i) ELSE 0)
          /\ after[h] = c + (IF Earns(h) THEN b * ((index + gain) - i) ELSE 0)
          /\ g[h] = IF Earns(h) THEN b * gain ELSE 0
      BY DEF CreditAt
    <2> HIDE DEF f, g, after, b, c, i
    <2>3. b * ((index + gain) - i) = b * (index - i) + b * gain
      BY <2>1
    <2>4. b * (index - i) \in Int /\ b * gain \in Int
      BY <2>1
    <2> QED
      BY <2>1, <2>2, <2>3, <2>4
  <1>3. \A h \in Earners : g[h] = balance[h] * gain /\ balance[h] \in Int
    BY DEF Earners, Earns, SharesTypeOK
  <1>4. \A h \in Idle : g[h] = 0
    BY DEF Earners, Earns
  <1>5. TotalAt(a, index) = SumFunctionOnSet(f, Accounts) /\ TotalAt(a, index + gain) = SumFunctionOnSet(after, Accounts)
    BY DEF TotalAt
  <1> HIDE DEF f, g, after, Idle
  <1>6. SumFunctionOnSet(after, Accounts) = SumFunctionOnSet(f, Accounts) + SumFunctionOnSet(g, Accounts)
    BY <1>1, <1>2, SumPointwise
  <1>7. SumFunctionOnSet(g, Earners) = EarningSupply * gain
    <2>1. SumFunctionOnSet(g, Earners) = SumFunctionOnSet(balance, Earners) * gain
      BY <1>1, <1>3, SumScale
    <2> QED
      BY <2>1 DEF SupplyOK
  <1>8. SumFunctionOnSet(g, Idle) = 0
    BY <1>1, <1>4, SumZero
  <1>9. SumFunctionOnSet(g, Accounts) = SumFunctionOnSet(g, Earners) + SumFunctionOnSet(g, Idle)
    <2>1. \A h \in Earners \cup Idle : g[h] \in Int
      BY <1>1, <1>2
    <2>2. SumFunctionOnSet(g, Earners \cup Idle) = SumFunctionOnSet(g, Earners) + SumFunctionOnSet(g, Idle)
      BY <1>1, <2>1, SumUnion
    <2> QED
      BY <1>1, <2>2
  <1>10. SumFunctionOnSet(g, Accounts) \in Int /\ SumFunctionOnSet(g, Earners) \in Int
    <2>1. \A h \in Accounts : g[h] \in Int
      BY <1>2
    <2>2. \A h \in Earners : g[h] \in Int
      BY <2>1, <1>1
    <2> QED
      BY <1>1, <2>1, <2>2, SumType
  <1> QED
    BY <1>5, <1>6, <1>7, <1>8, <1>9, <1>10

\* The sum of all credits is a number.
LEMMA TotalType ==
  ASSUME SharesTypeOK, IncomeTypeOK, NEW a \in Assets, NEW index \in Int
  PROVE  TotalAt(a, index) \in Int
  <1> DEFINE f == [h \in Accounts |-> CreditAt(h, a, index)]
  <1>1. \A h \in Accounts : f[h] \in Int
    BY CreditType
  <1> HIDE DEF f
  <1>2. SumFunctionOnSet(f, Accounts) \in Int
    BY <1>1, EarnersFinite, SumType
  <1> QED
    BY <1>2 DEF TotalAt, f

\* What an account has is its credit at the book's index, and what it can claim its
\* credit at the released one.
LEMMA CreditIsCreditAt ==
  ASSUME NEW h \in Accounts, NEW a \in Assets
  PROVE  /\ CreditNow(h, a) = CreditAt(h, a, books[a].index)
         /\ ClaimableScaled(h, a) = CreditAt(h, a, Released(books[a]).index)
  BY DEF CreditNow, ClaimableScaled, CreditAt, Settled

\* What a state conserves, said of what is owed together.
LEMMA ConservedAsTotal ==
  ASSUME SharesTypeOK, IncomeTypeOK, NEW a \in Assets
  PROVE  Conserved(a) <=>
           TotalAt(a, books[a].index) + (books[a].paid * Scale + books[a].carry)
             = (books[a].received - books[a].pendingStream) * Scale
  <1>1. [h \in Accounts |-> CreditNow(h, a)] = [h \in Accounts |-> CreditAt(h, a, books[a].index)]
    BY CreditIsCreditAt
  <1> DEFINE total == TotalAt(a, books[a].index)
             paid == books[a].paid * Scale
             counted == (books[a].received - books[a].pendingStream) * Scale
  <1>2. Conserved(a) <=> total + paid + books[a].carry = counted
    BY <1>1 DEF Conserved, TotalAt
  <1>3. books[a] \in Book /\ Scale \in Nat
    BY ConstantsType DEF IncomeTypeOK
  <1>4. books[a].carry \in Nat /\ paid \in Int /\ total \in Int
    BY <1>3, BookFields, TotalType
  <1> HIDE DEF total, paid, counted
  <1>5. Conserved(a) <=> total + (paid + books[a].carry) = counted
    BY <1>2, <1>4
  <1> QED
    BY <1>5 DEF total, paid, counted

\* The books after a release are as balanced as before it, with the accounts owed at its
\* index.
LEMMA ReleaseConserves ==
  ASSUME SharesTypeOK, EarningSupply \in Nat, SupplyOK, IncomeTypeOK, NEW a \in Assets, Conserved(a),
         NEW r \in {books[a], Released(books[a])}
  PROVE  TotalAt(a, r.index) + (r.paid * Scale + r.carry) = (r.received - r.pendingStream) * Scale
  <1> DEFINE book == books[a]
             total == TotalAt(a, book.index)
             gain == r.index - book.index
  <1>1. now \in Nat /\ book \in Book
    BY DEF IncomeTypeOK
  <1>2. /\ r \in Book /\ r.received = book.received /\ r.paid = book.paid
        /\ EarningSupply * gain + r.carry = (book.pendingStream - r.pendingStream) * Scale + book.carry
    <2>1. CASE r = Released(book)
      BY <1>1, <2>1, ReleaseEffect
    <2>2. CASE r = book
      <3>1. /\ book.index \in Nat /\ book.pendingStream \in Nat /\ book.carry \in Nat /\ Scale \in Nat
        BY <1>1, BookFields, ConstantsType
      <3>2. EarningSupply * (book.index - book.index) = 0 /\ (book.pendingStream - book.pendingStream) * Scale = 0
        BY <3>1
      <3> QED
        BY <1>1, <2>2, <3>1, <3>2
    <2> QED
      BY <2>1, <2>2
  <1>3. /\ book.received \in Nat /\ book.paid \in Nat /\ book.pendingStream \in Nat /\ book.index \in Nat
        /\ book.carry \in Nat /\ r.pendingStream \in Nat /\ r.index \in Nat /\ r.carry \in Nat
        /\ Scale \in Nat
    BY <1>1, <1>2, BookFields, ConstantsType
  <1>4. total + (book.paid * Scale + book.carry) = (book.received - book.pendingStream) * Scale
    BY ConservedAsTotal
  <1>5. gain \in Int /\ r.index = book.index + gain
    BY <1>3
  <1>6. TotalAt(a, r.index) = total + EarningSupply * gain
    <2>1. TotalAt(a, book.index + gain) = TotalAt(a, book.index) + EarningSupply * gain
      <3> HIDE DEF gain, book
      <3> QED
        BY <1>3, <1>5, TotalGrows
    <2> HIDE DEF gain
    <2> QED
      BY <1>5, <2>1
  <1>7. total \in Int
    <2> HIDE DEF book
    <2> QED
      BY <1>3, TotalType
  <1>8. (book.received - r.pendingStream) * Scale
          = (book.received - book.pendingStream) * Scale + (book.pendingStream - r.pendingStream) * Scale
    BY <1>3
  <1> DEFINE s1 == book.paid * Scale
             s2 == (book.received - book.pendingStream) * Scale
             s3 == (book.pendingStream - r.pendingStream) * Scale
             s4 == EarningSupply * gain
  <1>9. s1 \in Int /\ s2 \in Int /\ s3 \in Int /\ s4 \in Int
    BY <1>3, <1>5
  <1>10. total + s4 + (s1 + r.carry) = s2 + s3
    <2>1. s4 + r.carry = s3 + book.carry /\ total + (s1 + book.carry) = s2
      BY <1>2, <1>4
    <2> DEFINE c1 == book.carry
               c2 == r.carry
    <2>2. c1 \in Int /\ c2 \in Int
      BY <1>3
    <2>3. s4 + c2 = s3 + c1
      BY <2>1
    <2>4. total + (s1 + c1) = s2
      BY <2>1
    <2> SUFFICES total + s4 + (s1 + c2) = s2 + s3
      OBVIOUS
    <2> HIDE DEF s1, s2, s3, s4, total, book, gain, c1, c2
    <2>5. s4 = s3 + c1 - c2
      BY <1>9, <2>2, <2>3
    <2> QED
      BY <1>7, <1>9, <2>2, <2>4, <2>5
  <1> QED
    BY <1>2, <1>6, <1>8, <1>10

-----------------------------------------------------------------------------
(* What a step does to the books of one asset.                               *)

\* From a book, as it is or as it is released, a step recognizes what came and pays a
\* payee; everybody's credit at that book's index stands but for what is paid.
Effect(a, r, payee, amount) ==
  /\ books'[a].carry = r.carry
  /\ books'[a].received - books'[a].pendingStream = r.received - r.pendingStream
  /\ books'[a].paid = r.paid + amount
  /\ \A h \in Accounts :
       holders'[h][a].creditScaled
           + (IF Earns(h) THEN balance'[h] * (books'[a].index - holders'[h][a].index) ELSE 0)
         = CreditAt(h, a, r.index) - (IF h = payee THEN amount * Scale ELSE 0)

\* Such a step keeps the books balanced.
LEMMA EffectConserves ==
  ASSUME SharesTypeOK, EarningSupply \in Nat, SupplyOK, IncomeTypeOK, NEW a \in Assets, Conserved(a),
         NEW r \in {books[a], Released(books[a])}, NEW payee, NEW amount \in Nat,
         payee \in Accounts \/ amount = 0, Effect(a, r, payee, amount), books'[a] \in Book
  PROVE  Conserved(a)'
  <1> DEFINE f == [h \in Accounts |-> CreditAt(h, a, r.index)]
             g == [h \in Accounts |-> CreditAt(h, a, r.index) - (IF h = payee THEN amount * Scale ELSE 0)]
             spent == amount * Scale
  <1>1. r \in Book
    BY ReleaseEffect DEF IncomeTypeOK
  <1>2. /\ r.received \in Nat /\ r.pendingStream \in Nat /\ r.paid \in Nat /\ r.carry \in Nat /\ r.index \in Nat
        /\ spent \in Int /\ Scale \in Nat
    BY <1>1, BookFields, ConstantsType
  <1>3. /\ \A h \in Accounts : f[h] \in Int /\ g[h] \in Int
        /\ payee \in Accounts => g[payee] = f[payee] - spent
        /\ \A h \in Accounts \ {payee} : f[h] = g[h]
    <2>1. \A h \in Accounts : CreditAt(h, a, r.index) \in Int
      BY <1>2, CreditType
    <2> HIDE DEF spent
    <2> QED
      BY <1>2, <2>1 DEF spent
  <1>4. [h \in Accounts |-> CreditNow(h, a)]' = g
    BY DEF CreditNow, Settled, Effect
  <1>5. TotalAt(a, r.index) = SumFunctionOnSet(f, Accounts)
    BY DEF TotalAt
  <1> HIDE DEF f, g
  <1>7. SumFunctionOnSet(f, Accounts) \in Int
    BY <1>3, EarnersFinite, SumType
  <1>6. SumFunctionOnSet(g, Accounts) = SumFunctionOnSet(f, Accounts) - spent
    <2>1. CASE payee \in Accounts
      <3>1. SumFunctionOnSet(g, Accounts) = SumFunctionOnSet(f, Accounts) + (g[payee] - f[payee])
        BY <1>3, <2>1, EarnersFinite, SumChange
      <3>2. f[payee] \in Int /\ g[payee] \in Int /\ g[payee] = f[payee] - spent
        BY <1>3, <2>1
      <3> HIDE DEF spent
      <3> QED
        BY <1>2, <1>7, <3>1, <3>2
    <2>2. CASE payee \notin Accounts
      <3>1. spent = 0
        BY <1>2, <2>2
      <3>2. SumFunctionOnSet(f, Accounts) = SumFunctionOnSet(g, Accounts)
        BY <1>3, <2>2, EarnersFinite, SumSame
      <3> HIDE DEF spent
      <3> QED
        BY <1>7, <3>1, <3>2
    <2> QED
      BY <2>1, <2>2
  <1> DEFINE total == TotalAt(a, r.index)
             counted == (r.received - r.pendingStream) * Scale
             paid == r.paid * Scale
  <1>8. total + (paid + r.carry) = counted
    BY ReleaseConserves
  <1>9. total \in Int /\ counted \in Int /\ paid \in Int
    BY <1>2, <1>5, <1>7
  <1>10. SumFunctionOnSet(g, Accounts) = total - spent
    <2> HIDE DEF spent, total
    <2> QED
      BY <1>5, <1>6 DEF total
  <1>11. (r.paid + amount) * Scale = paid + spent
    BY <1>2
  <1>12. (total - spent) + (paid + spent) + r.carry = counted
    <2> HIDE DEF spent, total, counted, paid
    <2> QED
      BY <1>2, <1>8, <1>9
  <1>13. /\ books'[a].carry = r.carry /\ books'[a].paid * Scale = paid + spent
         /\ (books'[a].received - books'[a].pendingStream) * Scale = counted
    BY <1>11 DEF Effect
  <1>14. SumFunctionOnSet([h \in Accounts |-> CreditNow(h, a)]', Accounts) + books'[a].paid * Scale + books'[a].carry
           = (books'[a].received - books'[a].pendingStream) * Scale
    <2> HIDE DEF spent, total, counted, paid
    <2> QED
      BY <1>4, <1>10, <1>12, <1>13
  <1> QED
    BY <1>14 DEF Conserved

\* An asset the step leaves alone.
LEMMA UntouchedEffect ==
  ASSUME SharesTypeOK, IncomeTypeOK, NEW a \in Assets, NEW payee,
         books'[a] = books[a], UNCHANGED balance, \A h \in Accounts : holders'[h][a] = holders[h][a]
  PROVE  Effect(a, books[a], payee, 0)
  <1>1. books[a] \in Book /\ Scale \in Nat
    BY ConstantsType DEF IncomeTypeOK
  <1>2. books[a].paid \in Nat /\ books[a].index \in Nat /\ 0 * Scale = 0
    BY <1>1, BookFields
  <1>3. \A h \in Accounts : CreditAt(h, a, books[a].index) \in Int
    BY <1>2, CreditType
  <1>4. ASSUME NEW h \in Accounts
        PROVE  holders'[h][a].creditScaled
                   + (IF Earns(h) THEN balance'[h] * (books'[a].index - holders'[h][a].index) ELSE 0)
                 = CreditAt(h, a, books[a].index) - (IF h = payee THEN 0 * Scale ELSE 0)
    <2>1. holders'[h][a].creditScaled
            + (IF Earns(h) THEN balance'[h] * (books'[a].index - holders'[h][a].index) ELSE 0)
          = CreditAt(h, a, books[a].index)
      BY DEF CreditAt
    <2>2. CreditAt(h, a, books[a].index) \in Int
      BY <1>3
    <2> QED
      BY <1>2, <2>1, <2>2
  <1> QED
    BY <1>2, <1>4 DEF Effect

\* What else is asked of the books follows from the step's own bounds.
LEMMA EffectKeeps ==
  ASSUME SharesTypeOK, EarningSupply \in Nat, SupplyOK, IncomeOK, NEW a \in Assets,
         NEW r \in {books[a], Released(books[a])}, NEW payee, NEW amount \in Nat,
         payee \in Accounts \/ amount = 0, Effect(a, r, payee, amount),
         books'[a] \in Book, books'[a].received <= MaxReceived,
         books'[a].streamEnd <= now' + StreamSeconds,
         \A h \in Accounts : holders'[h][a].index <= books'[a].index,
         a \notin Slashable => books'[a].received - books'[a].paid <= cash'[a],
         ~live' => books'[a].index = 0
  PROVE  BooksOK(a)'
  <1>1. Conserved(a)'
    <2>1. IncomeTypeOK /\ Conserved(a)
      BY DEF IncomeOK, BooksOK
    <2> QED
      BY <2>1, EffectConserves
  <1> QED
    BY <1>1 DEF BooksOK

\* What a state's books are, at hand for the steps.
LEMMA BooksFacts ==
  ASSUME EarningSupply \in Nat, IncomeOK, NEW a \in Assets
  PROVE  LET book == books[a]
             r == Released(book)
         IN  /\ now \in Nat /\ book \in Book /\ r \in Book /\ cash[a] \in Nat
             /\ r.received = book.received /\ r.paid = book.paid /\ r.streamEnd = book.streamEnd
             /\ book.index <= r.index
             /\ book.received <= MaxReceived /\ book.streamEnd <= now + StreamSeconds
             /\ \A h \in Accounts :
                  holders[h][a] \in Credit /\ holders[h][a].index <= book.index
             /\ a \notin Slashable => book.received - book.paid <= cash[a]
             /\ ~live => book.index = 0
  <1>1. now \in Nat /\ books[a] \in Book /\ cash[a] \in Nat /\ \A h \in Accounts : holders[h][a] \in Credit
    BY DEF IncomeOK, IncomeTypeOK
  <1>2. BooksOK(a)
    BY DEF IncomeOK
  <1>3. LET r == Released(books[a])
        IN  /\ r \in Book /\ r.received = books[a].received /\ r.paid = books[a].paid
            /\ r.streamEnd = books[a].streamEnd /\ books[a].index <= r.index
    BY <1>1, ReleaseEffect
  <1> QED
    BY <1>1, <1>2, <1>3 DEF BooksOK

\* A step that touches no book, holder or balance, and no cash but by more of it or by
\* what a slashable asset loses.
LEMMA QuietKeeps ==
  ASSUME SharesTypeOK, SupplyOK, EarningSupply \in Nat, IncomeOK, UNCHANGED <<books, holders, balance, live>>,
         now' \in Nat, now <= now', cash' \in [Assets -> Nat],
         \A a \in Assets \ Slashable : cash[a] <= cash'[a]
  PROVE  IncomeOK'
  <1>1. IncomeTypeOK'
    BY DEF IncomeOK, IncomeTypeOK
  <1>2. ASSUME NEW a \in Assets
        PROVE  BooksOK(a)'
    <2>1. Effect(a, books[a], {}, 0)
      BY UntouchedEffect DEF IncomeOK
    <2>2. /\ now \in Nat /\ books[a] \in Book /\ cash[a] \in Nat
          /\ books[a].received <= MaxReceived /\ books[a].streamEnd <= now + StreamSeconds
          /\ \A h \in Accounts : holders[h][a].index <= books[a].index
          /\ a \notin Slashable => books[a].received - books[a].paid <= cash[a]
          /\ ~live => books[a].index = 0
      BY BooksFacts
    <2>3. books[a].streamEnd \in Nat /\ books[a].received \in Nat /\ books[a].paid \in Nat /\ StreamSeconds \in Nat
      BY <2>2, BookFields, ConstantsType
    <2>4. books'[a].streamEnd <= now' + StreamSeconds
      BY <2>2, <2>3
    <2>5. cash'[a] \in Nat
      OBVIOUS
    <2>6. a \notin Slashable => books'[a].received - books'[a].paid <= cash'[a]
      BY <2>2, <2>3, <2>5
    <2> QED
      BY <2>1, <2>2, <2>4, <2>6, EffectKeeps
  <1> QED
    BY <1>1, <1>2 DEF IncomeOK

-----------------------------------------------------------------------------
(* The steps.                                                                *)

\* What each step leaves of the invariants of the shares.
LEMMA SharesFacts ==
  ASSUME SharesInvariant, SupplyOK
  PROVE  SharesTypeOK /\ EarningSupply \in Nat /\ balance \in [Accounts -> Nat]
         /\ (~live => EarningSupply = 0)
  BY SupplyType DEF SharesInvariant, SharesTypeOK

\* Nothing is due of a book with a released one's stream.
LEMMA StillNothingDue ==
  ASSUME now \in Nat, EarningSupply \in Nat \ {0}, now' = now, NEW a, books[a] \in Book,
         LET r == Released(books[a])
         IN  /\ books'[a].pendingStream = r.pendingStream /\ books'[a].streamEnd = r.streamEnd
             /\ books'[a].lastRelease = r.lastRelease
  PROVE  Due(books[a])' = 0
  <1>1. Due(Released(books[a])) = 0
    BY ReleasedIsFresh
  <1> QED
    BY <1>1 DEF Due

\* Poked, every stream is released and nobody's credit moves but with the index.
LEMMA PokeBooks ==
  ASSUME SharesInvariant, SupplyOK, IncomeOK, Poke
  PROVE  /\ IncomeOK'
         /\ \A a \in Assets : /\ Effect(a, Released(books[a]), {}, 0)
                              /\ EarningSupply > 0 => Due(books[a])' = 0
  <1>1. /\ books' = [a \in Assets |-> Released(books[a])]
        /\ now' = now /\ holders' = holders /\ cash' = cash /\ balance' = balance /\ live' = live
    BY DEF Poke, sharesVars
  <1>2. SharesTypeOK /\ EarningSupply \in Nat /\ (~live => EarningSupply = 0)
    BY SharesFacts
  <1>3. ASSUME NEW a \in Assets
        PROVE  /\ Effect(a, Released(books[a]), {}, 0) /\ BooksOK(a)' /\ books'[a] \in Book
               /\ EarningSupply > 0 => Due(books[a])' = 0
    <2> DEFINE r == Released(books[a])
    <2>1. /\ now \in Nat /\ books[a] \in Book /\ r \in Book /\ cash[a] \in Nat
          /\ r.received = books[a].received /\ r.paid = books[a].paid /\ r.streamEnd = books[a].streamEnd
          /\ books[a].index <= r.index
          /\ books[a].received <= MaxReceived /\ books[a].streamEnd <= now + StreamSeconds
          /\ \A h \in Accounts : holders[h][a] \in Credit /\ holders[h][a].index <= books[a].index
          /\ a \notin Slashable => books[a].received - books[a].paid <= cash[a]
          /\ ~live => books[a].index = 0
      BY <1>2, BooksFacts
    <2>2. books'[a] = r
      BY <1>1
    <2>3. ~live => r.index = 0
      BY <1>2, <2>1, ReleaseEffect
    <2> HIDE DEF r
    <2>4. r.paid \in Nat /\ r.index \in Nat /\ 0 * Scale = 0
      BY <2>1, BookFields, ConstantsType
    <2>5. \A h \in Accounts : CreditAt(h, a, r.index) \in Int
      BY <1>2, <2>4, CreditType DEF IncomeOK
    <2>6. Effect(a, r, {}, 0)
      BY <1>1, <2>2, <2>4, <2>5 DEF Effect, CreditAt
    <2>7. \A h \in Accounts : holders'[h][a].index <= books'[a].index
      <3>1. \A h \in Accounts : holders[h][a].index \in Nat
        BY <2>1 DEF Credit
      <3>2. books[a].index \in Nat
        BY <2>1, BookFields
      <3> QED
        BY <1>1, <2>1, <2>2, <2>4, <3>1, <3>2
    <2>8. BooksOK(a)'
      <3>1. r \in {books[a], Released(books[a])}
        BY DEF r
      <3> QED
        BY <1>1, <1>2, <2>1, <2>2, <2>3, <2>6, <2>7, <3>1, EffectKeeps
    <2>9. EarningSupply > 0 => Due(books[a])' = 0
      BY <1>1, <1>2, <2>1, <2>2, StillNothingDue DEF r
    <2> QED
      BY <2>1, <2>2, <2>6, <2>8, <2>9 DEF r
  <1>4. IncomeTypeOK'
    BY <1>1, <1>3 DEF IncomeOK, IncomeTypeOK
  <1> QED
    BY <1>3, <1>4 DEF IncomeOK

\* Before shares move, both sides are settled at the released index with the balances
\* they had.
LEMMA TransferBooks ==
  ASSUME SharesInvariant, SupplyOK, IncomeOK, NEW from \in Accounts, NEW to \in Accounts, NEW value,
         Move(from, to, value), SettleBoth(from, to)
  PROVE  /\ IncomeOK'
         /\ \A a \in Assets : /\ Effect(a, Released(books[a]), {}, 0)
                              /\ EarningSupply > 0 => Due(books[a])' = 0
  <1>1. /\ books' = [a \in Assets |-> Released(books[a])]
        /\ now' = now /\ cash' = cash /\ live' = live
        /\ \A h \in Accounts : holders'[h] =
             IF h \in {from, to}
             THEN [a \in Assets |-> Settled(h, holders[h][a], books'[a].index)] ELSE holders[h]
        /\ holders' = [h \in Accounts |-> holders'[h]]
    BY DEF Move, SettleBoth
  <1>2. SharesTypeOK /\ EarningSupply \in Nat /\ (~live => EarningSupply = 0) /\ balance \in [Accounts -> Nat]
    BY SharesFacts
  <1>3. balance' \in [Accounts -> Nat]
    <2>1. SharesInvariant'
      BY MoveKeeps
    <2> QED
      BY <2>1 DEF SharesInvariant, SharesTypeOK
  <1>4. \A h \in Accounts \ {from, to} : balance'[h] = balance[h]
    <2>1. balance' = [a \in Accounts |-> balance[a] - (IF a = from THEN value ELSE 0) + (IF a = to THEN value ELSE 0)]
      BY DEF Move, SetBalances
    <2> QED
      BY <1>2, <2>1
  <1>5. ASSUME NEW a \in Assets
        PROVE  /\ Effect(a, Released(books[a]), {}, 0) /\ BooksOK(a)' /\ books'[a] \in Book
               /\ EarningSupply > 0 => Due(books[a])' = 0
               /\ \A h \in Accounts : holders'[h][a] \in Credit
    <2> DEFINE r == Released(books[a])
    <2>1. /\ now \in Nat /\ books[a] \in Book /\ r \in Book /\ cash[a] \in Nat
          /\ r.received = books[a].received /\ r.paid = books[a].paid /\ r.streamEnd = books[a].streamEnd
          /\ books[a].index <= r.index
          /\ books[a].received <= MaxReceived /\ books[a].streamEnd <= now + StreamSeconds
          /\ \A h \in Accounts : holders[h][a] \in Credit /\ holders[h][a].index <= books[a].index
          /\ a \notin Slashable => books[a].received - books[a].paid <= cash[a]
          /\ ~live => books[a].index = 0
      BY <1>2, BooksFacts
    <2>2. books'[a] = r
      BY <1>1
    <2>3. ~live => r.index = 0
      BY <1>2, <2>1, ReleaseEffect
    <2> HIDE DEF r
    <2>4. r.paid \in Nat /\ r.index \in Nat /\ books[a].index \in Nat /\ 0 * Scale = 0
      BY <2>1, BookFields, ConstantsType
    <2>5. ASSUME NEW h \in Accounts
          PROVE  /\ holders'[h][a] \in Credit /\ holders'[h][a].index <= r.index
                 /\ holders'[h][a].creditScaled
                      + (IF Earns(h) THEN balance'[h] * (r.index - holders'[h][a].index) ELSE 0)
                    = CreditAt(h, a, r.index)
                 /\ CreditAt(h, a, r.index) \in Nat
      <3>1. /\ holders[h][a].index \in Nat /\ holders[h][a].index <= r.index
        BY <2>1, <2>4 DEF Credit
      <3>2. CreditAt(h, a, r.index) \in Nat
        BY <1>2, <2>4, <3>1, CreditType DEF IncomeOK
      <3>3. CASE h \in {from, to}
        <4>1. holders'[h][a] = [index |-> r.index, creditScaled |-> CreditAt(h, a, r.index)]
          BY <1>1, <2>2, <3>3 DEF Settled, CreditAt
        <4>2. balance'[h] * (r.index - r.index) = 0
          BY <1>3, <2>4
        <4> QED
          BY <2>4, <3>2, <4>1, <4>2 DEF Credit
      <3>4. CASE h \notin {from, to}
        <4>1. holders'[h][a] = holders[h][a] /\ balance'[h] = balance[h]
          BY <1>1, <1>4, <3>4
        <4> QED
          BY <2>1, <3>1, <3>2, <4>1 DEF CreditAt
      <3> QED
        BY <3>3, <3>4
    <2>6. Effect(a, r, {}, 0)
      BY <2>2, <2>4, <2>5 DEF Effect
    <2>7. \A h \in Accounts : holders'[h][a].index <= books'[a].index
      BY <2>2, <2>5
    <2>8. BooksOK(a)'
      <3>1. r \in {books[a], Released(books[a])}
        BY DEF r
      <3> QED
        BY <1>1, <1>2, <2>1, <2>2, <2>3, <2>6, <2>7, <3>1, EffectKeeps
    <2>9. EarningSupply > 0 => Due(books[a])' = 0
      <3>1. now' = now
        BY <1>1
      <3>2. /\ books'[a].pendingStream = r.pendingStream /\ books'[a].streamEnd = r.streamEnd
            /\ books'[a].lastRelease = r.lastRelease
        BY <2>2
      <3> QED
        BY <1>2, <2>1, <3>1, <3>2, StillNothingDue DEF r
    <2> QED
      BY <2>1, <2>2, <2>5, <2>6, <2>8, <2>9 DEF r
  <1>6. IncomeTypeOK'
    <2>1. \A h \in Accounts : holders'[h] \in [Assets -> Credit]
      <3> SUFFICES ASSUME NEW h \in Accounts
                   PROVE  holders'[h] \in [Assets -> Credit]
        OBVIOUS
      <3>1. holders[h] \in [Assets -> Credit]
        BY DEF IncomeOK, IncomeTypeOK
      <3>2. CASE h \in {from, to}
        <4>1. holders'[h] = [a \in Assets |-> Settled(h, holders[h][a], books'[a].index)]
          BY <1>1, <3>2
        <4>2. \A a \in Assets : Settled(h, holders[h][a], books'[a].index) \in Credit
          BY <1>5, <4>1
        <4> QED
          BY <4>1, <4>2
      <3>3. CASE h \notin {from, to}
        BY <1>1, <3>1, <3>3
      <3> QED
        BY <3>2, <3>3
    <2>2. holders' \in [Accounts -> [Assets -> Credit]]
      BY <1>1, <2>1
    <2> QED
      BY <1>1, <1>5, <2>2 DEF IncomeOK, IncomeTypeOK
  <1> QED
    BY <1>5, <1>6 DEF IncomeOK

-----------------------------------------------------------------------------
(* What comes in.                                                            *)

\* A weighted mean lies between what it weighs, and outgrows the first by no more than
\* the weight of the second.
LEMMA WeightedMean ==
  ASSUME NEW r \in Nat \ {0}, NEW n \in Nat, NEW e \in Nat, NEW s \in Nat, e <= s
  PROVE  LET w == (r * e + n * s) \div (r + n)
         IN  w \in Nat /\ e <= w /\ w <= s /\ (w - e) * r <= n * s
  <1> DEFINE m == r + n
             t == r * e + n * s
             w == t \div m
  <1>1. m \in Nat \ {0} /\ t \in Nat /\ r * e \in Nat /\ n * s \in Nat
    OBVIOUS
  <1>2. w \in Nat /\ w * m <= t
    <2> HIDE DEF m, t
    <2> QED
      BY <1>1, DivisionBounds
  <1>3. e <= w
    <2>1. e * m = r * e + n * e
      OBVIOUS
    <2>2. n * e <= n * s
      OBVIOUS
    <2>3. n * e \in Nat
      OBVIOUS
    <2>4. e * m <= t
      BY <1>1, <2>1, <2>2, <2>3
    <2> HIDE DEF m, t
    <2> QED
      BY <1>1, <2>4, DivisionFits
  <1>4. w <= s
    <2>1. r * e <= r * s
      OBVIOUS
    <2>2. s * m = r * s + n * s
      OBVIOUS
    <2>3. r * s \in Nat
      OBVIOUS
    <2>4. t <= s * m
      BY <1>1, <2>1, <2>2, <2>3
    <2>5. s * m \in Nat /\ w * m \in Nat
      <3> HIDE DEF w, m
      <3> QED
        BY <1>1, <1>2
    <2>6. w * m <= s * m
      <3> HIDE DEF w, m, t
      <3> QED
        BY <1>1, <1>2, <2>4, <2>5
    <2>7. ~(s < w)
      <3> SUFFICES ASSUME s + 1 <= w
                   PROVE  FALSE
        BY <1>2
      <3>1. (s + 1) * m <= w * m
        <4> HIDE DEF w, m
        <4> QED
          BY <1>1, <1>2, ProductMonotone
      <3>2. (s + 1) * m = s * m + m
        <4> HIDE DEF m
        <4> QED
          BY <1>1
      <3> HIDE DEF w, m
      <3> QED
        BY <1>1, <2>5, <2>6, <3>1, <3>2
    <2> HIDE DEF w
    <2> QED
      BY <1>2, <2>7
  <1>5. (w - e) * r <= n * s
    <2> HIDE DEF w
    <2>1. w * m = w * r + w * n /\ (w - e) * r = w * r - r * e
      BY <1>2
    <2>2. w * r \in Nat /\ w * n \in Nat
      BY <1>2
    <2> HIDE DEF m
    <2> QED
      BY <1>1, <1>2, <2>1, <2>2
  <1> QED
    BY <1>2, <1>3, <1>4, <1>5

\* The window a recognition sets.
LEMMA WindowBounds ==
  ASSUME now \in Nat, NEW book \in Book, book.streamEnd <= now + StreamSeconds, NEW n \in Nat \ {0}
  PROVE  LET w == Window(book, n)
             left == book.streamEnd - now
         IN  /\ w \in Nat /\ 1 <= w /\ w <= StreamSeconds
             /\ book.pendingStream > 0 /\ now < book.streamEnd =>
                  left <= w /\ (w - left) * book.pendingStream <= n * StreamSeconds
  <1>1. /\ book.pendingStream \in Nat /\ book.streamEnd \in Nat /\ StreamSeconds \in Nat \ {0}
    BY BookFields, ConstantsType
  <1>2. CASE book.pendingStream # 0 /\ now < book.streamEnd
    <2> DEFINE left == book.streamEnd - now
               remaining == book.pendingStream
    <2>1. /\ left \in Nat /\ 1 <= left /\ left <= StreamSeconds /\ remaining \in Nat \ {0}
          /\ Window(book, n) = (remaining * left + n * StreamSeconds) \div (remaining + n)
      BY <1>1, <1>2 DEF Window
    <2> HIDE DEF left, remaining
    <2> DEFINE w == (remaining * left + n * StreamSeconds) \div (remaining + n)
    <2>2. w \in Nat /\ left <= w /\ w <= StreamSeconds /\ (w - left) * remaining <= n * StreamSeconds
      BY <1>1, <2>1, WeightedMean
    <2> HIDE DEF w
    <2>3. 1 <= w
      BY <2>1, <2>2
    <2>4. Window(book, n) = w
      BY <2>1 DEF w
    <2> QED
      BY <2>2, <2>3, <2>4 DEF left, remaining
  <1>3. CASE ~(book.pendingStream # 0 /\ now < book.streamEnd)
    <2>1. Window(book, n) = StreamSeconds
      BY <1>3 DEF Window
    <2> QED
      BY <1>1, <1>3, <2>1
  <1> QED
    BY <1>2, <1>3

\* Recognising an arrival restarts the stream with what is left of it, over the weighted
\* window.
LEMMA RecognizedBook ==
  ASSUME now \in Nat, EarningSupply \in Nat, NEW book \in Book,
         book.streamEnd <= now + StreamSeconds, NEW n \in Nat \ {0}
  PROVE  LET new == Recognized(book, n)
             r == Released(book)
         IN  /\ new \in Book /\ new.received = book.received + n
             /\ new.pendingStream = r.pendingStream + n
             /\ new.streamEnd = now + Window(r, n) /\ new.lastRelease = now
             /\ new.paid = book.paid /\ new.index = r.index /\ new.carry = r.carry
  <1> DEFINE r == Released(book)
             w == Window(r, n)
  <1>1. r \in Book /\ r.received = book.received /\ r.paid = book.paid /\ r.streamEnd = book.streamEnd
    BY ReleaseEffect
  <1>2. Recognized(book, n) = [r EXCEPT !.received = r.received + n, !.pendingStream = r.pendingStream + n,
                                        !.streamEnd = now + w, !.lastRelease = now]
    BY DEF Recognized
  <1> HIDE DEF r
  <1>3. w \in Nat
    BY <1>1, WindowBounds
  <1> HIDE DEF w
  <1>4. r.received + n \in Nat /\ r.pendingStream + n \in Nat /\ now + w \in Nat
    BY <1>1, <1>3, BookFields
  <1> DEFINE new == [r EXCEPT !.received = r.received + n, !.pendingStream = r.pendingStream + n,
                              !.streamEnd = now + w, !.lastRelease = now]
  <1>5. /\ new \in Book /\ new.received = r.received + n /\ new.pendingStream = r.pendingStream + n
        /\ new.streamEnd = now + w /\ new.lastRelease = now /\ new.paid = r.paid
        /\ new.index = r.index /\ new.carry = r.carry
    BY <1>1, <1>4 DEF Book
  <1> HIDE DEF new
  <1> QED
    BY <1>1, <1>2, <1>5 DEF new, r, w

\* A recognition of what came releases first, moves nobody's credit but with the index,
\* and leaves nothing due in its second.
LEMMA RecognitionKeeps ==
  ASSUME SharesInvariant, SupplyOK, IncomeOK, NEW a \in Assets, NEW n \in Nat \ {0},
         books'[a] = Recognized(books[a], n), books[a].received + n <= MaxReceived,
         a \notin Slashable => books[a].received + n <= books[a].paid + cash'[a],
         cash'[a] \in Nat, live, UNCHANGED <<now, holders, balance, live>>
  PROVE  /\ Effect(a, Released(books[a]), {}, 0) /\ BooksOK(a)' /\ books'[a] \in Book
         /\ Due(books[a])' = 0
  <1>1. SharesTypeOK /\ EarningSupply \in Nat
    BY SharesFacts
  <1> DEFINE r == Released(books[a])
             w == Window(r, n)
  <1>2. /\ now \in Nat /\ books[a] \in Book /\ r \in Book
        /\ r.received = books[a].received /\ r.paid = books[a].paid /\ r.streamEnd = books[a].streamEnd
        /\ books[a].index <= r.index /\ books[a].streamEnd <= now + StreamSeconds
        /\ \A h \in Accounts : holders[h][a] \in Credit /\ holders[h][a].index <= books[a].index
    BY <1>1, BooksFacts
  <1>3. /\ books'[a] \in Book /\ books'[a].received = books[a].received + n
        /\ books'[a].pendingStream = r.pendingStream + n
        /\ books'[a].streamEnd = now + w /\ books'[a].lastRelease = now
        /\ books'[a].paid = books[a].paid /\ books'[a].index = r.index /\ books'[a].carry = r.carry
    BY <1>1, <1>2, RecognizedBook
  <1>4. r \in {books[a], Released(books[a])}
    OBVIOUS
  <1> HIDE DEF r
  <1>5. w \in Nat /\ 1 <= w /\ w <= StreamSeconds
    BY <1>2, WindowBounds
  <1> HIDE DEF w
  <1>6. /\ r.paid \in Nat /\ r.index \in Nat /\ r.received \in Nat /\ r.pendingStream \in Nat
        /\ books[a].index \in Nat /\ books[a].paid \in Nat /\ 0 * Scale = 0 /\ StreamSeconds \in Nat
    BY <1>2, BookFields, ConstantsType
  <1>7. \A h \in Accounts : CreditAt(h, a, r.index) \in Int
    BY <1>1, <1>6, CreditType DEF IncomeOK
  <1>8. Effect(a, r, {}, 0)
    <2>1. \A h \in Accounts :
            holders'[h][a].creditScaled
                + (IF Earns(h) THEN balance'[h] * (books'[a].index - holders'[h][a].index) ELSE 0)
              = CreditAt(h, a, r.index) - (IF h = {} THEN 0 * Scale ELSE 0)
      BY <1>3, <1>6, <1>7 DEF CreditAt
    <2>2. /\ books'[a].carry = r.carry /\ books'[a].paid = r.paid + 0
          /\ books'[a].received - books'[a].pendingStream = r.received - r.pendingStream
      BY <1>2, <1>3, <1>6
    <2> QED
      BY <2>1, <2>2 DEF Effect
  <1>9. \A h \in Accounts : holders'[h][a].index <= books'[a].index
    <2>1. \A h \in Accounts : holders[h][a].index \in Nat
      BY <1>2 DEF Credit
    <2> QED
      BY <1>2, <1>3, <1>6, <2>1
  <1>10. /\ books'[a].received <= MaxReceived /\ books'[a].streamEnd <= now' + StreamSeconds
         /\ a \notin Slashable => books'[a].received - books'[a].paid <= cash'[a]
    BY <1>2, <1>3, <1>5, <1>6
  <1>11. BooksOK(a)'
    BY <1>1, <1>3, <1>4, <1>8, <1>9, <1>10, EffectKeeps
  <1>12. Due(books[a])' = 0
    BY <1>2, <1>3, <1>5 DEF Due
  <1> QED
    BY <1>3, <1>8, <1>11, <1>12 DEF r

\* An asset the step leaves alone, but for what its cash gains.
LEMMA UntouchedKeeps ==
  ASSUME SharesInvariant, SupplyOK, IncomeOK, NEW a \in Assets, books'[a] = books[a],
         \A h \in Accounts : holders'[h][a] = holders[h][a], UNCHANGED <<now, balance, live>>,
         cash'[a] \in Nat, a \notin Slashable => cash[a] <= cash'[a]
  PROVE  Effect(a, books[a], {}, 0) /\ BooksOK(a)' /\ books'[a] \in Book
  <1>1. SharesTypeOK /\ EarningSupply \in Nat /\ IncomeTypeOK
    BY SharesFacts DEF IncomeOK
  <1>2. /\ now \in Nat /\ books[a] \in Book /\ cash[a] \in Nat
        /\ books[a].received <= MaxReceived /\ books[a].streamEnd <= now + StreamSeconds
        /\ \A h \in Accounts : holders[h][a] \in Credit /\ holders[h][a].index <= books[a].index
        /\ a \notin Slashable => books[a].received - books[a].paid <= cash[a]
        /\ ~live => books[a].index = 0
    BY <1>1, BooksFacts
  <1>3. Effect(a, books[a], {}, 0)
    BY <1>1, UntouchedEffect
  <1>4. books[a].received \in Nat /\ books[a].paid \in Nat
    BY <1>2, BookFields
  <1>5. a \notin Slashable => books'[a].received - books'[a].paid <= cash'[a]
    BY <1>2, <1>4
  <1>6. BooksOK(a)'
    BY <1>1, <1>2, <1>3, <1>5, EffectKeeps
  <1> QED
    BY <1>2, <1>3, <1>6

\* What leaves of the ETH a pull brought is no more than it brought.
LEMMA SentBounds ==
  ASSUME NEW pulled, pulled[Eth] \in Nat
  PROVE  Sent(pulled) \in Nat /\ Sent(pulled) <= pulled[Eth]
  <1> DEFINE n == pulled[Eth]
             tip == IF n >= MinTipPull THEN (n * TipBps) \div Bps ELSE 0
             slice == ((n - tip) * BridgeBps) \div Bps
  <1>1. /\ Bps \in Nat \ {0} /\ TipBps \in Nat /\ TipBps <= Bps /\ BridgeBps \in Nat /\ BridgeBps <= Bps
    BY ConstantsType
  <1>2. tip \in Nat /\ tip <= n
    <2>1. (n * TipBps) \div Bps \in Nat /\ (n * TipBps) \div Bps <= n
      BY <1>1, PartOfWhole
    <2> QED
      BY <2>1
  <1>3. Sent(pulled) = tip + slice
    BY DEF Sent
  <1> HIDE DEF tip
  <1>4. n - tip \in Nat
    BY <1>2
  <1>5. slice \in Nat /\ slice <= n - tip
    BY <1>1, <1>4, PartOfWhole
  <1> HIDE DEF slice
  <1> QED
    BY <1>2, <1>3, <1>5

\* What is recognized fits the books and is held above what they know of.
LEMMA RecognizableBounds ==
  ASSUME EarningSupply \in Nat, IncomeOK, NEW a \in Assets, NEW held \in Nat
  PROVE  /\ Recognizable(a, held) \in Nat
         /\ books[a].received + Recognizable(a, held) <= MaxReceived
         /\ Recognizable(a, held) # 0 => books[a].received + Recognizable(a, held) <= books[a].paid + held
  <1>1. books[a] \in Book /\ books[a].received <= MaxReceived
    BY BooksFacts
  <1>2. books[a].received \in Nat /\ books[a].paid \in Nat /\ MaxReceived \in Nat
    BY <1>1, BookFields, ConstantsType
  <1> DEFINE received == books[a].received
             paid == books[a].paid
             accounted == received - paid
  <1>3. Recognizable(a, held)
          = IF held > accounted THEN Lesser(held - accounted, MaxReceived - received) ELSE 0
    BY DEF Recognizable
  <1>4. received \in Nat /\ paid \in Nat /\ received <= MaxReceived
    BY <1>1, <1>2
  <1> HIDE DEF received, paid
  <1> QED
    BY <1>2, <1>3, <1>4 DEF Lesser, received, paid

\* What the invariants of a step's assets add up to.
LEMMA IncomeParts ==
  ASSUME IncomeOK, now' \in Nat, cash' \in [Assets -> Nat], holders' \in [Accounts -> [Assets -> Credit]],
         books' = [a \in Assets |-> books'[a]], \A a \in Assets : BooksOK(a)' /\ books'[a] \in Book
  PROVE  IncomeOK'
  <1>1. books' \in [Assets -> Book]
    OBVIOUS
  <1> QED
    BY <1>1 DEF IncomeOK, IncomeTypeOK

\* Each asset of a step is left alone, or recognized in full.
TakesIn ==
  \A a \in Assets :
    \/ books'[a] = books[a] /\ \A h \in Accounts : holders'[h][a] = holders[h][a]
    \/ Effect(a, Released(books[a]), {}, 0) /\ Due(books[a])' = 0

\* A bonus is recognised in one asset's book and leaves every credit alone.
LEMMA DepositBooks ==
  ASSUME SharesInvariant, SupplyOK, IncomeOK, NEW asset \in Assets, NEW amount, DepositBonus(asset, amount)
  PROVE  IncomeOK' /\ TakesIn
  <1>1. /\ live /\ amount \in 1..(MaxReceived - books[asset].received)
        /\ cash' = [cash EXCEPT ![asset] = @ + amount]
        /\ books' = [books EXCEPT ![asset] = Recognized(books[asset], amount)]
        /\ now' = now /\ holders' = holders /\ balance' = balance /\ live' = live
    BY DEF DepositBonus, sharesVars
  <1>2. /\ now \in Nat /\ books \in [Assets -> Book] /\ cash \in [Assets -> Nat]
        /\ holders \in [Accounts -> [Assets -> Credit]] /\ EarningSupply \in Nat
    BY SharesFacts DEF IncomeOK, IncomeTypeOK
  <1>3. /\ books[asset].received \in Nat /\ books[asset].paid \in Nat /\ MaxReceived \in Nat
        /\ asset \notin Slashable => books[asset].received - books[asset].paid <= cash[asset]
    BY <1>2, BooksFacts, BookFields, ConstantsType
  <1>4. amount \in Nat \ {0} /\ books[asset].received + amount <= MaxReceived
    BY <1>1, <1>3
  <1>5. cash' \in [Assets -> Nat] /\ cash'[asset] = cash[asset] + amount
    BY <1>1, <1>2, <1>4
  <1>6. /\ Effect(asset, Released(books[asset]), {}, 0) /\ BooksOK(asset)' /\ books'[asset] \in Book
        /\ Due(books[asset])' = 0
    <2>1. books'[asset] = Recognized(books[asset], amount) /\ cash'[asset] \in Nat
      BY <1>1, <1>2, <1>5
    <2>2. asset \notin Slashable => books[asset].received + amount <= books[asset].paid + cash'[asset]
      <3>1. cash[asset] \in Nat
        BY <1>2
      <3> QED
        BY <1>3, <1>4, <1>5, <3>1
    <2> QED
      BY <1>1, <1>4, <2>1, <2>2, RecognitionKeeps
  <1>7. ASSUME NEW a \in Assets \ {asset}
        PROVE  Effect(a, books[a], {}, 0) /\ BooksOK(a)' /\ books'[a] \in Book /\ books'[a] = books[a]
    <2>1. books'[a] = books[a] /\ cash'[a] = cash[a] /\ cash[a] \in Nat
      BY <1>1, <1>2
    <2> QED
      BY <1>1, <2>1, UntouchedKeeps
  <1>8. \A a \in Assets : BooksOK(a)' /\ books'[a] \in Book
    BY <1>6, <1>7
  <1>9. IncomeOK'
    <2>1. books' = [a \in Assets |-> books'[a]]
      BY <1>1, <1>2
    <2> QED
      BY <1>1, <1>2, <1>5, <1>8, <2>1, IncomeParts
  <1> QED
    BY <1>1, <1>6, <1>7, <1>9 DEF TakesIn

\* A sync recognises what the doors delivered, asset by asset.
LEMMA SyncBooks ==
  ASSUME SharesInvariant, SupplyOK, IncomeOK, NEW pulled \in [Assets -> Nat], Sync(pulled)
  PROVE  IncomeOK' /\ TakesIn
  <1>1. /\ live /\ cash' = Kept(pulled)
        /\ books' = [a \in Assets |->
             IF Found(pulled)[a] = 0 THEN books[a] ELSE Recognized(books[a], Found(pulled)[a])]
        /\ now' = now /\ holders' = holders /\ balance' = balance /\ live' = live
    BY DEF Sync, sharesVars
  <1>2. /\ now \in Nat /\ books \in [Assets -> Book] /\ cash \in [Assets -> Nat]
        /\ holders \in [Accounts -> [Assets -> Credit]] /\ EarningSupply \in Nat
    BY SharesFacts DEF IncomeOK, IncomeTypeOK
  <1>3. \A a \in Assets : cash'[a] \in Nat /\ cash[a] <= cash'[a]
    <2>1. Sent(pulled) \in Nat /\ Sent(pulled) <= pulled[Eth]
      BY SentBounds, ConstantsType
    <2>2. \A a \in Assets : cash'[a] = cash[a] + pulled[a] - (IF a = Eth THEN Sent(pulled) ELSE 0)
      BY <1>1 DEF Kept
    <2>3. \A a \in Assets : cash[a] \in Nat /\ pulled[a] \in Nat
      BY <1>2
    <2> QED
      BY <2>1, <2>2, <2>3
  <1>4. ASSUME NEW a \in Assets
        PROVE  /\ BooksOK(a)' /\ books'[a] \in Book
               /\ \/ books'[a] = books[a] /\ \A h \in Accounts : holders'[h][a] = holders[h][a]
                  \/ Effect(a, Released(books[a]), {}, 0) /\ Due(books[a])' = 0
    <2> DEFINE n == Found(pulled)[a]
    <2>1. n = Recognizable(a, cash'[a])
      BY <1>1 DEF Found
    <2>2. /\ n \in Nat /\ books[a].received + n <= MaxReceived
          /\ n # 0 => books[a].received + n <= books[a].paid + cash'[a]
      BY <1>2, <1>3, <2>1, RecognizableBounds
    <2>3. CASE n = 0
      <3>1. books'[a] = books[a]
        BY <1>1, <2>3
      <3>2. Effect(a, books[a], {}, 0) /\ BooksOK(a)' /\ books'[a] \in Book
        BY <1>1, <1>3, <3>1, UntouchedKeeps
      <3> QED
        BY <1>1, <3>1, <3>2
    <2>4. CASE n # 0
      <3>1. books'[a] = Recognized(books[a], n)
        BY <1>1, <2>4
      <3> HIDE DEF n
      <3>2. /\ Effect(a, Released(books[a]), {}, 0) /\ BooksOK(a)' /\ books'[a] \in Book
            /\ Due(books[a])' = 0
        BY <1>1, <1>3, <2>2, <2>4, <3>1, RecognitionKeeps
      <3> QED
        BY <3>2
    <2> QED
      BY <2>3, <2>4
  <1>5. IncomeOK'
    <2>1. books' = [a \in Assets |-> books'[a]]
      BY <1>1
    <2>2. cash' \in [Assets -> Nat]
      <3>1. cash' = [a \in Assets |-> cash'[a]]
        BY <1>1 DEF Kept
      <3> QED
        BY <1>3, <3>1
    <2> QED
      BY <1>1, <1>2, <1>4, <2>1, <2>2, IncomeParts
  <1> QED
    BY <1>4, <1>5 DEF TakesIn

-----------------------------------------------------------------------------
(* What goes out, and the seal.                                              *)

\* A payment is covered by what the payee is owed and by what the token holds.
LEMMA PaymentBounds ==
  ASSUME SharesTypeOK, EarningSupply \in Nat, IncomeOK, NEW holder \in Accounts, NEW a \in Assets
  PROVE  /\ Payment(holder, a) \in Nat /\ Payment(holder, a) <= cash[a]
         /\ ClaimableScaled(holder, a) \in Nat
         /\ Payment(holder, a) * Scale \in Nat
         /\ Payment(holder, a) * Scale <= ClaimableScaled(holder, a)
  <1> DEFINE r == Released(books[a])
             owed == ClaimableScaled(holder, a)
             p == Payment(holder, a)
  <1>1. /\ r \in Book /\ books[a] \in Book /\ cash[a] \in Nat /\ books[a].index <= r.index
        /\ holders[holder][a] \in Credit /\ holders[holder][a].index <= books[a].index
    BY BooksFacts
  <1> HIDE DEF r
  <1>2. r.index \in Nat /\ holders[holder][a].index <= r.index
    <2>1. r.index \in Nat /\ books[a].index \in Nat /\ holders[holder][a].index \in Nat
      BY <1>1, BookFields DEF Credit
    <2> QED
      BY <1>1, <2>1
  <1>3. owed \in Nat
    <2>1. CreditAt(holder, a, r.index) \in Nat
      BY <1>2, CreditType DEF IncomeOK
    <2> QED
      BY <2>1, CreditIsCreditAt DEF r
  <1>4. Scale \in Nat \ {0}
    BY ConstantsType
  <1>5. p = Lesser(owed \div Scale, cash[a])
    BY DEF Payment
  <1> HIDE DEF owed, p
  <1>6. owed \div Scale \in Nat /\ (owed \div Scale) * Scale <= owed
    BY <1>3, <1>4, DivisionBounds
  <1>7. p \in Nat /\ p <= cash[a] /\ p <= owed \div Scale
    BY <1>1, <1>5, <1>6 DEF Lesser
  <1>8. p * Scale <= (owed \div Scale) * Scale /\ p * Scale \in Nat
    BY <1>4, <1>6, <1>7, ProductMonotone
  <1>9. p * Scale <= owed
    <2>1. (owed \div Scale) * Scale \in Nat
      BY <1>4, <1>6
    <2> QED
      BY <1>3, <1>6, <1>8, <2>1
  <1> QED
    BY <1>3, <1>7, <1>8, <1>9 DEF owed, p

\* Each asset of a claim is released and pays the holder, or is left alone.
Pays(holder) ==
  \A a \in Assets :
    \/ books'[a] = books[a] /\ \A h \in Accounts : holders'[h][a] = holders[h][a]
    \/ \E amount \in Nat :
         /\ Effect(a, Released(books[a]), holder, amount)
         /\ EarningSupply > 0 => Due(books[a])' = 0

\* A claim pays the holder's whole units in the assets it names.
LEMMA ClaimBooks ==
  ASSUME SharesInvariant, SupplyOK, IncomeOK, NEW holder \in Accounts,
         NEW claiming \in SUBSET Assets, Claim(holder, claiming)
  PROVE  IncomeOK' /\ Pays(holder)
  <1>1. /\ books' = [a \in Assets |->
             IF a \in claiming THEN [Released(books[a]) EXCEPT !.paid = @ + Payment(holder, a)]
             ELSE books[a]]
        /\ holders' = [holders EXCEPT ![holder] = [a \in Assets |->
             IF a \in claiming
             THEN [index |-> books'[a].index,
                   creditScaled |-> ClaimableScaled(holder, a) - Payment(holder, a) * Scale]
             ELSE holders[holder][a]]]
        /\ cash' = [a \in Assets |-> IF a \in claiming THEN cash[a] - Payment(holder, a) ELSE cash[a]]
        /\ now' = now /\ balance' = balance /\ live' = live
    BY DEF Claim, sharesVars
  <1>2. /\ now \in Nat /\ books \in [Assets -> Book] /\ cash \in [Assets -> Nat]
        /\ holders \in [Accounts -> [Assets -> Credit]] /\ EarningSupply \in Nat /\ SharesTypeOK
        /\ (~live => EarningSupply = 0)
    BY SharesFacts DEF IncomeOK, IncomeTypeOK
  <1>3. /\ \A h \in Accounts \ {holder} : holders'[h] = holders[h]
        /\ \A a \in Assets : holders'[holder][a] =
             IF a \in claiming
             THEN [index |-> books'[a].index,
                   creditScaled |-> ClaimableScaled(holder, a) - Payment(holder, a) * Scale]
             ELSE holders[holder][a]
    BY <1>1, <1>2
  <1>4. ASSUME NEW a \in claiming
        PROVE  /\ BooksOK(a)' /\ books'[a] \in Book /\ cash'[a] \in Nat /\ holders'[holder][a] \in Credit
               /\ \E amount \in Nat :
                    /\ Effect(a, Released(books[a]), holder, amount)
                    /\ EarningSupply > 0 => Due(books[a])' = 0
    <2> DEFINE r == Released(books[a])
               p == Payment(holder, a)
               owed == ClaimableScaled(holder, a)
    <2>1. /\ a \in Assets /\ books[a] \in Book /\ r \in Book /\ cash[a] \in Nat
          /\ r.received = books[a].received /\ r.paid = books[a].paid /\ r.streamEnd = books[a].streamEnd
          /\ books[a].index <= r.index
          /\ books[a].received <= MaxReceived /\ books[a].streamEnd <= now + StreamSeconds
          /\ \A h \in Accounts : holders[h][a] \in Credit /\ holders[h][a].index <= books[a].index
          /\ a \notin Slashable => books[a].received - books[a].paid <= cash[a]
          /\ ~live => books[a].index = 0
      BY <1>2, BooksFacts
    <2>2. /\ p \in Nat /\ p <= cash[a] /\ owed \in Nat /\ p * Scale \in Nat /\ p * Scale <= owed
      BY <1>2, <2>1, PaymentBounds
    <2>3. owed = CreditAt(holder, a, r.index)
      BY <2>1, CreditIsCreditAt
    <2>4. /\ books'[a] = [r EXCEPT !.paid = r.paid + p] /\ cash'[a] = cash[a] - p
          /\ holders'[holder][a] = [index |-> books'[a].index, creditScaled |-> owed - p * Scale]
      BY <1>1, <1>3, <2>1
    <2>5. ~live => r.index = 0
      BY <1>2, <2>1, ReleaseEffect
    <2>6. r \in {books[a], Released(books[a])}
      OBVIOUS
    <2> HIDE DEF r, p, owed
    <2>7. /\ r.paid \in Nat /\ r.index \in Nat /\ r.received \in Nat /\ books[a].index \in Nat /\ Scale \in Nat
      BY <2>1, BookFields, ConstantsType
    <2>8. /\ books'[a] \in Book /\ books'[a].paid = r.paid + p /\ books'[a].received = r.received
          /\ books'[a].pendingStream = r.pendingStream /\ books'[a].streamEnd = r.streamEnd
          /\ books'[a].lastRelease = r.lastRelease /\ books'[a].index = r.index /\ books'[a].carry = r.carry
      <3>1. r.paid + p \in Nat
        BY <2>2, <2>7
      <3> QED
        BY <2>1, <2>4, <3>1 DEF Book
    <2>9. holders'[holder][a] \in Credit /\ holders'[holder][a].index = r.index
          /\ holders'[holder][a].creditScaled = owed - p * Scale
      <3>1. owed - p * Scale \in Nat
        BY <2>2
      <3> QED
        BY <2>4, <2>7, <2>8, <3>1 DEF Credit
    <2>10. ASSUME NEW h \in Accounts
           PROVE  /\ holders'[h][a].creditScaled
                       + (IF Earns(h) THEN balance'[h] * (books'[a].index - holders'[h][a].index) ELSE 0)
                     = CreditAt(h, a, r.index) - (IF h = holder THEN p * Scale ELSE 0)
                  /\ holders'[h][a].index <= books'[a].index
      <3>1. balance[h] \in Nat /\ CreditAt(h, a, r.index) \in Int
        BY <1>2, <2>1, <2>7, CreditType DEF IncomeOK
      <3>2. CASE h = holder
        <4>1. balance[h] * (r.index - r.index) = 0
          BY <2>7, <3>1
        <4>2. owed - p * Scale \in Int
          BY <2>2
        <4>3. balance'[h] * (books'[a].index - holders'[h][a].index) = 0
          <5>1. balance'[h] = balance[h] /\ books'[a].index = r.index /\ holders'[h][a].index = r.index
            BY <1>1, <2>8, <2>9, <3>2
          <5> QED
            BY <4>1, <5>1
        <4>4. holders'[h][a].creditScaled = owed - p * Scale /\ CreditAt(h, a, r.index) = owed
          BY <2>3, <2>9, <3>2
        <4>5. holders'[h][a].index <= books'[a].index
          BY <2>7, <2>8, <2>9, <3>2
        <4> QED
          BY <3>2, <4>2, <4>3, <4>4, <4>5
      <3>3. CASE h # holder
        <4>1. holders'[h][a] = holders[h][a]
          BY <1>3, <3>3
        <4>2. holders[h][a].index \in Nat /\ holders[h][a].index <= books[a].index
          BY <2>1 DEF Credit
        <4>3. holders'[h][a].index <= books'[a].index
          BY <2>1, <2>7, <2>8, <4>1, <4>2
        <4> QED
          BY <1>1, <2>8, <3>1, <3>3, <4>1, <4>3 DEF CreditAt
      <3> QED
        BY <3>2, <3>3
    <2>11. Effect(a, r, holder, p)
      <3>1. books'[a].received - books'[a].pendingStream = r.received - r.pendingStream
        BY <2>8
      <3> QED
        BY <2>8, <2>10, <3>1 DEF Effect
    <2>12. /\ cash'[a] \in Nat /\ books'[a].received <= MaxReceived
           /\ books'[a].streamEnd <= now' + StreamSeconds
           /\ a \notin Slashable => books'[a].received - books'[a].paid <= cash'[a]
      BY <1>1, <2>1, <2>2, <2>4, <2>7, <2>8
    <2>13. BooksOK(a)'
      <3>1. \A h \in Accounts : holders'[h][a].index <= books'[a].index
        BY <2>10
      <3>2. ~live' => books'[a].index = 0
        BY <1>1, <2>5, <2>8
      <3> QED
        BY <1>2, <2>1, <2>2, <2>6, <2>8, <2>11, <2>12, <3>1, <3>2, EffectKeeps
    <2>14. EarningSupply > 0 => Due(books[a])' = 0
      <3>1. now' = now /\ now \in Nat /\ EarningSupply \in Nat /\ books[a] \in Book
        BY <1>1, <1>2, <2>1
      <3>2. /\ books'[a].pendingStream = r.pendingStream /\ books'[a].streamEnd = r.streamEnd
            /\ books'[a].lastRelease = r.lastRelease
        BY <2>8
      <3> QED
        BY <3>1, <3>2, StillNothingDue DEF r
    <2> QED
      BY <2>2, <2>8, <2>9, <2>11, <2>12, <2>13, <2>14 DEF r
  <1>5. ASSUME NEW a \in Assets \ claiming
        PROVE  /\ BooksOK(a)' /\ books'[a] \in Book /\ cash'[a] \in Nat /\ holders'[holder][a] \in Credit
               /\ books'[a] = books[a] /\ \A h \in Accounts : holders'[h][a] = holders[h][a]
    <2>1. books'[a] = books[a] /\ cash'[a] = cash[a] /\ cash[a] \in Nat
      BY <1>1, <1>2
    <2>2. \A h \in Accounts : holders'[h][a] = holders[h][a]
      BY <1>3
    <2>3. holders[holder][a] \in Credit
      BY <1>2
    <2> QED
      <3>1. now' = now /\ balance' = balance /\ live' = live
        BY <1>1
      <3>2. cash'[a] \in Nat /\ (a \notin Slashable => cash[a] <= cash'[a]) /\ a \in Assets
        BY <2>1
      <3>3. Effect(a, books[a], {}, 0) /\ BooksOK(a)' /\ books'[a] \in Book
        BY <2>1, <2>2, <3>1, <3>2, UntouchedKeeps
      <3> QED
        BY <2>1, <2>2, <2>3, <3>3
  <1>6. holders' \in [Accounts -> [Assets -> Credit]]
    <2> DEFINE new == [a \in Assets |->
             IF a \in claiming
             THEN [index |-> books'[a].index,
                   creditScaled |-> ClaimableScaled(holder, a) - Payment(holder, a) * Scale]
             ELSE holders[holder][a]]
    <2>1. holders' = [holders EXCEPT ![holder] = new]
      BY <1>1
    <2>2. \A a \in Assets : new[a] = holders'[holder][a] /\ holders'[holder][a] \in Credit
      BY <1>3, <1>4, <1>5
    <2>3. new \in [Assets -> Credit]
      BY <2>2
    <2> HIDE DEF new
    <2> QED
      BY <1>2, <2>1, <2>3
  <1>7. IncomeOK'
    <2>1. \A a \in Assets : BooksOK(a)' /\ books'[a] \in Book /\ cash'[a] \in Nat
      BY <1>4, <1>5
    <2>2. books' = [a \in Assets |-> books'[a]] /\ cash' = [a \in Assets |-> cash'[a]]
      BY <1>1
    <2>3. cash' \in [Assets -> Nat]
      BY <2>1, <2>2
    <2> QED
      BY <1>1, <1>2, <1>6, <2>1, <2>2, <2>3, IncomeParts
  <1>8. Pays(holder)
    BY <1>4, <1>5 DEF Pays
  <1> QED
    BY <1>7, <1>8

\* Before the seal nothing has been earned, so who holds shares afterwards is owed nothing
\* for before.
LEMMA SealBooks ==
  ASSUME SharesInvariant, SupplyOK, IncomeOK, NEW amounts \in Allocations, Seal(amounts)
  PROVE  IncomeOK'
  <1>1. /\ ~live /\ live' = TRUE /\ balance' = amounts /\ amounts \in [Accounts -> Nat]
        /\ now' = now /\ books' = books /\ holders' = holders /\ cash' = cash
    BY AllocationAssumption DEF Seal, MintAll, SetBalances, incomeVars
  <1>2. SharesTypeOK /\ EarningSupply \in Nat /\ IncomeTypeOK /\ balance \in [Accounts -> Nat]
    BY SharesFacts DEF IncomeOK
  <1>3. ASSUME NEW a \in Assets
        PROVE  BooksOK(a)'
    <2>1. /\ now \in Nat /\ books[a] \in Book /\ cash[a] \in Nat
          /\ books[a].received <= MaxReceived /\ books[a].streamEnd <= now + StreamSeconds
          /\ \A h \in Accounts : holders[h][a] \in Credit /\ holders[h][a].index <= books[a].index
          /\ a \notin Slashable => books[a].received - books[a].paid <= cash[a]
          /\ books[a].index = 0
      BY <1>1, <1>2, BooksFacts
    <2>2. books[a].paid \in Nat /\ Scale \in Nat /\ 0 * Scale = 0
      BY <2>1, BookFields, ConstantsType
    <2>3. ASSUME NEW h \in Accounts
          PROVE  holders'[h][a].creditScaled
                     + (IF Earns(h) THEN balance'[h] * (books'[a].index - holders'[h][a].index) ELSE 0)
                   = CreditAt(h, a, books[a].index) - (IF h = {} THEN 0 * Scale ELSE 0)
      <3>1. holders[h][a].index = 0 /\ holders[h][a].creditScaled \in Nat
        BY <2>1 DEF Credit
      <3>2. amounts[h] * (0 - 0) = 0 /\ balance[h] * (0 - 0) = 0
        BY <1>1, <1>2
      <3>3. holders'[h][a].creditScaled
              + (IF Earns(h) THEN balance'[h] * (books'[a].index - holders'[h][a].index) ELSE 0)
            = holders[h][a].creditScaled
        BY <1>1, <2>1, <3>1, <3>2
      <3>4. CreditAt(h, a, books[a].index) = holders[h][a].creditScaled
        BY <2>1, <3>1, <3>2 DEF CreditAt
      <3> QED
        BY <2>2, <3>1, <3>3, <3>4
    <2>4. Effect(a, books[a], {}, 0)
      BY <1>1, <2>2, <2>3 DEF Effect
    <2> QED
      <3>1. /\ books'[a] \in Book /\ books'[a].received <= MaxReceived
            /\ books'[a].streamEnd <= now' + StreamSeconds
            /\ \A h \in Accounts : holders'[h][a].index <= books'[a].index
            /\ a \notin Slashable => books'[a].received - books'[a].paid <= cash'[a]
            /\ ~live' => books'[a].index = 0
        BY <1>1, <2>1
      <3> QED
        BY <1>2, <2>4, <3>1, EffectKeeps
  <1>4. IncomeTypeOK'
    BY <1>1, <1>2 DEF IncomeTypeOK
  <1> QED
    BY <1>3, <1>4 DEF IncomeOK

\* What a push or a slashing does to the cash.
LEMMA CashSteps ==
  ASSUME SharesInvariant, SupplyOK, IncomeOK, NEW a \in Assets, NEW n \in Nat, Arrive(a, n) \/ Shrink(a, n)
  PROVE  IncomeOK'
  <1>1. /\ UNCHANGED <<books, holders, balance, live>> /\ now' = now
        /\ \/ cash' = [cash EXCEPT ![a] = @ + n]
           \/ a \in Slashable /\ n <= cash[a] /\ cash' = [cash EXCEPT ![a] = @ - n]
    BY DEF Arrive, Shrink, sharesVars
  <1>2. SharesTypeOK /\ EarningSupply \in Nat /\ now \in Nat /\ cash \in [Assets -> Nat]
    BY SharesFacts DEF IncomeOK, IncomeTypeOK
  <1>3. cash' \in [Assets -> Nat] /\ \A b \in Assets \ Slashable : cash[b] <= cash'[b]
    BY <1>1, <1>2
  <1> QED
    BY <1>1, <1>2, <1>3, QuietKeeps

\* Every step keeps the books, and says which of them it releases.
IncomeKinds ==
  \/ \E amounts \in Allocations : Seal(amounts)
  \/ \E from, to \in Accounts, n \in Parts : Transfer(from, to, n)
  \/ Poke
  \/ \E pulled \in [Assets -> Amounts \cup {0}] : Sync(pulled)
  \/ \E a \in Assets, n \in Amounts : DepositBonus(a, n)
  \/ \E h \in Accounts, claiming \in SUBSET Assets : Claim(h, claiming)
  \/ \E a \in Assets, n \in Amounts : Arrive(a, n) \/ Shrink(a, n)
  \/ NextSecond
  \/ UNCHANGED <<now, books, holders, cash, balance, earning, live>>

\* The steps of the token, as its books see them.
LEMMA StepKinds ==
  ASSUME [Next]_vars
  PROVE  IncomeKinds
  <1>1. CASE Shares
    BY <1>1 DEF Shares, NextBlock, incomeVars, IncomeKinds
  <1>2. CASE Box
    BY <1>2, BoxSteps DEF Box, RecordSnapshot, sharesVars, incomeVars, IncomeKinds
  <1>3. CASE Income
    <2>1. CASE \E h \in Accounts, a \in Assets : Claim(h, {a})
      <3>1. \A a \in Assets : {a} \in SUBSET Assets
        OBVIOUS
      <3> QED
        BY <2>1, <3>1 DEF IncomeKinds
    <2>2. CASE \E h \in Accounts : Claim(h, Assets)
      <3>1. Assets \in SUBSET Assets
        OBVIOUS
      <3> QED
        BY <2>2, <3>1 DEF IncomeKinds
    <2>3. CASE NextSecond \/ Poke \/ \E pulled \in [Assets -> Amounts \cup {0}] : Sync(pulled)
      BY <2>3 DEF IncomeKinds
    <2>4. CASE \E a \in Assets, n \in Amounts : DepositBonus(a, n) \/ Arrive(a, n) \/ Shrink(a, n)
      <3>1. \/ \E a \in Assets, n \in Amounts : DepositBonus(a, n)
            \/ \E a \in Assets, n \in Amounts : Arrive(a, n) \/ Shrink(a, n)
        BY <2>4
      <3> QED
        BY <3>1 DEF IncomeKinds
    <2> QED
      BY <1>3, <2>1, <2>2, <2>3, <2>4 DEF Income
  <1>4. CASE \E from, to \in Accounts, n \in Parts : Transfer(from, to, n)
    BY <1>4 DEF IncomeKinds
  <1>5. CASE UNCHANGED vars
    BY <1>5 DEF vars, sharesVars, incomeVars, IncomeKinds
  <1> QED
    BY <1>1, <1>2, <1>3, <1>4, <1>5 DEF Next

\* Each of them keeps the books balanced.
LEMMA StepKeepsIncome ==
  ASSUME SharesInvariant, SupplyOK, IncomeOK, [Next]_vars
  PROVE  IncomeOK'
  <1>1. SharesTypeOK /\ EarningSupply \in Nat /\ now \in Nat /\ cash \in [Assets -> Nat]
        /\ Amounts \subseteq Nat
    BY SharesFacts, AmountsAssumption DEF IncomeOK, IncomeTypeOK
  <1>2. CASE \E amounts \in Allocations : Seal(amounts)
    BY <1>2, SealBooks
  <1>3. CASE \E from, to \in Accounts, n \in Parts : Transfer(from, to, n)
    BY <1>3, TransferBooks DEF Transfer
  <1>4. CASE Poke
    BY <1>4, PokeBooks
  <1>5. CASE \E pulled \in [Assets -> Amounts \cup {0}] : Sync(pulled)
    <2>1. PICK pulled \in [Assets -> Amounts \cup {0}] : Sync(pulled)
      BY <1>5
    <2>2. pulled \in [Assets -> Nat]
      <3> DEFINE Pulls == Amounts \cup {0}
      <3>1. pulled \in [Assets -> Pulls] /\ \A n \in Pulls : n \in Nat
        BY <1>1, <2>1
      <3> HIDE DEF Pulls
      <3> QED
        BY <3>1
    <2> QED
      BY <2>1, <2>2, SyncBooks
  <1>6. CASE \E a \in Assets, n \in Amounts : DepositBonus(a, n)
    BY <1>6, DepositBooks
  <1>7. CASE \E h \in Accounts, claiming \in SUBSET Assets : Claim(h, claiming)
    BY <1>7, ClaimBooks
  <1>8. CASE \E a \in Assets, n \in Amounts : Arrive(a, n) \/ Shrink(a, n)
    BY <1>1, <1>8, CashSteps
  <1>9. CASE NextSecond \/ UNCHANGED <<now, books, holders, cash, balance, earning, live>>
    <2>1. /\ UNCHANGED <<books, holders, balance, live>> /\ now' \in Nat /\ now <= now' /\ cash' = cash
      BY <1>1, <1>9 DEF NextSecond, sharesVars
    <2>2. cash' \in [Assets -> Nat] /\ \A a \in Assets \ Slashable : cash[a] <= cash'[a]
      BY <1>1, <2>1
    <2> QED
      BY <1>1, <2>1, <2>2, QuietKeeps
  <1> QED
    BY <1>2, <1>3, <1>4, <1>5, <1>6, <1>7, <1>8, <1>9, StepKinds DEF IncomeKinds

\* A new token has received nothing.
LEMMA IncomeStart ==
  ASSUME Init
  PROVE  IncomeOK
  <1> DEFINE book == [received |-> 0, paid |-> 0, pendingStream |-> 0, streamEnd |-> 0,
                      lastRelease |-> 0, index |-> 0, carry |-> 0]
             credit == [index |-> 0, creditScaled |-> 0]
  <1>1. /\ now = 0 /\ books = [a \in Assets |-> book] /\ cash = [a \in Assets |-> 0]
        /\ holders = [h \in Accounts |-> [a \in Assets |-> credit]]
        /\ balance = [a \in Accounts |-> 0]
    BY DEF Init, IncomeInit, SharesInit
  <1>2. book \in Book /\ credit \in Credit
    BY DEF Book, Credit
  <1>3. Scale \in Nat /\ StreamSeconds \in Nat /\ MaxReceived \in Nat
    BY ConstantsType
  <1>4. IncomeTypeOK
    BY <1>1, <1>2 DEF IncomeTypeOK
  <1>5. ASSUME NEW a \in Assets
        PROVE  BooksOK(a)
    <2>1. books[a] = book /\ cash[a] = 0
      BY <1>1
    <2>2. \A h \in Accounts : CreditNow(h, a) = 0 /\ holders[h][a] = credit
      <3>1. 0 * (0 - 0) = 0
        OBVIOUS
      <3> QED
        BY <1>1, <2>1, <3>1 DEF CreditNow, Settled
    <2>3. SumFunctionOnSet([h \in Accounts |-> CreditNow(h, a)], Accounts) = 0
      <3> DEFINE f == [h \in Accounts |-> CreditNow(h, a)]
      <3>1. \A h \in Accounts : f[h] = 0
        BY <2>2
      <3> HIDE DEF f
      <3>2. SumFunctionOnSet(f, Accounts) = 0
        BY <3>1, EarnersFinite, SumZero
      <3> QED
        BY <3>2 DEF f
    <2>4. 0 * Scale = 0 /\ (0 - 0) * Scale = 0
      BY <1>3
    <2>5. Conserved(a)
      BY <2>1, <2>3, <2>4 DEF Conserved
    <2> QED
      BY <1>1, <1>3, <2>1, <2>2, <2>5 DEF BooksOK
  <1> QED
    BY <1>4, <1>5 DEF IncomeOK

\* Balanced books have released at least what they paid.
LEMMA PaidIsReleased ==
  ASSUME SharesTypeOK, IncomeOK, NEW a \in Assets
  PROVE  books[a].pendingStream >= 0 /\ books[a].paid <= books[a].received
  <1> DEFINE book == books[a]
             f == [h \in Accounts |-> CreditAt(h, a, book.index)]
             total == SumFunctionOnSet(f, Accounts)
             released == book.received - book.pendingStream
  <1>1. IncomeTypeOK /\ Conserved(a) /\ book \in Book /\ \A h \in Accounts : holders[h][a].index <= book.index
    BY DEF IncomeOK, IncomeTypeOK, BooksOK
  <1>2. /\ book.received \in Nat /\ book.paid \in Nat /\ book.pendingStream \in Nat /\ book.index \in Nat
        /\ book.carry \in Nat /\ Scale \in Nat \ {0}
    BY <1>1, BookFields, ConstantsType
  <1>3. \A h \in Accounts : f[h] \in Nat
    BY <1>1, <1>2, CreditType
  <1>4. TotalAt(a, book.index) = total
    BY DEF TotalAt
  <1> HIDE DEF f
  <1>5. total \in Nat
    BY <1>3, EarnersFinite, SumNatural
  <1>6. total + (book.paid * Scale + book.carry) = released * Scale
    BY <1>1, <1>4, ConservedAsTotal
  <1> HIDE DEF total
  <1> DEFINE spent == book.paid * Scale
             made == released * Scale
  <1>7. spent \in Int /\ made \in Int /\ released \in Int
    BY <1>2
  <1>8. spent <= made
    <2> HIDE DEF spent, made
    <2> QED
      BY <1>2, <1>5, <1>6, <1>7 DEF spent, made
  <1>9. ~(released < book.paid)
    <2> SUFFICES ASSUME released + 1 <= book.paid
                 PROVE  FALSE
      BY <1>2, <1>7
    <2> HIDE DEF released
    <2>1. (released + 1) * Scale <= book.paid * Scale
      BY <1>2, <1>7, ProductMonotone
    <2>2. (released + 1) * Scale = released * Scale + Scale
      BY <1>2, <1>7
    <2> HIDE DEF spent, made
    <2> QED
      BY <1>2, <1>7, <1>8, <2>1, <2>2 DEF spent, made
  <1>10. released <= book.received /\ released \in Int
    BY <1>2
  <1> HIDE DEF released
  <1> QED
    BY <1>2, <1>9, <1>10

\* All the state a token's books rest on.
TokenInvariant == SharesInvariant /\ SupplyOK /\ IncomeOK

\* The token starts with nothing recognised and nobody's credit.
LEMMA TokenStart == Init => TokenInvariant
  BY SharesStart, SupplyStart, IncomeStart DEF Init, TokenInvariant

\* Every step keeps the token's invariant.
LEMMA TokenKeeps == TokenInvariant /\ [Next]_vars => TokenInvariant'
  BY StepKeeps, StepSupplies, StepKeepsIncome DEF TokenInvariant

\* After any trades, deposits, pulls, rebases and claims, at any times: what the accounts
\* are owed at the index, what was paid and the carry are together exactly what was
\* released (HookrIncomeLedger._release, _settle, _recognize and _pay), and the token
\* holds what it received and has not paid, of every asset that does not shrink by itself.
THEOREM BooksBalance == Spec => []IncomeAccounted
  <1>1. ASSUME TokenInvariant
        PROVE  IncomeAccounted
    <2> SUFFICES ASSUME NEW a \in Assets
                 PROVE  /\ Conserved(a)
                        /\ books[a].pendingStream >= 0 /\ books[a].paid <= books[a].received
                        /\ a \notin Slashable => books[a].received - books[a].paid <= cash[a]
      BY DEF IncomeAccounted
    <2>1. BooksOK(a) /\ SharesTypeOK /\ IncomeOK
      BY <1>1 DEF TokenInvariant, IncomeOK, SharesInvariant
    <2> QED
      BY <2>1, PaidIsReleased DEF BooksOK
  <1> QED
    BY <1>1, TokenStart, TokenKeeps, PTL DEF Spec

-----------------------------------------------------------------------------
(* Only time earns.                                                          *)

\* Once nothing is due, what is claimable is what is credited.
LEMMA ClaimableAfter ==
  ASSUME TokenInvariant, NEW h \in Accounts, NEW a \in Assets, NEW payee, NEW amount \in Nat,
         Effect(a, Released(books[a]), payee, amount), Due(books[a])' = 0
  PROVE  ClaimableScaled(h, a)' = ClaimableScaled(h, a)
           - IF h = payee THEN (books'[a].paid - books[a].paid) * Scale ELSE 0
  <1> DEFINE r == Released(books[a])
  <1>1. Released(books[a])' = books'[a]
    BY DEF Released
  <1>2. ClaimableScaled(h, a)' = holders'[h][a].creditScaled
          + (IF Earns(h) THEN balance'[h] * (books'[a].index - holders'[h][a].index) ELSE 0)
    BY <1>1 DEF ClaimableScaled, Settled
  <1>3. ClaimableScaled(h, a)' = CreditAt(h, a, r.index) - (IF h = payee THEN amount * Scale ELSE 0)
    BY <1>2 DEF Effect
  <1>4. books'[a].paid - books[a].paid = amount
    <2>1. books[a] \in Book /\ r.paid = books[a].paid
      BY SharesFacts, BooksFacts DEF TokenInvariant
    <2>2. books[a].paid \in Nat
      BY <2>1, BookFields
    <2>3. books'[a].paid = r.paid + amount
      BY DEF Effect
    <2> HIDE DEF r
    <2> QED
      BY <2>1, <2>2, <2>3
  <1> QED
    BY <1>3, <1>4, CreditIsCreditAt

\* An asset and a holder a step leaves alone.
LEMMA ClaimableSame ==
  ASSUME TokenInvariant, NEW h \in Accounts, NEW a \in Assets, NEW payee,
         books'[a] = books[a], holders'[h][a] = holders[h][a], UNCHANGED <<now, earning, balance>>
  PROVE  ClaimableScaled(h, a)' = ClaimableScaled(h, a)
           - IF h = payee THEN (books'[a].paid - books[a].paid) * Scale ELSE 0
  <1>1. ClaimableScaled(h, a)' = ClaimableScaled(h, a)
    BY DEF ClaimableScaled, Settled, Released, Due, EarningSupply
  <1>2. (books'[a].paid - books[a].paid) * Scale = 0
    <2>1. books[a].paid \in Nat /\ Scale \in Nat
      BY SharesFacts, BooksFacts, BookFields, ConstantsType DEF TokenInvariant
    <2> QED
      BY <2>1
  <1>3. ClaimableScaled(h, a) \in Int
    <2>1. SharesTypeOK /\ EarningSupply \in Nat /\ IncomeTypeOK
      BY SharesFacts DEF TokenInvariant, IncomeOK
    <2>2. Released(books[a]).index \in Nat
      BY <2>1, BooksFacts, BookFields DEF TokenInvariant
    <2>3. CreditAt(h, a, Released(books[a]).index) \in Int
      BY <2>1, <2>2, CreditType
    <2> QED
      BY <2>3, CreditIsCreditAt
  <1> QED
    BY <1>1, <1>2, <1>3

\* With nothing paid it matters not to whom.
LEMMA PaidToNobody ==
  ASSUME NEW a, NEW r, NEW payee, Effect(a, r, {}, 0)
  PROVE  Effect(a, r, payee, 0)
  <1>1. 0 * Scale = 0
    BY ConstantsType
  <1> QED
    BY <1>1 DEF Effect

\* What the property says of a payee.
EarnsOnlyIfPaid(payee) ==
  \A h \in Accounts, a \in Assets :
    ClaimableScaled(h, a)' = ClaimableScaled(h, a)
      - IF h = payee THEN (books'[a].paid - books[a].paid) * Scale ELSE 0

\* Within a second already released up to, only the payee's credit moves, by what it is
\* paid.
LEMMA StepEarnsOnlyIfPaid ==
  ASSUME TokenInvariant, [Next]_vars, EarningSupply > 0, now' = now
  PROVE  \E payee \in Accounts : EarnsOnlyIfPaid(payee)
  <1>1. SharesInvariant /\ SupplyOK /\ IncomeOK /\ EarningSupply \in Nat /\ (~live => EarningSupply = 0)
    BY SharesFacts DEF TokenInvariant
  <1>2. PICK someone : someone \in Accounts
    <2>1. Earners # {}
      <3>1. Earners = {} => EarningSupply = 0
        BY <1>1, SumEmpty DEF SupplyOK
      <3> QED
        BY <1>1, <3>1
    <2> QED
      BY <2>1, EarnersFinite
  <1>3. ASSUME NEW a \in Assets, Effect(a, Released(books[a]), {}, 0), Due(books[a])' = 0, NEW h \in Accounts
        PROVE  ClaimableScaled(h, a)' = ClaimableScaled(h, a)
                 - IF h = someone THEN (books'[a].paid - books[a].paid) * Scale ELSE 0
    <2>1. Effect(a, Released(books[a]), someone, 0)
      BY <1>3, PaidToNobody
    <2>2. PICK amount \in Nat : Effect(a, Released(books[a]), someone, amount)
      BY <2>1
    <2> QED
      BY <1>3, <2>2, ClaimableAfter
  <1>4. (\A a \in Assets : Effect(a, Released(books[a]), {}, 0) /\ Due(books[a])' = 0)
          => EarnsOnlyIfPaid(someone)
    BY <1>3 DEF EarnsOnlyIfPaid
  <1>5. CASE \E amounts \in Allocations : Seal(amounts)
    BY <1>1, <1>5 DEF Seal, MintAll
  <1>6. CASE \E from, to \in Accounts, n \in Parts : Transfer(from, to, n)
    <2>1. \A a \in Assets : Effect(a, Released(books[a]), {}, 0) /\ Due(books[a])' = 0
      <3>1. PICK from \in Accounts, to \in Accounts, n \in Parts : Transfer(from, to, n)
        BY <1>6
      <3>2. Move(from, to, n) /\ SettleBoth(from, to)
        BY <3>1 DEF Transfer
      <3> QED
        BY <1>1, <3>2, TransferBooks
    <2> QED
      BY <1>2, <1>4, <2>1
  <1>7. CASE Poke
    <2>1. \A a \in Assets : Effect(a, Released(books[a]), {}, 0) /\ Due(books[a])' = 0
      BY <1>1, <1>7, PokeBooks
    <2> QED
      BY <1>2, <1>4, <2>1
  <1>8. CASE TakesIn /\ UNCHANGED <<earning, balance>>
    <2>1. ASSUME NEW h \in Accounts, NEW a \in Assets
          PROVE  ClaimableScaled(h, a)' = ClaimableScaled(h, a)
                   - IF h = someone THEN (books'[a].paid - books[a].paid) * Scale ELSE 0
      <3>1. CASE books'[a] = books[a] /\ holders'[h][a] = holders[h][a]
        BY <1>8, <3>1, ClaimableSame
      <3>2. CASE Effect(a, Released(books[a]), {}, 0) /\ Due(books[a])' = 0
        BY <1>3, <3>2
      <3> QED
        BY <1>8, <3>1, <3>2 DEF TakesIn
    <2> QED
      BY <1>2, <2>1 DEF EarnsOnlyIfPaid
  <1>9. CASE \E pulled \in [Assets -> Amounts \cup {0}] : Sync(pulled)
    <2>1. PICK pulled \in [Assets -> Amounts \cup {0}] : Sync(pulled)
      BY <1>9
    <2>2. pulled \in [Assets -> Nat]
      <3> DEFINE Pulls == Amounts \cup {0}
      <3>1. pulled \in [Assets -> Pulls] /\ \A n \in Pulls : n \in Nat
        BY <2>1, AmountsAssumption
      <3> HIDE DEF Pulls
      <3> QED
        BY <3>1
    <2>3. TakesIn /\ UNCHANGED <<earning, balance>>
      BY <1>1, <2>1, <2>2, SyncBooks DEF Sync, sharesVars
    <2> QED
      BY <1>8, <2>3
  <1>10. CASE \E a \in Assets, n \in Amounts : DepositBonus(a, n)
    <2>1. TakesIn /\ UNCHANGED <<earning, balance>>
      BY <1>1, <1>10, DepositBooks DEF DepositBonus, sharesVars
    <2> QED
      BY <1>8, <2>1
  <1>11. CASE \E h \in Accounts, claiming \in SUBSET Assets : Claim(h, claiming)
    <2>1. PICK payee \in Accounts, claiming \in SUBSET Assets : Claim(payee, claiming)
      BY <1>11
    <2>2. Pays(payee) /\ UNCHANGED <<earning, balance>>
      BY <1>1, <2>1, ClaimBooks DEF Claim, sharesVars
    <2>3. ASSUME NEW h \in Accounts, NEW a \in Assets
          PROVE  ClaimableScaled(h, a)' = ClaimableScaled(h, a)
                   - IF h = payee THEN (books'[a].paid - books[a].paid) * Scale ELSE 0
      <3>1. CASE books'[a] = books[a] /\ holders'[h][a] = holders[h][a]
        BY <2>2, <3>1, ClaimableSame
      <3>2. ASSUME NEW amount \in Nat, Effect(a, Released(books[a]), payee, amount), Due(books[a])' = 0
            PROVE  ClaimableScaled(h, a)' = ClaimableScaled(h, a)
                     - IF h = payee THEN (books'[a].paid - books[a].paid) * Scale ELSE 0
        BY <3>2, ClaimableAfter
      <3> QED
        BY <2>2, <3>1, <3>2 DEF Pays
    <2> QED
      BY <2>1, <2>3 DEF EarnsOnlyIfPaid
  <1>12. CASE \/ \E a \in Assets, n \in Amounts : Arrive(a, n) \/ Shrink(a, n)
              \/ NextSecond
              \/ UNCHANGED <<now, books, holders, cash, balance, earning, live>>
    <2>1. UNCHANGED <<books, holders, earning, balance>>
      BY <1>12 DEF Arrive, Shrink, NextSecond, sharesVars
    <2>2. ASSUME NEW h \in Accounts, NEW a \in Assets
          PROVE  ClaimableScaled(h, a)' = ClaimableScaled(h, a)
                   - IF h = someone THEN (books'[a].paid - books[a].paid) * Scale ELSE 0
      BY <2>1, ClaimableSame
    <2> QED
      BY <1>2, <2>2 DEF EarnsOnlyIfPaid
  <1> QED
    BY <1>5, <1>6, <1>7, <1>9, <1>10, <1>11, <1>12, StepKinds DEF IncomeKinds

\* While shares earn, nothing but a claim of its own changes within a second what an
\* account can claim: whatever is bought, sold, pulled, deposited or poked in between, a
\* second's income is fixed by who held what while it ran (HookrIncomeLedger._release
\* before every _settle and _recognize).
THEOREM SecondsAreSettled == Spec => OnlyTimeEarns
  <1> DEFINE Fixed == EarningSupply > 0 /\ now' = now =>
               \E payee \in Accounts : \A h \in Accounts, a \in Assets :
                 ClaimableScaled(h, a)' = ClaimableScaled(h, a)
                   - IF h = payee THEN (books'[a].paid - books[a].paid) * Scale ELSE 0
  <1>1. TokenInvariant /\ [Next]_vars => Fixed
    BY StepEarnsOnlyIfPaid DEF EarnsOnlyIfPaid
  <1>2. TokenInvariant /\ [Next]_vars => [Fixed]_vars
    BY <1>1
  <1> QED
    BY <1>2, TokenStart, TokenKeeps, PTL DEF Spec, OnlyTimeEarns

-----------------------------------------------------------------------------
(* Arrivals and the stream that runs.                                        *)

\* A step counts nothing more of an asset, or recognizes an amount of it.
LEMMA StepReceives ==
  ASSUME TokenInvariant, [Next]_vars, NEW a \in Assets
  PROVE  \/ books'[a].received = books[a].received
         \/ \E n \in Nat \ {0} : books'[a] = Recognized(books[a], n)
  <1>1. /\ SharesInvariant /\ SupplyOK /\ IncomeOK /\ EarningSupply \in Nat
        /\ now \in Nat /\ books \in [Assets -> Book] /\ cash \in [Assets -> Nat]
    BY SharesFacts DEF TokenInvariant, IncomeOK, IncomeTypeOK
  <1>2. books[a] \in Book /\ Released(books[a]) \in Book /\ Released(books[a]).received = books[a].received
    BY <1>1, BooksFacts
  <1>3. CASE \/ \E amounts \in Allocations : Seal(amounts)
             \/ \E b \in Assets, n \in Amounts : Arrive(b, n) \/ Shrink(b, n)
             \/ NextSecond
             \/ UNCHANGED <<now, books, holders, cash, balance, earning, live>>
    BY <1>3 DEF Seal, incomeVars, Arrive, Shrink, NextSecond
  <1>4. CASE Poke \/ \E from, to \in Accounts, n \in Parts : Transfer(from, to, n)
    <2>1. books' = [b \in Assets |-> Released(books[b])]
      BY <1>4 DEF Poke, Transfer, SettleBoth
    <2> QED
      BY <1>2, <2>1
  <1>5. CASE \E h \in Accounts, claiming \in SUBSET Assets : Claim(h, claiming)
    <2>1. PICK h \in Accounts, claiming \in SUBSET Assets : Claim(h, claiming)
      BY <1>5
    <2>2. books'[a] = IF a \in claiming
                      THEN [Released(books[a]) EXCEPT !.paid = @ + Payment(h, a)] ELSE books[a]
      BY <2>1 DEF Claim
    <2> QED
      BY <1>2, <2>2 DEF Book
  <1>6. CASE \E pulled \in [Assets -> Amounts \cup {0}] : Sync(pulled)
    <2>1. PICK pulled \in [Assets -> Amounts \cup {0}] : Sync(pulled)
      BY <1>6
    <2>2. pulled \in [Assets -> Nat]
      <3> DEFINE Pulls == Amounts \cup {0}
      <3>1. pulled \in [Assets -> Pulls] /\ \A n \in Pulls : n \in Nat
        BY <2>1, AmountsAssumption
      <3> HIDE DEF Pulls
      <3> QED
        BY <3>1
    <2>3. Kept(pulled)[a] \in Nat
      <3>1. Sent(pulled) \in Nat /\ Sent(pulled) <= pulled[Eth]
        BY <2>2, SentBounds, ConstantsType
      <3>2. Kept(pulled)[a] = cash[a] + pulled[a] - (IF a = Eth THEN Sent(pulled) ELSE 0)
        BY DEF Kept
      <3>3. cash[a] \in Nat /\ pulled[a] \in Nat
        BY <1>1, <2>2
      <3> QED
        BY <3>1, <3>2, <3>3
    <2> DEFINE n == Recognizable(a, Kept(pulled)[a])
    <2>4. n \in Nat
      BY <1>1, <2>3, RecognizableBounds
    <2>5. books'[a] = IF n = 0 THEN books[a] ELSE Recognized(books[a], n)
      BY <2>1 DEF Sync, Found
    <2> HIDE DEF n
    <2> QED
      BY <2>4, <2>5
  <1>7. CASE \E b \in Assets, n \in Amounts : DepositBonus(b, n)
    <2>1. PICK b \in Assets, n \in Amounts : DepositBonus(b, n)
      BY <1>7
    <2>2. books[b].received \in Nat /\ MaxReceived \in Nat
      BY <1>1, BookFields, ConstantsType
    <2>3. n \in Nat \ {0} /\ books' = [books EXCEPT ![b] = Recognized(books[b], n)]
      BY <2>1, <2>2 DEF DepositBonus
    <2>4. CASE a = b
      BY <1>1, <2>3, <2>4
    <2>5. CASE a # b
      BY <1>1, <2>3, <2>5
    <2> QED
      BY <2>4, <2>5
  <1> QED
    BY <1>3, <1>4, <1>5, <1>6, <1>7, StepKinds DEF IncomeKinds

\* An arrival next to a stream that runs sets its end to the mean of what was left of it
\* and a full period, each weighted by its amount: the end never comes sooner, and a small
\* arrival cannot push it far (HookrIncomeLedger._recognize).
THEOREM ArrivalsWeigh == Spec => ArrivalsBarelyStretch
  <1> DEFINE Weighed == \A a \in Assets :
               LET running == Released(books[a])
                   arrived == books'[a].received - running.received
                   stretch == books'[a].streamEnd - running.streamEnd
               IN  arrived > 0 /\ running.pendingStream > 0 /\ now < running.streamEnd =>
                     /\ stretch >= 0 /\ books'[a].streamEnd <= now + StreamSeconds
                     /\ stretch * running.pendingStream <= arrived * StreamSeconds
  <1>1. ASSUME TokenInvariant, [Next]_vars
        PROVE  Weighed
    <2> SUFFICES ASSUME NEW a \in Assets,
                        books'[a].received - Released(books[a]).received > 0,
                        Released(books[a]).pendingStream > 0, now < Released(books[a]).streamEnd
                 PROVE  LET r == Released(books[a])
                            stretch == books'[a].streamEnd - r.streamEnd
                        IN  /\ stretch >= 0 /\ books'[a].streamEnd <= now + StreamSeconds
                            /\ stretch * r.pendingStream <= (books'[a].received - r.received) * StreamSeconds
      OBVIOUS
    <2> DEFINE r == Released(books[a])
    <2>1. /\ now \in Nat /\ EarningSupply \in Nat /\ books[a] \in Book /\ r \in Book
          /\ r.received = books[a].received /\ r.streamEnd = books[a].streamEnd
          /\ books[a].streamEnd <= now + StreamSeconds
      BY <1>1, SharesFacts, BooksFacts DEF TokenInvariant
    <2>2. /\ r.streamEnd \in Nat /\ r.pendingStream \in Nat /\ r.received \in Nat /\ StreamSeconds \in Nat
      BY <2>1, BookFields, ConstantsType
    <2>3. PICK n \in Nat \ {0} : books'[a] = Recognized(books[a], n)
      <3>1. books'[a].received # books[a].received
        BY <2>1, <2>2
      <3> QED
        BY <1>1, <3>1, StepReceives
    <2> DEFINE w == Window(r, n)
               left == r.streamEnd - now
    <2>4. books'[a].received = r.received + n /\ books'[a].streamEnd = now + w
      BY <2>1, <2>3, RecognizedBook
    <2>5. w \in Nat /\ w <= StreamSeconds /\ left <= w /\ (w - left) * r.pendingStream <= n * StreamSeconds
      <3>1. r.pendingStream > 0 /\ now < r.streamEnd
        OBVIOUS
      <3> HIDE DEF r
      <3> QED
        BY <2>1, <3>1, WindowBounds
    <2> HIDE DEF r, w
    <2>6. /\ books'[a].streamEnd - r.streamEnd = w - left /\ w - left >= 0
          /\ books'[a].received - r.received = n /\ now + w <= now + StreamSeconds
      BY <2>1, <2>2, <2>4, <2>5
    <2> QED
      BY <2>4, <2>5, <2>6 DEF r
  <1>2. TokenInvariant /\ [Next]_vars => [Weighed]_vars
    BY <1>1
  <1> QED
    BY <1>2, TokenStart, TokenKeeps, PTL DEF Spec, ArrivalsBarelyStretch

=============================================================================
