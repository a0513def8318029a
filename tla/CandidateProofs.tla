--------------------------- MODULE CandidateProofs ---------------------------
(* What a candidate of the utilities' release proves, for every bound on the   *)
(* chain and the workspace and every deployment, whoever else uses the         *)
(* contracts: the evidence it rests on is true of the final chain.             *)
EXTENDS ReleaseProofs

-----------------------------------------------------------------------------
(* What a candidate for production proves, beginning with what the log of the  *)
(* contracts tells of the transactions that are mined.                         *)

LoggedCalls ==
  {"lockRewardsDeploy", "launchBoostDeploy", "setRewardSourceOnce", "approveLock", "approveBoost",
   "lock", "boost", "claim", "checkpoint"}

\* A step that moves no weight, no fee and no index, and what it tells.
Quiet(w, v, tx) ==
  /\ v.checkpoint = w.checkpoint /\ v.index = w.index /\ v.pot = w.pot /\ v.positions = w.positions
  /\ w.rewards = 0 \/ (v.schedule = w.schedule /\ v.rewards = w.rewards)
  /\ \/ v.log = w.log /\ tx.call \notin LoggedCalls
     \/ \E o : v.log = Logged(w, tx, o) /\ (tx.call \in {"lock", "boost", "claim"} => ~o.ok)

\* A note in the log is quiet.
LEMMA NotedQuiet ==
  ASSUME NEW u, Shaped(u), NEW w, Shaped(w), NEW tx,
         w.checkpoint = u.checkpoint, w.index = u.index, w.pot = u.pot, w.positions = u.positions, w.log = u.log,
         u.rewards = 0 \/ (w.schedule = u.schedule /\ w.rewards = u.rewards)
  PROVE  /\ tx.call \notin {"lock", "boost", "claim"} => Quiet(u, Noted(w, tx), tx)
         /\ Quiet(u, Reverted(w, tx), tx)
  <1>1. ASSUME NEW o, NEW v, v = [w EXCEPT !.log = Logged(w, tx, o)], tx.call \in {"lock", "boost", "claim"} => ~o.ok
        PROVE  Quiet(u, v, tx)
    <2>1. PICK l : l = Logged(w, tx, o)
      OBVIOUS
    <2>2. l = Logged(u, tx, o)
      BY <2>1 DEF Logged
    <2>3. v = [w EXCEPT !.log = l]
      BY <1>1, <2>1
    <2>4. /\ v.checkpoint = w.checkpoint /\ v.index = w.index /\ v.pot = w.pot /\ v.positions = w.positions
          /\ v.schedule = w.schedule /\ v.rewards = w.rewards /\ v.log = l
      BY <2>3 DEF Shaped, UtilityFields
    <2> QED
      BY <1>1, <2>2, <2>4 DEF Quiet
  <1>2. PICK a : a = Outcome(TRUE, 0, 0, 0)
    OBVIOUS
  <1>3. PICK b : b = Outcome(FALSE, 0, 0, 0)
    OBVIOUS
  <1>4. ~b.ok
    BY <1>3 DEF Outcome
  <1>5. PICK n : n = Noted(w, tx)
    OBVIOUS
  <1>6. PICK r : r = Reverted(w, tx)
    OBVIOUS
  <1>7. n = [w EXCEPT !.log = Logged(w, tx, a)] /\ r = [w EXCEPT !.log = Logged(w, tx, b)]
    BY Zenon, <1>2, <1>3, <1>5, <1>6 DEF Noted, Reverted
  <1> QED
    BY <1>1, <1>4, <1>5, <1>6, <1>7

\* What a transaction does to the contracts: nothing that counts, or a lock, a boost or a claim.
LEMMA StepIs ==
  ASSUME NEW u, BooksOK(u), NEW clock \in Nat, NEW epoch, epoch = EpochAt(u.schedule, clock), u.checkpoint <= epoch,
         NEW tx, NEW now, now = Checkpointed(u, epoch), NEW v, v = UtilityStepAt(u, tx, clock)
  PROVE  \/ Quiet(u, v, tx)
         \/ u.rewards # 0 /\ tx.call = "checkpoint" /\ Quiet(now, v, tx)
         \/ u.rewards # 0 /\ tx.call = "lock" /\ LockHolds(now, tx, clock, epoch) /\ v = Lock(now, tx, clock, epoch)
         \/ u.rewards # 0 /\ tx.call = "boost" /\ BoostHolds(now, tx, clock) /\ v = Boost(now, tx, clock, epoch)
         \/ u.rewards # 0 /\ tx.call = "claim" /\ ClaimHolds(now, tx) /\ v = Claim(now, tx, epoch)
  <1>4. v = UtilityStep(u, now, tx, clock, epoch)
    BY Zenon DEF UtilityStepAt
  <1>5. epoch \in Nat /\ u.checkpoint <= epoch /\ Shaped(u) /\ ScheduleOK(u.schedule) /\ u.checkpoint \in Nat
    <2>1. clock \in Int /\ clock <= clock
      OBVIOUS
    <2> QED
      BY <2>1, EpochsGrow DEF BooksOK, IndexOK
  <1>6. /\ now.rewards = u.rewards /\ now.source = u.source /\ now.boost = u.boost /\ now.positions = u.positions
        /\ now.log = u.log /\ Shaped(now)
    BY <1>5, CheckpointStays, CheckpointLeaves
  <1>7. Quiet(u, Reverted(u, tx), tx)
    BY <1>5, NotedQuiet
  <1>8. tx.call \notin {"lock", "boost", "claim"} => Quiet(u, Noted(u, tx), tx) /\ Quiet(now, Noted(now, tx), tx)
    BY <1>5, <1>6, NotedQuiet
  <1>9. CASE tx.call = "lockRewardsDeploy"
    <2>1. CASE u.rewards # 0
      BY <1>4, <1>8, <1>9, <2>1 DEF UtilityStep
    <2>2. CASE u.rewards = 0
      <3>2. PICK w : w = [u EXCEPT !.rewards = tx.nonce, !.schedule = ScheduleFrom(clock), !.configurator = TRUE]
        OBVIOUS
      <3>4. /\ Shaped(w) /\ w.checkpoint = u.checkpoint /\ w.index = u.index /\ w.pot = u.pot
            /\ w.positions = u.positions /\ w.log = u.log
        BY <1>5, <3>2 DEF Shaped, UtilityFields
      <3>8. v = Noted(w, tx)
        BY <1>4, <1>9, <2>2, <3>2 DEF UtilityStep
      <3> QED
        BY <1>5, <1>9, <2>2, <3>4, <3>8, NotedQuiet
    <2> QED
      BY <2>1, <2>2
  <1>10. ASSUME tx.call \in {"launchBoostDeploy", "setRewardSourceOnce", "approveLock", "approveBoost"},
                NEW w, Shaped(w), w.checkpoint = u.checkpoint, w.index = u.index, w.pot = u.pot,
                w.positions = u.positions, w.log = u.log, w.schedule = u.schedule, w.rewards = u.rewards, v = Noted(w, tx)
         PROVE  Quiet(u, v, tx)
    BY <1>5, <1>10, NotedQuiet
  <1>11. CASE tx.call = "launchBoostDeploy"
    <2>1. CASE u.boost # 0
      BY <1>4, <1>8, <1>11, <2>1 DEF UtilityStep
    <2>2. CASE u.boost = 0
      <3>2. PICK w : w = [u EXCEPT !.boost = tx.nonce, !.core = tx.args[2], !.linked = tx.args[3]]
        OBVIOUS
      <3>4. /\ Shaped(w) /\ w.checkpoint = u.checkpoint /\ w.index = u.index /\ w.pot = u.pot
            /\ w.positions = u.positions /\ w.log = u.log /\ w.schedule = u.schedule /\ w.rewards = u.rewards
        BY <1>5, <3>2 DEF Shaped, UtilityFields
      <3>8. v = Noted(w, tx)
        BY <1>4, <1>11, <2>2, <3>2 DEF UtilityStep
      <3> QED
        BY <1>10, <1>11, <3>4, <3>8
    <2> QED
      BY <2>1, <2>2
  <1>12. CASE tx.call = "setRewardSourceOnce"
    <2>1. CASE ~u.configurator
      BY <1>4, <1>7, <1>12, <2>1 DEF UtilityStep
    <2>2. CASE u.configurator
      <3>2. PICK w : w = [u EXCEPT !.source = tx.args[1], !.configurator = FALSE]
        OBVIOUS
      <3>4. /\ Shaped(w) /\ w.checkpoint = u.checkpoint /\ w.index = u.index /\ w.pot = u.pot
            /\ w.positions = u.positions /\ w.log = u.log /\ w.schedule = u.schedule /\ w.rewards = u.rewards
        BY <1>5, <3>2 DEF Shaped, UtilityFields
      <3>8. v = Noted(w, tx)
        BY <1>4, <1>12, <2>2, <3>2 DEF UtilityStep
      <3> QED
        BY <1>10, <1>12, <3>4, <3>8
    <2> QED
      BY <2>1, <2>2
  <1>13. CASE tx.call \in {"approveLock", "approveBoost"}
    <2>2. PICK w : w = [u EXCEPT !.approved = u.approved \cup {tx.args[1]}]
      OBVIOUS
    <2>4. /\ Shaped(w) /\ w.checkpoint = u.checkpoint /\ w.index = u.index /\ w.pot = u.pot
          /\ w.positions = u.positions /\ w.log = u.log /\ w.schedule = u.schedule /\ w.rewards = u.rewards
      BY <1>5, <2>2 DEF Shaped, UtilityFields
    <2>8. v = Noted(w, tx)
      BY <1>4, <1>13, <2>2 DEF UtilityStep
    <2> QED
      BY <1>10, <1>13, <2>4, <2>8
  <1>14. CASE tx.call = "lock"
    <2>1. CASE ~LockHolds(now, tx, clock, epoch)
      BY <1>4, <1>7, <1>14, <2>1 DEF UtilityStep
    <2>2. CASE LockHolds(now, tx, clock, epoch)
      <3>1. v = Lock(now, tx, clock, epoch)
        BY <1>4, <1>14, <2>2 DEF UtilityStep
      <3>2. now.rewards # 0
        BY <2>2 DEF LockHolds
      <3> QED
        BY <1>6, <1>14, <2>2, <3>1, <3>2
    <2> QED
      BY <2>1, <2>2
  <1>15. CASE tx.call = "boost"
    <2>1. CASE ~BoostHolds(now, tx, clock)
      BY <1>4, <1>7, <1>15, <2>1 DEF UtilityStep
    <2>2. CASE BoostHolds(now, tx, clock)
      <3>1. v = Boost(now, tx, clock, epoch)
        BY <1>4, <1>15, <2>2 DEF UtilityStep
      <3>2. u.rewards # 0
        BY <1>6, <2>2 DEF BoostHolds, BooksOK, Undeployed
      <3> QED
        BY <1>15, <2>2, <3>1, <3>2
    <2> QED
      BY <2>1, <2>2
  <1>16. CASE tx.call = "claim"
    <2>1. CASE ~ClaimHolds(now, tx)
      BY <1>4, <1>7, <1>16, <2>1 DEF UtilityStep
    <2>2. CASE ClaimHolds(now, tx)
      <3>1. v = Claim(now, tx, epoch)
        BY <1>4, <1>16, <2>2 DEF UtilityStep
      <3>2. u.rewards # 0
        <4>1. now.positions # <<>>
          <5>1. tx.args[1] \in DOMAIN now.positions
            BY <2>2 DEF ClaimHolds, PositionsOf
          <5> QED
            BY <5>1
        <4> QED
          BY <1>6, <4>1 DEF BooksOK, Undeployed
      <3> QED
        BY <1>16, <2>2, <3>1, <3>2
    <2> QED
      BY <2>1, <2>2
  <1>17. CASE tx.call = "checkpoint"
    <2>1. v = Noted(IF u.rewards # 0 /\ tx.to = u.rewards THEN now ELSE u, tx)
      BY <1>4, <1>17 DEF UtilityStep
    <2>2. CASE u.rewards # 0 /\ tx.to = u.rewards
      BY <1>8, <1>17, <2>1, <2>2
    <2>3. CASE ~(u.rewards # 0 /\ tx.to = u.rewards)
      BY <1>8, <1>17, <2>1, <2>3
    <2> QED
      BY <2>2, <2>3
  <1>18. CASE tx.call = "transfer"
    <2>1. PICK h : h = IF tx.to = u.rewards THEN u.held + 1 ELSE u.held
      OBVIOUS
    <2>2. v = [u EXCEPT !.held = h]
      BY <1>4, <1>18, <2>1 DEF UtilityStep
    <2>4. /\ v.checkpoint = u.checkpoint /\ v.index = u.index /\ v.pot = u.pot
          /\ v.positions = u.positions /\ v.log = u.log /\ v.schedule = u.schedule /\ v.rewards = u.rewards
      BY <1>5, <2>2 DEF Shaped, UtilityFields
    <2> QED
      BY <1>18, <2>4 DEF Quiet, LoggedCalls
  <1>19. CASE tx.call \notin LoggedCalls \cup {"transfer"}
    <2>1. v = u
      BY <1>4, <1>19 DEF UtilityStep, LoggedCalls
    <2> QED
      BY <1>19, <2>1 DEF Quiet
  <1> QED
    BY <1>9, <1>11, <1>12, <1>13, <1>14, <1>15, <1>16, <1>17, <1>18, <1>19 DEF LoggedCalls

\* What a lock, a boost and a claim leave in the log, and leave alone.
LEMMA CallsLog ==
  ASSUME NEW u, Shaped(u), NEW tx, NEW clock, NEW epoch
  PROVE  /\ LET v == Lock(u, tx, clock, epoch)
            IN \E o : v.log = Logged(u, tx, o) /\ o.ok
         /\ LET v == Boost(u, tx, clock, epoch)
            IN \E o : v.log = Logged(u, tx, o) /\ o.ok
         /\ LET v == Claim(u, tx, epoch)
            IN \E o : v.log = Logged(u, tx, o) /\ o.ok
  <1>1. ASSUME NEW a, NEW b, NEW d, NEW v, NEW h, NEW p,
               v = [u EXCEPT !.positions = p, !.held = h, !.approved = b, !.log = Logged(u, tx, Outcome(TRUE, a, d, tx.args[1]))]
        PROVE  \E o : v.log = Logged(u, tx, o) /\ o.ok
    <2>1. PICK o : o = Outcome(TRUE, a, d, tx.args[1])
      OBVIOUS
    <2>2. PICK l : l = Logged(u, tx, o)
      OBVIOUS
    <2>3. v = [u EXCEPT !.positions = p, !.held = h, !.approved = b, !.log = l]
      BY <1>1, <2>1, <2>2
    <2>4. v.log = l
      BY <2>3 DEF Shaped, UtilityFields
    <2> QED
      BY <2>1, <2>2, <2>4 DEF Outcome
  <1>2. \E o : Lock(u, tx, clock, epoch).log = Logged(u, tx, o) /\ o.ok
    BY Zenon, <1>1 DEF Lock
  <1>3. \E o : Boost(u, tx, clock, epoch).log = Logged(u, tx, o) /\ o.ok
    <2>1. PICK fee : fee = IF EligibleWeight(u, epoch) = 0 THEN 0 ELSE Fee
      OBVIOUS
    <2>2. PICK o : o = Outcome(TRUE, 0, epoch, fee)
      OBVIOUS
    <2>3. PICK l : l = Logged(u, tx, o)
      OBVIOUS
    <2>4. PICK v : v = Boost(u, tx, clock, epoch)
      OBVIOUS
    <2>5. v.log = l
      BY <2>1, <2>2, <2>3, <2>4 DEF Shaped, UtilityFields, Boost
    <2> QED
      BY <2>2, <2>3, <2>4, <2>5 DEF Outcome
  <1>4. \E o : Claim(u, tx, epoch).log = Logged(u, tx, o) /\ o.ok
    <2>1. PICK reward : reward = RewardOf(u, u.positions[tx.args[1]])
      OBVIOUS
    <2>2. PICK o : o = Outcome(TRUE, tx.args[1], epoch, reward)
      OBVIOUS
    <2>3. PICK l : l = Logged(u, tx, o)
      OBVIOUS
    <2>4. PICK v : v = Claim(u, tx, epoch)
      OBVIOUS
    <2>5. v.log = l
      BY <2>1, <2>2, <2>3, <2>4 DEF Shaped, UtilityFields, Claim
    <2> QED
      BY <2>2, <2>3, <2>4, <2>5 DEF Outcome
  <1> QED
    BY <1>2, <1>3, <1>4

\* The log only grows: a step writes its own transaction's entry and no other.
LogGrows(u, v, tx) ==
  /\ \A t \in DOMAIN u.log : t # tx => t \in DOMAIN v.log /\ v.log[t] = u.log[t]
  /\ tx.call \in LoggedCalls => tx \in DOMAIN v.log

\* A step does not rewrite what earlier transactions left in the log.
LEMMA StepLogs ==
  ASSUME NEW u, BooksOK(u), NEW clock \in Nat, u.checkpoint <= EpochAt(u.schedule, clock),
         NEW tx, NEW v, v = UtilityStepAt(u, tx, clock)
  PROVE  LogGrows(u, v, tx)
  <1>1. PICK epoch : epoch = EpochAt(u.schedule, clock)
    OBVIOUS
  <1>2. PICK now : now = Checkpointed(u, epoch)
    OBVIOUS
  <1>3. Shaped(now) /\ now.log = u.log
    BY <1>2, CheckpointLeaves DEF BooksOK
  <1>4. ASSUME NEW w, w.log = u.log, \E o : v.log = Logged(w, tx, o)
        PROVE  /\ \A t \in DOMAIN u.log : t # tx => t \in DOMAIN v.log /\ v.log[t] = u.log[t]
               /\ tx \in DOMAIN v.log
    BY <1>4 DEF Logged
  <1>5. ASSUME NEW w, w.log = u.log, Quiet(w, v, tx)
        PROVE  /\ \A t \in DOMAIN u.log : t # tx => t \in DOMAIN v.log /\ v.log[t] = u.log[t]
               /\ tx.call \in LoggedCalls => tx \in DOMAIN v.log
    BY <1>4, <1>5 DEF Quiet
  <1>6. ASSUME v = Lock(now, tx, clock, epoch) \/ v = Boost(now, tx, clock, epoch) \/ v = Claim(now, tx, epoch)
        PROVE  \E o : v.log = Logged(now, tx, o)
    BY <1>3, <1>6, CallsLog
  <1>7. \/ Quiet(u, v, tx) \/ Quiet(now, v, tx)
        \/ v = Lock(now, tx, clock, epoch) \/ v = Boost(now, tx, clock, epoch) \/ v = Claim(now, tx, epoch)
    BY <1>1, <1>2, StepIs
  <1> QED
    BY <1>3, <1>4, <1>5, <1>6, <1>7 DEF LogGrows

-----------------------------------------------------------------------------
(* The second period's fees and the weight they are shared by, as the          *)
(* transactions of a chain tell them.  D is what was mined, c when.            *)

Won(u, D, call) == {tx \in D : tx.call = call /\ u.log[tx].ok}

EarlyLocks(u, D, c) == {tx \in Won(u, D, "lock") : c[tx] < u.schedule.fee}

EarlyBoosts(u, D, c) == {tx \in Won(u, D, "boost") : c[tx] < u.schedule.claim}

WeightOf(S) == SumFunctionOnSet([tx \in S |-> tx.args[1]], S)

\* The index grows by the fees of n boosts when their period is checkpointed.
FeesTold(u, weight, n) ==
  /\ u.checkpoint = 0 => u.pot = 0 /\ n = 0
  /\ u.checkpoint = 1 => u.pot = IF weight = 0 THEN 0 ELSE Fee * n
  /\ u.checkpoint >= 2 => u.index[2] = u.index[1] + (IF weight = 0 THEN 0 ELSE ((Fee * n) * Q128) \div weight)

AllLogged(u, D) == \A tx \in D : tx.call \in LoggedCalls => tx \in DOMAIN u.log

Story(u, D, c) ==
  /\ IsFiniteSet(D) /\ \A tx \in D : TxOK(tx)
  /\ AllLogged(u, D)
  /\ u.rewards = 0 => Won(u, D, "lock") = {} /\ Won(u, D, "boost") = {}
  /\ DOMAIN u.index = 0..u.checkpoint
  /\ WeightOf(EarlyLocks(u, D, c)) = EligibleWeight(u, 1)
  /\ FeesTold(u, EligibleWeight(u, 1), Cardinality(EarlyBoosts(u, D, c)))

\* Which periods are early.
LEMMA EarlyEpochs ==
  ASSUME NEW s, ScheduleOK(s), NEW time \in Int
  PROVE  (EpochAt(s, time) = 0 <=> time < s.fee) /\ (EpochAt(s, time) < 2 <=> time < s.claim)
  <1>1. s.fee \in Int /\ s.claim \in Int /\ s.weekly \in Int /\ s.fee <= s.claim /\ s.claim <= s.weekly
    BY DEF ScheduleOK
  <1>2. CASE time < s.weekly
    BY <1>1, <1>2 DEF EpochAt
  <1>3. CASE ~(time < s.weekly)
    <2>1. time - s.weekly \in Nat /\ WeekLength \in Nat \ {0}
      BY <1>1, <1>3, UtilityNumbers
    <2>2. (time - s.weekly) \div WeekLength \in Nat
      BY <2>1, DivisionBounds
    <2>3. EpochAt(s, time) = 3 + (time - s.weekly) \div WeekLength
      BY <1>1, <1>3 DEF EpochAt
    <2> QED
      BY <1>1, <1>3, <2>2, <2>3
  <1> QED
    BY <1>2, <1>3

\* A lock or a boost that succeeds is won, and nothing else changes what was.
WonMoves(u, v, D, tx) ==
  \A call \in {"lock", "boost"} :
    Won(v, D \cup {tx}, call) = IF tx.call = call /\ v.log[tx].ok THEN Won(u, D, call) \cup {tx} ELSE Won(u, D, call)

\* What a step adds to what was won.
LEMMA WonGrows ==
  ASSUME NEW u, NEW v, NEW D, AllLogged(u, D), NEW tx, tx \notin D, LogGrows(u, v, tx)
  PROVE  AllLogged(v, D \cup {tx}) /\ WonMoves(u, v, D, tx)
  <1>1. \A t \in D : t.call \in LoggedCalls => v.log[t] = u.log[t]
    BY DEF AllLogged, LogGrows
  <1>2. AllLogged(v, D \cup {tx})
    BY DEF AllLogged, LogGrows
  <1>3. ASSUME NEW call \in {"lock", "boost"}
        PROVE  Won(v, D \cup {tx}, call) = IF tx.call = call /\ v.log[tx].ok THEN Won(u, D, call) \cup {tx} ELSE Won(u, D, call)
    BY <1>1 DEF Won, LoggedCalls
  <1> QED
    BY <1>2, <1>3 DEF WonMoves

\* What was won is no more than what was mined.
LEMMA WonIsFinite ==
  ASSUME NEW u, NEW D, NEW c, Story(u, D, c)
  PROVE  /\ \A call : Won(u, D, call) \subseteq D /\ IsFiniteSet(Won(u, D, call))
         /\ IsFiniteSet(EarlyLocks(u, D, c)) /\ EarlyLocks(u, D, c) \subseteq D
         /\ IsFiniteSet(EarlyBoosts(u, D, c)) /\ EarlyBoosts(u, D, c) \subseteq D
         /\ Cardinality(EarlyBoosts(u, D, c)) \in Nat
         /\ \A tx \in EarlyLocks(u, D, c) : tx.args[1] \in Nat
  <1>1. IsFiniteSet(D)
    BY DEF Story
  <1>2. /\ \A call : Won(u, D, call) \subseteq D
        /\ EarlyLocks(u, D, c) \subseteq D /\ EarlyBoosts(u, D, c) \subseteq D
    BY DEF Won, EarlyLocks, EarlyBoosts
  <1>3. \A tx \in EarlyLocks(u, D, c) : tx.args[1] \in Nat
    BY <1>2 DEF Won, EarlyLocks, Story, TxOK
  <1> QED
    BY <1>1, <1>2, <1>3, FS_Subset, FS_CardinalityType

\* A checkpoint settles the first fees by the weight they found.
LEMMA CheckpointTells ==
  ASSUME NEW u, BooksOK(u), u.rewards # 0, NEW epoch \in Nat, u.checkpoint <= epoch, NEW D, NEW c, Story(u, D, c)
  PROVE  Story(Checkpointed(u, epoch), D, c)
  <1>1. CASE epoch <= u.checkpoint
    BY <1>1 DEF Checkpointed
  <1>2. CASE ~(epoch <= u.checkpoint)
    <2>1. PICK v : v = Checkpointed(u, epoch)
      OBVIOUS
    <2>2. u.checkpoint \in Nat /\ Shaped(u) /\ PositionsOK(u) /\ u.pot \in Nat
      BY DEF BooksOK, IndexOK, LedgersOK
    <2>3. PICK delta : delta = IF EligibleWeight(u, u.checkpoint) = 0 THEN 0
                               ELSE (u.pot * Q128) \div EligibleWeight(u, u.checkpoint)
      OBVIOUS
    <2>4. /\ v.checkpoint = epoch /\ v.pot = 0
          /\ v.index = [e \in 0..epoch |-> IF e <= u.checkpoint THEN u.index[e] ELSE u.index[u.checkpoint] + delta]
      BY <1>2, <2>1, <2>2, <2>3, CheckpointSets
    <2>5. /\ v.positions = u.positions /\ v.schedule = u.schedule /\ v.rewards = u.rewards /\ v.log = u.log
      BY <2>1, <2>2, CheckpointLeaves
    <2>6. PICK w : w = EligibleWeight(u, 1)
      OBVIOUS
    <2>7. EligibleWeight(v, 1) = w
      BY <2>5, <2>6 DEF EligibleWeight, Eligible
    <2>8. /\ \A call : Won(v, D, call) = Won(u, D, call)
          /\ EarlyLocks(v, D, c) = EarlyLocks(u, D, c) /\ EarlyBoosts(v, D, c) = EarlyBoosts(u, D, c)
      BY <2>5 DEF Won, EarlyLocks, EarlyBoosts
    <2>9. PICK n : n = Cardinality(EarlyBoosts(u, D, c))
      OBVIOUS
    <2>10. w \in Nat /\ EligibleWeight(u, u.checkpoint) \in Nat /\ Q128 \in Nat \ {0} /\ Fee \in Nat \ {0}
      BY <2>2, <2>6, WeightIsNumber, UtilityNumbers
    <2>11. n \in Nat /\ FeesTold(u, w, n)
      BY <2>6, <2>9, WonIsFinite DEF Story
    <2>12. \A e \in 0..u.checkpoint : u.index[e] \in Nat
      BY DEF BooksOK, IndexOK
    <2>13. FeesTold(v, w, n)
      <3>1. CASE u.checkpoint = 0
        <4>1. delta = 0
          <5>1. CASE EligibleWeight(u, u.checkpoint) = 0
            BY <2>3, <5>1
          <5>2. CASE EligibleWeight(u, u.checkpoint) # 0
            <6>1. PICK d \in Nat \ {0} : d = EligibleWeight(u, u.checkpoint)
              BY <2>10, <5>2
            <6>2. u.pot * Q128 = 0 * d
              BY <2>10, <2>11, <3>1 DEF FeesTold
            <6>3. (0 * d) \div d = 0
              BY DivisionExact
            <6> QED
              BY <2>3, <6>1, <6>2, <6>3
          <5> QED
            BY <5>1, <5>2
        <4>2. n = 0
          BY <2>11, <3>1 DEF FeesTold
        <4>3. epoch >= 2 => v.index[2] = v.index[1]
          BY <1>2, <2>2, <2>4, <3>1
        <4>4. (IF w = 0 THEN 0 ELSE ((Fee * n) * Q128) \div w) = 0
          <5>1. CASE w = 0
            BY <5>1
          <5>2. CASE w # 0
            <6>1. w \in Nat \ {0}
              BY <2>10, <5>2
            <6>2. (Fee * n) * Q128 = 0 * w
              BY <2>10, <4>2
            <6>3. (0 * w) \div w = 0
              BY <6>1, DivisionExact
            <6> QED
              BY <5>2, <6>2, <6>3
          <5> QED
            BY <5>1, <5>2
        <4>5. epoch >= 1 /\ (epoch >= 2 => v.index[1] \in Nat)
          <5>1. epoch >= 1
            BY <1>2, <2>2, <3>1
          <5>2. epoch >= 2 => v.index[1] = u.index[0] + 0
            BY <2>4, <3>1, <4>1
          <5>3. u.index[0] \in Nat
            BY <2>12, <3>1
          <5> QED
            BY <5>1, <5>2, <5>3
        <4>6. Fee * n = 0
          BY <2>10, <4>2
        <4> QED
          BY <2>4, <4>2, <4>3, <4>4, <4>5, <4>6 DEF FeesTold
      <3>2. CASE u.checkpoint = 1
        <4>1. u.pot = IF w = 0 THEN 0 ELSE Fee * n
          BY <2>11, <3>2 DEF FeesTold
        <4>2. epoch >= 2 /\ v.index[1] = u.index[1] /\ v.index[2] = u.index[1] + delta
          BY <1>2, <2>4, <3>2
        <4>3. delta = IF w = 0 THEN 0 ELSE ((Fee * n) * Q128) \div w
          BY <2>3, <2>6, <3>2, <4>1
        <4> QED
          BY <2>4, <4>2, <4>3 DEF FeesTold
      <3>3. CASE u.checkpoint \notin {0, 1}
        <4>1. u.checkpoint >= 2 /\ epoch >= 2
          BY <1>2, <2>2, <3>3
        <4>2. 1 \in 0..epoch /\ 2 \in 0..epoch /\ 1 <= u.checkpoint /\ 2 <= u.checkpoint
          BY <2>2, <4>1
        <4>3. v.index[1] = u.index[1] /\ v.index[2] = u.index[2]
          BY <2>4, <4>2
        <4> QED
          BY <2>4, <2>11, <4>1, <4>3 DEF FeesTold
      <3> QED
        BY <3>1, <3>2, <3>3
    <2>14. DOMAIN v.index = 0..v.checkpoint
      BY <2>4
    <2> QED
      BY <2>1, <2>5, <2>6, <2>7, <2>8, <2>9, <2>13, <2>14 DEF Story, AllLogged
  <1> QED
    BY <1>1, <1>2

\* What is neither won nor weighed leaves the story as it is.
LEMMA QuietTells ==
  ASSUME NEW u, NEW v, NEW D, NEW c, Story(u, D, c), NEW tx, tx \notin D, TxOK(tx), Quiet(u, v, tx), LogGrows(u, v, tx)
  PROVE  Story(v, D \cup {tx}, c)
  <1>1. AllLogged(u, D) /\ IsFiniteSet(D)
    BY DEF Story
  <1>2. tx.call \in {"lock", "boost"} => ~v.log[tx].ok
    BY DEF Quiet, Logged, LoggedCalls, LogGrows
  <1>3. /\ AllLogged(v, D \cup {tx})
        /\ \A call \in {"lock", "boost"} : Won(v, D \cup {tx}, call) = Won(u, D, call)
    <2>1. AllLogged(v, D \cup {tx}) /\ WonMoves(u, v, D, tx)
      BY <1>1, WonGrows
    <2>2. \A call \in {"lock", "boost"} :
            Won(v, D \cup {tx}, call) = IF tx.call = call /\ v.log[tx].ok THEN Won(u, D, call) \cup {tx} ELSE Won(u, D, call)
      BY Zenon, <2>1 DEF WonMoves
    <2>3. ASSUME NEW call \in {"lock", "boost"}
          PROVE  Won(v, D \cup {tx}, call) = Won(u, D, call)
      <3>1. ~(tx.call = call /\ v.log[tx].ok)
        BY <1>2
      <3> QED
        BY Zenon, <2>2, <3>1
    <2> QED
      BY <2>1, <2>3
  <1>4. EarlyLocks(v, D \cup {tx}, c) = EarlyLocks(u, D, c) /\ EarlyBoosts(v, D \cup {tx}, c) = EarlyBoosts(u, D, c)
    <2>1. CASE u.rewards = 0
      <3>1. Won(u, D, "lock") = {} /\ Won(u, D, "boost") = {}
        BY <2>1 DEF Story
      <3> QED
        BY <1>3, <3>1 DEF EarlyLocks, EarlyBoosts
    <2>2. CASE u.rewards # 0
      BY <1>3, <2>2 DEF EarlyLocks, EarlyBoosts, Quiet
    <2> QED
      BY <2>1, <2>2
  <1>5. v.rewards = 0 => u.rewards = 0
    BY DEF Quiet
  <1>6. EligibleWeight(v, 1) = EligibleWeight(u, 1)
    BY DEF Quiet, EligibleWeight, Eligible
  <1>7. ASSUME NEW w, NEW n, FeesTold(u, w, n) PROVE FeesTold(v, w, n)
    BY <1>7 DEF FeesTold, Quiet
  <1>8. IsFiniteSet(D \cup {tx})
    BY <1>1, FS_AddElement
  <1>9. DOMAIN v.index = 0..v.checkpoint
    BY DEF Quiet, Story
  <1> QED
    BY <1>3, <1>4, <1>5, <1>6, <1>7, <1>8, <1>9 DEF Story

\* A sum over what was mined gains the new term.
LEMMA WeightAdds ==
  ASSUME NEW S, IsFiniteSet(S), \A t \in S : t.args[1] \in Nat, NEW tx, tx.args[1] \in Nat, tx \notin S
  PROVE  WeightOf(S \cup {tx}) = WeightOf(S) + tx.args[1]
  <1> DEFINE f == [t \in S |-> t.args[1]]
             g == [t \in S \cup {tx} |-> t.args[1]]
  <1>1. WeightOf(S) = SumFunctionOnSet(f, S) /\ WeightOf(S \cup {tx}) = SumFunctionOnSet(g, S \cup {tx})
    BY DEF WeightOf
  <1>2. (\A t \in S : f[t] = g[t]) /\ (\A t \in S \cup {tx} : g[t] \in Int) /\ g[tx] = tx.args[1]
    OBVIOUS
  <1> HIDE DEF f, g
  <1>3. SumFunctionOnSet(f, S) = SumFunctionOnSet(g, S)
    BY <1>2, SumSame
  <1>4. SumFunctionOnSet(g, S \cup {tx}) = SumFunctionOnSet(g, S) + g[tx]
    BY <1>2, SumInsert
  <1> QED
    BY <1>1, <1>2, <1>3, <1>4

\* A new position adds its weight to the periods it is eligible in.
LEMMA PositionAdds ==
  ASSUME NEW u, PositionsOK(u), NEW v, PositionsOK(v), NEW p, v.positions = Append(u.positions, p), p.weight \in Nat,
         p.activation \in Nat, p.expiry \in Nat, 1 < p.expiry
  PROVE  EligibleWeight(v, 1) = EligibleWeight(u, 1) + (IF p.activation <= 1 THEN p.weight ELSE 0)
  <1>1. PICK n \in Nat : n = Len(u.positions)
    BY ListDomain DEF PositionsOK
  <1>2. PICK m \in Nat : m = n + 1
    OBVIOUS
  <1>3. /\ Len(v.positions) = m /\ v.positions[m] = p /\ \A i \in 1..n : v.positions[i] = u.positions[i]
    BY <1>1, <1>2, AppendIsSeq, ListDomain DEF PositionsOK, IsSeq
  <1>4. DOMAIN u.positions = 1..n /\ DOMAIN v.positions = 1..m /\ 1..m = (1..n) \cup {m} /\ m \notin 1..n
    BY <1>1, <1>2, <1>3, ListDomain DEF PositionsOK
  <1> DEFINE f == [i \in 1..n |-> u.positions[i].weight]
             g == [i \in 1..m |-> v.positions[i].weight]
             S == Eligible(u, 1)
  <1>5. /\ EligibleWeight(u, 1) = SumFunctionOnSet(f, S) /\ S \subseteq 1..n /\ IsFiniteSet(S)
        /\ EligibleWeight(v, 1) = SumFunctionOnSet(g, Eligible(v, 1))
        /\ EligibleWeight(u, 1) \in Nat
    <2>1. 1 \in Nat
      OBVIOUS
    <2>2. /\ EligibleWeight(u, 1) \in Nat
          /\ Eligible(u, 1) \subseteq 1..Len(u.positions) /\ IsFiniteSet(Eligible(u, 1))
          /\ EligibleWeight(u, 1)
               = SumFunctionOnSet([i \in 1..Len(u.positions) |-> u.positions[i].weight], Eligible(u, 1))
      BY <2>1, WeightIsNumber
    <2>3. EligibleWeight(v, 1)
            = SumFunctionOnSet([i \in 1..Len(v.positions) |-> v.positions[i].weight], Eligible(v, 1))
      BY <2>1, WeightIsNumber
    <2> QED
      BY Zenon, <1>1, <1>3, <2>2, <2>3
  <1>6. Eligible(v, 1) = IF p.activation <= 1 THEN S \cup {m} ELSE S
    BY <1>3, <1>4 DEF Eligible
  <1>7. /\ \A i \in S : f[i] = g[i]
        /\ \A i \in S \cup {m} : g[i] \in Int
        /\ g[m] = p.weight
    <2>1. \A i \in 1..n : u.positions[i].weight \in Nat
      BY <1>1 DEF PositionsOK, PositionOK
    <2>2. \A i \in 1..n : i \in 1..m
      BY <1>4
    <2>3. \A i \in 1..n : f[i] = g[i] /\ g[i] \in Nat
      BY <1>3, <2>1, <2>2
    <2>4. g[m] = p.weight
      BY <1>3, <1>4
    <2>5. S \subseteq 1..n
      BY <1>5
    <2> HIDE DEF f, g, S
    <2>6. \A i \in S : f[i] = g[i]
      BY <2>3, <2>5
    <2>7. \A i \in S \cup {m} : g[i] \in Int
      BY <2>3, <2>4, <2>5
    <2> QED
      BY <2>4, <2>6, <2>7
  <1>8. m \notin S
    BY <1>4, <1>5
  <1> HIDE DEF f, g, S
  <1>9. SumFunctionOnSet(f, S) = SumFunctionOnSet(g, S)
    BY <1>5, <1>7, SumSame
  <1>10. \A i \in S \cup {m} : g[i] \in Int
    BY <1>7
  <1>11. SumFunctionOnSet(g, S \cup {m}) = SumFunctionOnSet(g, S) + g[m]
    <2>1. IsFiniteSet(S)
      BY <1>5
    <2> QED
      BY <1>8, <1>10, <2>1, SumInsert
  <1>12. CASE p.activation <= 1
    <2>1. Eligible(v, 1) = S \cup {m}
      BY Zenon, <1>6, <1>12
    <2> QED
      BY <1>5, <1>7, <1>9, <1>11, <1>12, <2>1
  <1>13. CASE ~(p.activation <= 1)
    <2>1. Eligible(v, 1) = S
      BY Zenon, <1>6, <1>13
    <2> QED
      BY <1>5, <1>9, <1>13, <2>1
  <1> QED
    BY <1>12, <1>13

\* A lock in the first period adds its weight to those that share the first fees; a later one does not.
LEMMA LockTells ==
  ASSUME NEW u, BooksOK(u), u.rewards # 0, NEW clock \in Nat, NEW epoch \in Nat, epoch = EpochAt(u.schedule, clock),
         u.checkpoint = epoch, NEW tx, TxOK(tx), tx.call = "lock", EpochAt(u.schedule, clock + LockLength) > epoch + 1,
         NEW D, tx \notin D, NEW c, c[tx] = clock, Story(u, D, c), NEW v, v = Lock(u, tx, clock, epoch), LogGrows(u, v, tx)
  PROVE  Story(v, D \cup {tx}, c)
  <1>1. Shaped(u) /\ PositionsOK(u) /\ ScheduleOK(u.schedule) /\ tx.args[1] \in Nat
    BY DEF BooksOK, TxOK
  <1>2. BooksOK(v) /\ PositionsOK(v)
    BY <1>1, LockKeeps DEF BooksOK
  <1>3. PICK end \in Nat : end = EpochAt(u.schedule, clock + LockLength)
    BY <1>1, UtilityNumbers, EpochsGrow
  <1>4. PICK p : p = [owner |-> tx.from, weight |-> tx.args[1], unlockAt |-> clock + LockLength,
                      activation |-> epoch + 1, last |-> epoch + 1, expiry |-> end]
    OBVIOUS
  <1>5. /\ v.positions = Append(u.positions, p)
        /\ v.checkpoint = u.checkpoint /\ v.index = u.index /\ v.pot = u.pot
        /\ v.schedule = u.schedule /\ v.rewards = u.rewards
    <2>1. /\ v.positions = Append(u.positions,
                             [owner |-> tx.from, weight |-> tx.args[1], unlockAt |-> clock + LockLength,
                              activation |-> epoch + 1, last |-> epoch + 1,
                              expiry |-> EpochAt(u.schedule, clock + LockLength)])
          /\ v.checkpoint = u.checkpoint /\ v.index = u.index /\ v.pot = u.pot
          /\ v.schedule = u.schedule /\ v.rewards = u.rewards
      BY <1>1, LockSets
    <2> QED
      BY Zenon, <1>3, <1>4, <2>1
  <1>6. p.weight = tx.args[1] /\ p.activation = epoch + 1 /\ p.expiry = end /\ end > epoch + 1
    BY <1>3, <1>4
  <1>7. EligibleWeight(v, 1) = EligibleWeight(u, 1) + (IF epoch = 0 THEN tx.args[1] ELSE 0)
    <2>1. p.activation \in Nat /\ p.expiry \in Nat /\ 1 < p.expiry /\ p.weight \in Nat
      BY <1>1, <1>6
    <2>2. EligibleWeight(v, 1) = EligibleWeight(u, 1) + (IF p.activation <= 1 THEN p.weight ELSE 0)
      BY <1>1, <1>2, <1>5, <2>1, PositionAdds
    <2> QED
      BY <1>6, <2>2
  <1>8. epoch = 0 <=> clock < u.schedule.fee
    BY <1>1, EarlyEpochs
  <1>9. v.log[tx].ok
    <2>1. PICK o : v.log = Logged(u, tx, o) /\ o.ok
      BY <1>1, CallsLog
    <2> QED
      BY <2>1 DEF Logged
  <1>10. AllLogged(u, D) /\ IsFiniteSet(D) /\ DOMAIN u.index = 0..u.checkpoint
    BY DEF Story
  <1>11. AllLogged(v, D \cup {tx}) /\ WonMoves(u, v, D, tx)
    BY <1>10, WonGrows
  <1>12. /\ Won(v, D \cup {tx}, "lock") = Won(u, D, "lock") \cup {tx}
         /\ Won(v, D \cup {tx}, "boost") = Won(u, D, "boost")
    BY <1>9, <1>11 DEF WonMoves
  <1>13. EarlyBoosts(v, D \cup {tx}, c) = EarlyBoosts(u, D, c)
    BY <1>5, <1>12 DEF EarlyBoosts
  <1>14. EarlyLocks(v, D \cup {tx}, c) = IF epoch = 0 THEN EarlyLocks(u, D, c) \cup {tx} ELSE EarlyLocks(u, D, c)
    BY <1>5, <1>8, <1>12 DEF EarlyLocks
  <1>15. WeightOf(EarlyLocks(v, D \cup {tx}, c)) = EligibleWeight(v, 1)
    <2>1. PICK S : S = EarlyLocks(u, D, c)
      OBVIOUS
    <2>2. IsFiniteSet(S) /\ tx \notin S /\ \A t \in S : t.args[1] \in Nat
      BY <2>1, WonIsFinite
    <2>3. WeightOf(S \cup {tx}) = WeightOf(S) + tx.args[1]
      BY <1>1, <2>2, WeightAdds
    <2>4. WeightOf(S) = EligibleWeight(u, 1)
      BY <2>1 DEF Story
    <2>5. EligibleWeight(u, 1) \in Nat
      BY <1>1, WeightIsNumber
    <2> QED
      BY <1>7, <1>14, <2>1, <2>3, <2>4, <2>5
  <1>16. PICK n : n = Cardinality(EarlyBoosts(u, D, c))
    OBVIOUS
  <1>17. FeesTold(v, EligibleWeight(v, 1), n)
    <2>1. FeesTold(u, EligibleWeight(u, 1), n) /\ EligibleWeight(u, 1) \in Nat
      BY <1>1, <1>16, WeightIsNumber DEF Story
    <2>2. CASE epoch = 0
      BY <1>5, <2>1, <2>2 DEF FeesTold
    <2>3. CASE epoch # 0
      <3>1. EligibleWeight(v, 1) = EligibleWeight(u, 1)
        BY <1>7, <2>1, <2>3
      <3> QED
        BY <1>5, <2>1, <3>1 DEF FeesTold
    <2> QED
      BY <2>2, <2>3
  <1>18. IsFiniteSet(D \cup {tx}) /\ \A t \in D \cup {tx} : TxOK(t)
    BY <1>10, FS_AddElement DEF Story
  <1> QED
    BY <1>5, <1>10, <1>11, <1>13, <1>15, <1>16, <1>17, <1>18 DEF Story

\* A boost in the second period adds its fee to the first fees; a later one does not.
LEMMA BoostTells ==
  ASSUME NEW u, BooksOK(u), u.rewards # 0, NEW clock \in Nat, NEW epoch \in Nat, epoch = EpochAt(u.schedule, clock),
         u.checkpoint = epoch, NEW tx, TxOK(tx), tx.call = "boost", u.schedule.fee <= clock,
         NEW D, tx \notin D, NEW c, c[tx] = clock, Story(u, D, c), NEW v, v = Boost(u, tx, clock, epoch), LogGrows(u, v, tx)
  PROVE  Story(v, D \cup {tx}, c)
  <1>1. Shaped(u) /\ PositionsOK(u) /\ ScheduleOK(u.schedule)
    BY DEF BooksOK
  <1>2. PICK w \in Nat : w = EligibleWeight(u, 1)
    BY <1>1, WeightIsNumber
  <1>3. PICK fee : fee = IF EligibleWeight(u, epoch) = 0 THEN 0 ELSE Fee
    OBVIOUS
  <1>4. /\ v.pot = u.pot + fee /\ v.checkpoint = u.checkpoint /\ v.index = u.index /\ v.positions = u.positions
        /\ v.schedule = u.schedule /\ v.rewards = u.rewards
    <2>1. /\ Shaped(v)
          /\ v.boosts = Append(u.boosts,
                          [token |-> tx.args[1], creator |-> tx.from, principal |-> BoostGross - fee,
                           fee |-> fee, startedAt |-> clock, unlockAt |-> clock + LockLength])
          /\ v.held = u.held + fee /\ v.pot = u.pot + fee /\ v.reserve = u.reserve + fee
          /\ v.notified = u.notified + fee /\ v.claimed = u.claimed
          /\ v.checkpoint = u.checkpoint /\ v.index = u.index /\ v.positions = u.positions
          /\ v.schedule = u.schedule /\ v.rewards = u.rewards
      BY <1>1, <1>3, BoostSets
    <2> QED
      BY <2>1
  <1>5. EligibleWeight(v, 1) = w
    BY <1>2, <1>4 DEF EligibleWeight, Eligible
  <1>6. (epoch = 0 <=> clock < u.schedule.fee) /\ (epoch < 2 <=> clock < u.schedule.claim)
    <2>1. clock \in Int
      OBVIOUS
    <2>2. /\ EpochAt(u.schedule, clock) = 0 <=> clock < u.schedule.fee
          /\ EpochAt(u.schedule, clock) < 2 <=> clock < u.schedule.claim
      BY <1>1, <2>1, EarlyEpochs
    <2> QED
      BY <2>2
  <1>7. epoch >= 1 /\ (epoch = 1 <=> clock < u.schedule.claim)
    BY <1>1, <1>6 DEF ScheduleOK
  <1>8. v.log[tx].ok
    <2>1. PICK o : v.log = Logged(u, tx, o) /\ o.ok
      BY <1>1, CallsLog
    <2> QED
      BY <2>1 DEF Logged
  <1>9. AllLogged(u, D) /\ IsFiniteSet(D) /\ DOMAIN u.index = 0..u.checkpoint
    BY DEF Story
  <1>10. AllLogged(v, D \cup {tx}) /\ WonMoves(u, v, D, tx)
    BY <1>9, WonGrows
  <1>11. /\ Won(v, D \cup {tx}, "lock") = Won(u, D, "lock")
         /\ Won(v, D \cup {tx}, "boost") = Won(u, D, "boost") \cup {tx}
    BY <1>8, <1>10 DEF WonMoves
  <1>12. EarlyLocks(v, D \cup {tx}, c) = EarlyLocks(u, D, c)
    BY <1>4, <1>11 DEF EarlyLocks
  <1>13. EarlyBoosts(v, D \cup {tx}, c) = IF epoch = 1 THEN EarlyBoosts(u, D, c) \cup {tx} ELSE EarlyBoosts(u, D, c)
    BY <1>4, <1>7, <1>11 DEF EarlyBoosts
  <1>14. PICK n \in Nat : n = Cardinality(EarlyBoosts(u, D, c))
    BY WonIsFinite
  <1>15. Cardinality(EarlyBoosts(v, D \cup {tx}, c)) = IF epoch = 1 THEN n + 1 ELSE n
    <2>1. IsFiniteSet(EarlyBoosts(u, D, c)) /\ tx \notin EarlyBoosts(u, D, c)
      BY WonIsFinite
    <2>2. Cardinality(EarlyBoosts(u, D, c) \cup {tx}) = n + 1
      BY <1>14, <2>1, FS_AddElement
    <2> QED
      BY <1>13, <1>14, <2>2
  <1>16. FeesTold(u, w, n)
    BY <1>2, <1>14 DEF Story
  <1>17. FeesTold(v, w, IF epoch = 1 THEN n + 1 ELSE n)
    <2>1. CASE epoch = 1
      <3>1. v.pot = u.pot + (IF w = 0 THEN 0 ELSE Fee) /\ v.checkpoint = 1
        BY <1>2, <1>3, <1>4, <2>1
      <3>2. u.pot = IF w = 0 THEN 0 ELSE Fee * n
        BY <1>16, <2>1 DEF FeesTold
      <3>3. Fee * n + Fee = Fee * (n + 1) /\ Fee * n \in Nat
        BY UtilityNumbers
      <3>4. v.pot = IF w = 0 THEN 0 ELSE Fee * (n + 1)
        BY <3>1, <3>2, <3>3
      <3> QED
        BY <2>1, <3>1, <3>4 DEF FeesTold
    <2>2. CASE epoch # 1
      <3>1. epoch >= 2 /\ v.checkpoint = epoch
        BY <1>4, <1>7, <2>2
      <3> QED
        BY <1>4, <1>16, <2>2, <3>1 DEF FeesTold
    <2> QED
      BY <2>1, <2>2
  <1>18. IsFiniteSet(D \cup {tx}) /\ \A t \in D \cup {tx} : TxOK(t)
    BY <1>9, FS_AddElement DEF Story
  <1>19. WeightOf(EarlyLocks(v, D \cup {tx}, c)) = EligibleWeight(v, 1)
    BY <1>2, <1>5, <1>12 DEF Story
  <1>20. FeesTold(v, EligibleWeight(v, 1), Cardinality(EarlyBoosts(v, D \cup {tx}, c)))
    BY <1>5, <1>15, <1>17
  <1> QED
    BY <1>4, <1>9, <1>10, <1>18, <1>19, <1>20 DEF Story

\* A claim moves no weight, no fee and no index.
LEMMA ClaimTells ==
  ASSUME NEW u, BooksOK(u), u.rewards # 0, NEW epoch, NEW tx, TxOK(tx), tx.call = "claim", ClaimHolds(u, tx),
         NEW D, tx \notin D, NEW c, Story(u, D, c), NEW v, v = Claim(u, tx, epoch), LogGrows(u, v, tx)
  PROVE  Story(v, D \cup {tx}, c)
  <1>1. Shaped(u) /\ PositionsOK(u)
    BY DEF BooksOK
  <1>2. PICK r : r = RewardOf(u, u.positions[tx.args[1]])
    OBVIOUS
  <1>3. PICK k : k = tx.args[1]
    OBVIOUS
  <1>4. PICK q : q = [u.positions[k] EXCEPT !.last = EndEpoch(u, u.positions[k])]
    OBVIOUS
  <1>5. /\ v.positions = [u.positions EXCEPT ![k] = q]
        /\ v.checkpoint = u.checkpoint /\ v.index = u.index /\ v.pot = u.pot
        /\ v.schedule = u.schedule /\ v.rewards = u.rewards
    <2>1. /\ v.positions = [u.positions EXCEPT ![tx.args[1]] =
               [u.positions[tx.args[1]] EXCEPT !.last = EndEpoch(u, u.positions[tx.args[1]])]]
          /\ v.checkpoint = u.checkpoint /\ v.index = u.index /\ v.pot = u.pot
          /\ v.schedule = u.schedule /\ v.rewards = u.rewards
      BY <1>1, <1>2, ClaimSets
    <2> QED
      BY Zenon, <1>3, <1>4, <2>1
  <1>6. PICK n \in Nat : n = Len(u.positions) /\ DOMAIN u.positions = 1..n
    BY <1>1, ListDomain DEF PositionsOK
  <1>7. k \in 1..n
    BY <1>3, <1>6 DEF ClaimHolds, PositionsOf
  <1>8. PositionOK(u.positions[k], u.checkpoint)
    BY <1>1, <1>6, <1>7 DEF PositionsOK
  <1>9. q.weight = u.positions[k].weight /\ q.activation = u.positions[k].activation /\ q.expiry = u.positions[k].expiry
    BY <1>4, <1>8 DEF PositionOK
  <1>10. /\ DOMAIN v.positions = DOMAIN u.positions
         /\ \A i \in DOMAIN u.positions :
              /\ v.positions[i].weight = u.positions[i].weight
              /\ v.positions[i].activation = u.positions[i].activation
              /\ v.positions[i].expiry = u.positions[i].expiry
    <2>1. DOMAIN v.positions = DOMAIN u.positions
      BY <1>5
    <2>2. \A i \in DOMAIN u.positions : v.positions[i] = IF i = k THEN q ELSE u.positions[i]
      BY <1>5
    <2> QED
      BY <1>9, <2>1, <2>2
  <1>11. EligibleWeight(v, 1) = EligibleWeight(u, 1)
    <2>1. Eligible(v, 1) = Eligible(u, 1)
      BY <1>10 DEF Eligible
    <2>2. [i \in DOMAIN v.positions |-> v.positions[i].weight] = [i \in DOMAIN u.positions |-> u.positions[i].weight]
      BY <1>10
    <2> QED
      BY Zenon, <2>1, <2>2 DEF EligibleWeight
  <1>12. AllLogged(u, D) /\ IsFiniteSet(D) /\ DOMAIN u.index = 0..u.checkpoint
    BY DEF Story
  <1>13. AllLogged(v, D \cup {tx}) /\ WonMoves(u, v, D, tx)
    BY <1>12, WonGrows
  <1>14. Won(v, D \cup {tx}, "lock") = Won(u, D, "lock") /\ Won(v, D \cup {tx}, "boost") = Won(u, D, "boost")
    BY <1>13 DEF WonMoves
  <1>15. EarlyLocks(v, D \cup {tx}, c) = EarlyLocks(u, D, c) /\ EarlyBoosts(v, D \cup {tx}, c) = EarlyBoosts(u, D, c)
    BY <1>5, <1>14 DEF EarlyLocks, EarlyBoosts
  <1>16. IsFiniteSet(D \cup {tx}) /\ \A t \in D \cup {tx} : TxOK(t)
    BY <1>12, FS_AddElement DEF Story
  <1>17. ASSUME NEW w, NEW boosts, FeesTold(u, w, boosts) PROVE FeesTold(v, w, boosts)
    BY <1>5, <1>17 DEF FeesTold
  <1> QED
    BY <1>5, <1>11, <1>12, <1>13, <1>15, <1>16, <1>17 DEF Story

\* The story goes on with every transaction.
LEMMA StepTells ==
  ASSUME NEW u, BooksOK(u), NEW clock \in Nat, u.checkpoint <= EpochAt(u.schedule, clock), NEW tx, TxOK(tx),
         NEW D, tx \notin D, NEW c, c[tx] = clock, Story(u, D, c), NEW v, v = UtilityStepAt(u, tx, clock)
  PROVE  Story(v, D \cup {tx}, c) /\ LogGrows(u, v, tx)
  <1>1. PICK epoch : epoch = EpochAt(u.schedule, clock)
    OBVIOUS
  <1>2. epoch \in Nat /\ u.checkpoint <= epoch /\ Shaped(u)
    <2>1. clock \in Int /\ clock <= clock /\ ScheduleOK(u.schedule)
      BY DEF BooksOK
    <2> QED
      BY <1>1, <2>1, EpochsGrow DEF BooksOK
  <1>3. PICK now : now = Checkpointed(u, epoch)
    OBVIOUS
  <1>4. LogGrows(u, v, tx)
    BY StepLogs
  <1>5. now.log = u.log
    BY <1>2, <1>3, CheckpointLeaves
  <1>6. LogGrows(now, v, tx)
    BY <1>4, <1>5 DEF LogGrows
  <1>7. u.rewards # 0 =>
          Story(now, D, c) /\ BooksOK(now) /\ now.rewards # 0 /\ now.schedule = u.schedule /\ now.checkpoint = epoch
    BY <1>2, <1>3, CheckpointTells, CheckpointKeeps
  <1>8. CASE Quiet(u, v, tx)
    BY <1>4, <1>8, QuietTells
  <1>9. CASE u.rewards # 0 /\ tx.call = "checkpoint" /\ Quiet(now, v, tx)
    <2>1. Story(now, D, c)
      BY <1>7, <1>9
    <2> QED
      BY <1>4, <1>6, <1>9, <2>1, QuietTells
  <1>10. CASE u.rewards # 0 /\ tx.call = "lock" /\ LockHolds(now, tx, clock, epoch) /\ v = Lock(now, tx, clock, epoch)
    <2>1. EpochAt(now.schedule, clock + LockLength) > epoch + 1
      BY <1>10 DEF LockHolds
    <2>2. /\ Story(now, D, c) /\ BooksOK(now) /\ now.rewards # 0 /\ now.checkpoint = epoch
          /\ epoch = EpochAt(now.schedule, clock) /\ epoch \in Nat
      BY <1>1, <1>2, <1>7, <1>10
    <2> QED
      BY <1>4, <1>6, <1>10, <2>1, <2>2, LockTells
  <1>11. CASE u.rewards # 0 /\ tx.call = "boost" /\ BoostHolds(now, tx, clock) /\ v = Boost(now, tx, clock, epoch)
    <2>1. now.schedule.fee <= clock
      <3>1. clock >= now.schedule.fee
        BY <1>11 DEF BoostHolds
      <3>2. now.schedule.fee \in Int
        BY <1>7, <1>11 DEF BooksOK, ScheduleOK
      <3> QED
        BY <3>1, <3>2
    <2>2. /\ Story(now, D, c) /\ BooksOK(now) /\ now.rewards # 0 /\ now.checkpoint = epoch
          /\ epoch = EpochAt(now.schedule, clock) /\ epoch \in Nat
      BY <1>1, <1>2, <1>7, <1>11
    <2> QED
      BY <1>4, <1>6, <1>11, <2>1, <2>2, BoostTells
  <1>12. CASE u.rewards # 0 /\ tx.call = "claim" /\ ClaimHolds(now, tx) /\ v = Claim(now, tx, epoch)
    <2>1. Story(now, D, c) /\ BooksOK(now) /\ now.rewards # 0
      BY <1>7, <1>12
    <2> QED
      BY <1>4, <1>6, <1>12, <2>1, ClaimTells
  <1> QED
    BY <1>1, <1>2, <1>3, <1>8, <1>9, <1>10, <1>11, <1>12, StepIs

\* No transaction is at two places.
MinedOnce(blocks) ==
  \A m, n \in 1..Len(blocks) :
    \A i \in 1..Len(blocks[m].txs), j \in 1..Len(blocks[n].txs) :
      blocks[m].txs[i] = blocks[n].txs[j] => m = n /\ i = j

MinedBy(blocks, n) == UNION {ToSet(blocks[m].txs) : m \in 1..n}

\* What is not of this block stays in the log.
LogsKept(u, v, txs) == \A t \in DOMAIN u.log : t \notin ToSet(txs) => t \in DOMAIN v.log /\ v.log[t] = u.log[t]

\* The story goes on with every block.
LEMMA BlockTells ==
  ASSUME NEW u, NEW b, BlockOK(b), BooksAtClock(u, b.clock), NEW D, NEW c, Story(u, D, c),
         ToSet(b.txs) \cap D = {}, \A i, j \in 1..Len(b.txs) : b.txs[i] = b.txs[j] => i = j,
         \A tx \in ToSet(b.txs) : c[tx] = b.clock,
         NEW v, v = UtilityAfter(u, b)
  PROVE  Story(v, D \cup ToSet(b.txs), c) /\ LogsKept(u, v, b.txs)
  <1>1. IsSeq(b.txs) /\ (\A tx \in ToSet(b.txs) : TxOK(tx)) /\ b.clock \in Nat
    BY DEF BlockOK, TxsOK
  <1>2. PICK n \in Nat : n = Len(b.txs) /\ ToSet(b.txs) = {b.txs[i] : i \in 1..n}
    BY <1>1, IsSeqFacts
  <1>3. PICK f : AfterSolves(u, b, n, f) /\ v = f[n]
    BY <1>2, AfterPasses
  <1>4. \A i \in 0..n : f[i] = IF i = 0 THEN u ELSE UtilityStepAt(f[i - 1], b.txs[i], b.clock)
    BY <1>3 DEF AfterSolves
  <1> DEFINE Told(i) == D \cup {b.txs[j] : j \in 1..i}
             Good(i) == BooksAtClock(f[i], b.clock) /\ Story(f[i], Told(i), c) /\ LogsKept(u, f[i], b.txs)
             S == {i \in 0..n : Good(i)}
  <1>5. 0 \in S
    <2>1. f[0] = u
      BY <1>4
    <2>2. Told(0) = D
      OBVIOUS
    <2>3. LogsKept(u, u, b.txs)
      BY DEF LogsKept
    <2>4. Good(0)
      BY Zenon, <2>1, <2>2, <2>3
    <2> HIDE DEF Good
    <2> QED
      BY <2>4
  <1>6. ASSUME NEW i \in 1..n, i - 1 \in S PROVE i \in S
    <2>1. PICK w : w = f[i - 1]
      OBVIOUS
    <2>2. PICK tx : tx = b.txs[i]
      OBVIOUS
    <2>3. PICK x : x = UtilityStepAt(w, tx, b.clock)
      OBVIOUS
    <2>4. f[i] = x
      BY <1>4, <2>1, <2>2, <2>3
    <2>5. PICK E : E = Told(i - 1)
      OBVIOUS
    <2>6. BooksOK(w) /\ w.checkpoint <= EpochAt(w.schedule, b.clock) /\ Story(w, E, c) /\ LogsKept(u, w, b.txs)
      BY <1>6, <2>1, <2>5 DEF BooksAtClock
    <2>7. tx \in ToSet(b.txs) /\ TxOK(tx) /\ c[tx] = b.clock /\ b.clock \in Nat
      BY <1>1, <1>2, <2>2
    <2>8. tx \notin E
      <3>1. tx \notin D
        BY <2>7
      <3>2. \A j \in 1..i - 1 : b.txs[j] # tx
        BY <1>2, <2>2
      <3> QED
        BY <2>5, <3>1, <3>2
    <2>9. Story(x, E \cup {tx}, c) /\ LogGrows(w, x, tx)
      BY <2>3, <2>6, <2>7, <2>8, StepTells
    <2>10. Told(i) = E \cup {tx}
      <3>1. 1..i = (1..i - 1) \cup {i}
        OBVIOUS
      <3> QED
        BY <2>2, <2>5, <3>1
    <2>11. LogsKept(u, x, b.txs)
      BY <2>6, <2>7, <2>9 DEF LogsKept, LogGrows
    <2>12. BooksAtClock(x, b.clock)
      BY <2>3, <2>6, <2>7, StepKeepsBooks DEF BooksAtClock
    <2>13. Good(i)
      BY Zenon, <2>4, <2>9, <2>10, <2>11, <2>12
    <2> HIDE DEF Good
    <2> QED
      BY <2>13
  <1> HIDE DEF S
  <1>7. 0..n \subseteq S
    BY <1>5, <1>6, GoesOn
  <1>8. Good(n)
    <2>1. n \in S
      BY <1>7
    <2> HIDE DEF Good
    <2> QED
      BY <2>1 DEF S
  <1> QED
    BY <1>2, <1>3, <1>8

-----------------------------------------------------------------------------
(* The state after the first n blocks, block by block.                         *)

Agree(blocks, others, n) == \A k \in 1..n : others[k] = blocks[k]

\* The states of shared blocks are shared.
LEMMA AtUnique ==
  ASSUME NEW blocks, NEW others, NEW n \in Nat, NEW m \in 0..n, Agree(blocks, others, m),
         NEW f, AtSolves(blocks, n, f), NEW g, AtSolves(others, m, g)
  PROVE  g[m] = f[m]
  <1>1. \A k \in 0..n : f[k] = IF k = 0 THEN NoUtility ELSE UtilityAfter(f[k - 1], blocks[k])
    BY DEF AtSolves
  <1>2. \A k \in 0..m : g[k] = IF k = 0 THEN NoUtility ELSE UtilityAfter(g[k - 1], others[k])
    BY DEF AtSolves
  <1> DEFINE S == {k \in 0..m : g[k] = f[k]}
  <1>3. 0 \in S
    BY <1>1, <1>2
  <1>4. ASSUME NEW k \in 1..m, k - 1 \in S PROVE k \in S
    <2>1. k \in 0..m /\ k \in 0..n /\ k # 0
      OBVIOUS
    <2>2. f[k] = UtilityAfter(f[k - 1], blocks[k]) /\ g[k] = UtilityAfter(g[k - 1], others[k])
      BY <1>1, <1>2, <2>1
    <2>3. others[k] = blocks[k]
      BY DEF Agree
    <2> QED
      BY <1>4, <2>1, <2>2, <2>3
  <1> HIDE DEF S
  <1>5. m \in Nat
    OBVIOUS
  <1>6. 0..m \subseteq S
    BY <1>3, <1>4, <1>5, GoesOn
  <1> QED
    BY <1>5, <1>6 DEF S

\* And so are those a chain's first blocks lead to.
LEMMA PrefixAt ==
  ASSUME NEW blocks, IsSeq(blocks), NEW f, AtSolves(blocks, Len(blocks), f), NEW n \in 0..Len(blocks)
  PROVE  UtilityAt(SubSeq(blocks, 1, n)) = f[n]
  <1>1. PICK s : s = SubSeq(blocks, 1, n)
    OBVIOUS
  <1>2. IsSeq(s) /\ Len(s) = n /\ \A k \in 1..n : s[k] = blocks[k]
    BY <1>1, PrefixIsSeq
  <1>3. n \in Nat /\ Len(blocks) \in Nat
    BY ListDomain
  <1>4. PICK g : AtSolves(s, n, g) /\ UtilityAt(s) = g[n]
    BY <1>2, <1>3, AtPasses
  <1>5. g[n] = f[n]
    <2>1. Agree(blocks, s, n)
      BY <1>2 DEF Agree
    <2> QED
      BY <1>3, <1>4, <2>1, AtUnique
  <1> QED
    BY <1>1, <1>4, <1>5

\* The first blocks of a trace are one.
LEMMA TracePrefix ==
  ASSUME NEW blocks, TraceOK(blocks), NEW n \in 0..Len(blocks)
  PROVE  TraceOK(SubSeq(blocks, 1, n))
  <1>1. PICK s : s = SubSeq(blocks, 1, n)
    OBVIOUS
  <1>2. IsSeq(blocks) /\ Len(blocks) \in Nat
    BY ListDomain DEF TraceOK
  <1>3. IsSeq(s) /\ Len(s) = n /\ \A k \in 1..n : s[k] = blocks[k]
    BY <1>1, <1>2, PrefixIsSeq
  <1>4. \A k \in 1..n : BlockOK(s[k])
    BY <1>2, <1>3 DEF TraceOK
  <1>5. \A k \in 2..n : s[k - 1].clock <= s[k].clock
    <2>1. \A k \in 2..n : k \in 1..n /\ k - 1 \in 1..n /\ k \in 2..Len(blocks)
      BY <1>2
    <2> QED
      BY <1>3, <2>1 DEF TraceOK
  <1> QED
    BY <1>1, <1>3, <1>4, <1>5 DEF TraceOK

\* At first there is nothing to tell.
LEMMA NothingTold ==
  ASSUME NEW c
  PROVE  Story(NoUtility, {}, c)
  <1>1. PICK u : u = NoUtility
    OBVIOUS
  <1>2. u.checkpoint = 0 /\ u.pot = 0 /\ u.positions = <<>> /\ DOMAIN u.index = 0..0
    BY <1>1 DEF NoUtility
  <1>3. \A call : Won(u, {}, call) = {}
    BY DEF Won
  <1>4. EarlyLocks(u, {}, c) = {} /\ EarlyBoosts(u, {}, c) = {}
    BY <1>3 DEF EarlyLocks, EarlyBoosts
  <1>5. WeightOf({}) = 0 /\ EligibleWeight(u, 1) = 0
    <2>1. Eligible(u, 1) = {}
      BY <1>2 DEF Eligible
    <2> QED
      BY <2>1, SumEmpty DEF WeightOf, EligibleWeight
  <1>6. Cardinality({}) = 0 /\ IsFiniteSet({})
    BY FS_EmptySet
  <1>7. FeesTold(u, 0, 0)
    BY <1>2 DEF FeesTold
  <1> QED
    BY <1>1, <1>2, <1>3, <1>4, <1>5, <1>6, <1>7 DEF Story, AllLogged

\* The story of a chain.
LEMMA TraceTells ==
  ASSUME NEW blocks, TraceOK(blocks), MinedOnce(blocks), NEW c,
         \A n \in 1..Len(blocks) : \A tx \in ToSet(blocks[n].txs) : c[tx] = blocks[n].clock,
         NEW f, AtSolves(blocks, Len(blocks), f)
  PROVE  /\ \A n \in 0..Len(blocks) : Story(f[n], MinedBy(blocks, n), c)
         /\ \A n \in 1..Len(blocks) : LogsKept(f[n - 1], f[n], blocks[n].txs)
  <1>1. PICK l \in Nat : l = Len(blocks)
    BY ListDomain DEF TraceOK
  <1>2. \A i \in 0..l : f[i] = IF i = 0 THEN NoUtility ELSE UtilityAfter(f[i - 1], blocks[i])
    BY <1>1 DEF AtSolves
  <1>3. ASSUME NEW n \in 1..l PROVE BooksAtClock(f[n - 1], blocks[n].clock)
    <2>1. CASE n = 1
      <3>1. f[n - 1] = NoUtility
        BY <1>2, <2>1
      <3>2. BooksOK(NoUtility) /\ NoUtility.checkpoint = 0
        BY NothingYet
      <3>3. blocks[n].clock \in Nat
        BY <1>1 DEF TraceOK, BlockOK
      <3>4. EpochAt(NoUtility.schedule, blocks[n].clock) \in Nat
        BY <3>2, <3>3, EpochsGrow DEF BooksOK
      <3> QED
        BY <3>1, <3>2, <3>4 DEF BooksAtClock
    <2>2. CASE n # 1
      <3>1. PICK m \in 1..l : m = n - 1
        BY <2>2
      <3>2. PICK s : s = SubSeq(blocks, 1, m)
        OBVIOUS
      <3>3. TraceOK(s) /\ IsSeq(blocks)
        BY <1>1, <3>2, TracePrefix DEF TraceOK
      <3>4. Len(s) = m /\ s[m] = blocks[m]
        BY <1>1, <3>1, <3>2, <3>3, PrefixIsSeq
      <3>5. BooksAtClock(UtilityAt(s), blocks[m].clock)
        BY <3>3, <3>4, TraceKeepsBooks
      <3>6. UtilityAt(s) = f[m]
        BY <1>1, <3>1, <3>2, <3>3, PrefixAt
      <3>7. PICK d \in Nat : d = blocks[m].clock
        BY <1>1 DEF TraceOK, BlockOK
      <3>8. PICK e \in Nat : e = blocks[n].clock
        BY <1>1 DEF TraceOK, BlockOK
      <3>9. d <= e
        BY <1>1, <2>2, <3>1, <3>7, <3>8 DEF TraceOK
      <3>10. PICK u : u = f[m]
        OBVIOUS
      <3>11. BooksOK(u) /\ u.checkpoint <= EpochAt(u.schedule, d)
        BY <3>5, <3>6, <3>7, <3>10 DEF BooksAtClock
      <3>12. EpochAt(u.schedule, d) \in Nat /\ EpochAt(u.schedule, d) <= EpochAt(u.schedule, e)
             /\ EpochAt(u.schedule, e) \in Nat /\ u.checkpoint \in Nat
        BY <3>9, <3>11, EpochsGrow DEF BooksOK, IndexOK
      <3> QED
        BY <3>1, <3>8, <3>10, <3>11, <3>12 DEF BooksAtClock
    <2> QED
      BY <2>1, <2>2
  <1> DEFINE S == {n \in 0..l : Story(f[n], MinedBy(blocks, n), c)}
  <1>4. 0 \in S
    <2>1. f[0] = NoUtility
      BY <1>2
    <2>2. MinedBy(blocks, 0) = {}
      BY DEF MinedBy
    <2> QED
      BY <2>1, <2>2, NothingTold
  <1>5. ASSUME NEW n \in 1..l, n - 1 \in S
        PROVE  n \in S /\ LogsKept(f[n - 1], f[n], blocks[n].txs)
    <2>1. PICK u : u = f[n - 1]
      OBVIOUS
    <2>2. PICK b : b = blocks[n]
      OBVIOUS
    <2>3. PICK v : v = UtilityAfter(u, b)
      OBVIOUS
    <2>4. PICK D : D = MinedBy(blocks, n - 1)
      OBVIOUS
    <2>5. f[n] = v
      BY <1>2, <2>1, <2>2, <2>3
    <2>6. BlockOK(b) /\ BooksAtClock(u, b.clock) /\ Story(u, D, c)
      BY <1>1, <1>3, <1>5, <2>1, <2>2, <2>4 DEF TraceOK
    <2>7. \A m \in 1..l : /\ Len(blocks[m].txs) \in Nat
                          /\ ToSet(blocks[m].txs) = {blocks[m].txs[i] : i \in 1..Len(blocks[m].txs)}
      <3>1. \A m \in 1..l : IsSeq(blocks[m].txs)
        BY <1>1 DEF TraceOK, BlockOK, TxsOK
      <3> QED
        BY <3>1, IsSeqFacts
    <2>8. ToSet(b.txs) \cap D = {}
      <3>1. ASSUME NEW tx \in ToSet(b.txs), tx \in D PROVE FALSE
        <4>1. PICK m \in 1..n - 1 : tx \in ToSet(blocks[m].txs)
          BY <2>4, <3>1 DEF MinedBy
        <4>2. m \in 1..l
          OBVIOUS
        <4>3. PICK i \in 1..Len(blocks[n].txs) : blocks[n].txs[i] = tx
          <5>1. tx \in ToSet(blocks[n].txs)
            BY <2>2, <3>1
          <5>2. ToSet(blocks[n].txs) = {blocks[n].txs[i] : i \in 1..Len(blocks[n].txs)}
            BY <2>7
          <5> QED
            BY <5>1, <5>2
        <4>4. PICK j \in 1..Len(blocks[m].txs) : blocks[m].txs[j] = tx
          <5>1. ToSet(blocks[m].txs) = {blocks[m].txs[j] : j \in 1..Len(blocks[m].txs)}
            BY <2>7, <4>2
          <5> QED
            BY <4>1, <5>1
        <4>5. m = n
          BY <1>1, <4>2, <4>3, <4>4 DEF MinedOnce
        <4> QED
          BY <4>1, <4>5
      <3> QED
        BY <3>1
    <2>9. \A i, j \in 1..Len(b.txs) : b.txs[i] = b.txs[j] => i = j
      BY <1>1, <2>2 DEF MinedOnce
    <2>10. \A tx \in ToSet(b.txs) : c[tx] = b.clock
      BY <1>1, <2>2
    <2>11. Story(v, D \cup ToSet(b.txs), c) /\ LogsKept(u, v, b.txs)
      BY <2>3, <2>6, <2>8, <2>9, <2>10, BlockTells
    <2>12. MinedBy(blocks, n) = D \cup ToSet(b.txs)
      <3>1. 1..n = (1..n - 1) \cup {n}
        OBVIOUS
      <3> QED
        BY <2>2, <2>4, <3>1 DEF MinedBy
    <2>13. Story(f[n], MinedBy(blocks, n), c) /\ LogsKept(f[n - 1], f[n], blocks[n].txs)
      BY Zenon, <2>1, <2>2, <2>5, <2>11, <2>12
    <2>14. n \in 0..l
      OBVIOUS
    <2> QED
      BY <2>13, <2>14
  <1> HIDE DEF S
  <1>6. 0..l \subseteq S
    BY <1>4, <1>5, GoesOn
  <1>7. \A n \in 1..l : n - 1 \in 0..l
    OBVIOUS
  <1> QED
    BY <1>1, <1>5, <1>6, <1>7 DEF S

MinedAtClock(blocks) == [tx \in Mined(blocks) |-> blocks[HeightOf(blocks, tx)].clock]

\* What is mined by the last block is all there is.
LEMMA MinedAll ==
  ASSUME NEW blocks, IsSeq(blocks)
  PROVE  /\ Len(blocks) \in Nat /\ DOMAIN blocks = 1..Len(blocks)
         /\ Mined(blocks) = MinedBy(blocks, Len(blocks))
  <1>1. Len(blocks) \in Nat /\ DOMAIN blocks = 1..Len(blocks)
    BY ListDomain
  <1> QED
    BY <1>1 DEF Mined, MinedBy

\* A transaction's clock is its block's.
LEMMA ClocksAre ==
  ASSUME NEW blocks, TraceOK(blocks), MinedOnce(blocks), NEW n \in 1..Len(blocks), NEW tx \in ToSet(blocks[n].txs)
  PROVE  tx \in Mined(blocks) /\ HeightOf(blocks, tx) = n /\ MinedAtClock(blocks)[tx] = blocks[n].clock
  <1>1. IsSeq(blocks) /\ Len(blocks) \in Nat /\ DOMAIN blocks = 1..Len(blocks)
    BY ListDomain DEF TraceOK
  <1>2. tx \in Mined(blocks)
    BY <1>1 DEF Mined
  <1>3. PICK h : h = HeightOf(blocks, tx)
    OBVIOUS
  <1>4. h \in 1..n /\ tx \in ToSet(blocks[h].txs)
    BY <1>1, <1>3, HeightIsFirst
  <1>5. h \in 1..Len(blocks)
    BY <1>1, <1>4
  <1>6. \A m \in 1..Len(blocks) : IsSeq(blocks[m].txs)
    BY DEF TraceOK, BlockOK, TxsOK
  <1>7. PICK i \in 1..Len(blocks[n].txs) : blocks[n].txs[i] = tx
    BY <1>6, IsSeqFacts
  <1>8. PICK j \in 1..Len(blocks[h].txs) : blocks[h].txs[j] = tx
    <2>1. IsSeq(blocks[h].txs)
      BY <1>5, <1>6
    <2> QED
      BY <1>4, <2>1, IsSeqFacts
  <1>9. h = n
    BY <1>5, <1>7, <1>8 DEF MinedOnce
  <1> QED
    BY <1>2, <1>3, <1>9 DEF MinedAtClock

\* The story of the whole chain.
LEMMA ChainTold ==
  ASSUME NEW blocks, TraceOK(blocks), MinedOnce(blocks), Len(blocks) # 0
  PROVE  BooksOK(UtilityAt(blocks)) /\ Story(UtilityAt(blocks), Mined(blocks), MinedAtClock(blocks))
  <1>1. IsSeq(blocks) /\ Len(blocks) \in Nat
    BY ListDomain DEF TraceOK
  <1>2. PICK f : AtSolves(blocks, Len(blocks), f) /\ UtilityAt(blocks) = f[Len(blocks)]
    BY <1>1, AtPasses
  <1>3. PICK c : c = MinedAtClock(blocks)
    OBVIOUS
  <1>4. \A n \in 1..Len(blocks) : \A tx \in ToSet(blocks[n].txs) : c[tx] = blocks[n].clock
    BY <1>3, ClocksAre
  <1>5. \A n \in 0..Len(blocks) : Story(f[n], MinedBy(blocks, n), c)
    BY <1>2, <1>4, TraceTells
  <1>6. Story(f[Len(blocks)], MinedBy(blocks, Len(blocks)), c)
    BY <1>1, <1>5
  <1>7. Mined(blocks) = MinedBy(blocks, Len(blocks))
    BY <1>1, MinedAll
  <1>8. BooksOK(UtilityAt(blocks))
    BY TraceKeepsBooks DEF BooksAtClock
  <1> QED
    BY <1>2, <1>3, <1>6, <1>7, <1>8

\* What a transaction left in the log stands, however the chain grows on it.
LEMMA LogStands ==
  ASSUME NEW blocks, TraceOK(blocks), MinedOnce(blocks), NEW n \in 1..Len(blocks),
         NEW tx \in MinedBy(blocks, n), tx.call \in LoggedCalls
  PROVE  UtilityAt(blocks).log[tx] = UtilityAt(SubSeq(blocks, 1, n)).log[tx]
  <1>1. IsSeq(blocks)
    BY DEF TraceOK
  <1>2. PICK l \in Nat : l = Len(blocks)
    BY <1>1, ListDomain
  <1>3. PICK f : AtSolves(blocks, Len(blocks), f) /\ UtilityAt(blocks) = f[Len(blocks)]
    BY <1>2, AtPasses
  <1>4. PICK c : c = MinedAtClock(blocks)
    OBVIOUS
  <1>5. \A m \in 1..Len(blocks) : \A t \in ToSet(blocks[m].txs) : c[t] = blocks[m].clock
    BY <1>4, ClocksAre
  <1>6. /\ \A m \in 0..l : Story(f[m], MinedBy(blocks, m), c)
        /\ \A m \in 1..l : LogsKept(f[m - 1], f[m], blocks[m].txs)
    BY <1>2, <1>3, <1>5, TraceTells
  <1>7. UtilityAt(SubSeq(blocks, 1, n)) = f[n]
    BY <1>1, <1>3, PrefixAt
  <1>8. tx \in DOMAIN f[n].log
    <2>1. Story(f[n], MinedBy(blocks, n), c)
      BY <1>2, <1>6
    <2> QED
      BY <2>1 DEF Story, AllLogged
  <1>9. PICK k \in 1..n : tx \in ToSet(blocks[k].txs)
    BY DEF MinedBy
  <1>10. \A m \in 1..l : m # k => tx \notin ToSet(blocks[m].txs)
    <2>1. ASSUME NEW m \in 1..l, tx \in ToSet(blocks[m].txs) PROVE m = k
      <3>1. k \in 1..Len(blocks) /\ m \in 1..Len(blocks)
        BY <1>2
      <3>2. HeightOf(blocks, tx) = k
        BY <1>9, <3>1, ClocksAre
      <3>3. HeightOf(blocks, tx) = m
        BY <2>1, <3>1, ClocksAre
      <3> QED
        BY <3>2, <3>3
    <2> QED
      BY <2>1
  <1> DEFINE S == {m \in 0..l : m >= n => tx \in DOMAIN f[m].log /\ f[m].log[tx] = f[n].log[tx]}
  <1>11. 0 \in S
    BY <1>2
  <1>12. ASSUME NEW m \in 1..l, m - 1 \in S PROVE m \in S
    <2>1. CASE m < n
      BY <1>2, <2>1
    <2>2. CASE m = n
      BY <1>2, <1>8, <2>2
    <2>3. CASE m > n
      <3>1. tx \in DOMAIN f[m - 1].log /\ f[m - 1].log[tx] = f[n].log[tx]
        BY <1>2, <1>12, <2>3
      <3>2. tx \notin ToSet(blocks[m].txs)
        BY <1>9, <1>10, <2>3
      <3>3. LogsKept(f[m - 1], f[m], blocks[m].txs)
        BY <1>6
      <3>4. tx \in DOMAIN f[m].log /\ f[m].log[tx] = f[n].log[tx]
        BY <3>1, <3>2, <3>3 DEF LogsKept
      <3> QED
        BY <3>4
    <2> QED
      BY <1>2, <2>1, <2>2, <2>3
  <1> HIDE DEF S
  <1>13. 0..l \subseteq S
    BY <1>11, <1>12, GoesOn
  <1>14. l \in S /\ l >= n
    BY <1>2, <1>13
  <1> QED
    BY <1>2, <1>3, <1>7, <1>14 DEF S

-----------------------------------------------------------------------------
(* The arithmetic of the canary's share and of its periods.                    *)

\* A unit's share of the fees, through an index that is itself rounded.
LEMMA ShareTold ==
  ASSUME NEW fees \in Nat, NEW weight \in Nat \ {0}, NEW scale \in Nat \ {0},
         NEW grown, grown = (fees * scale) \div weight, NEW share, share = grown \div scale
  PROVE  share \in Nat /\ share * weight <= fees /\ fees < (share + 2) * weight
  <1>1. fees * scale \in Nat
    OBVIOUS
  <1>2. PICK all \in Nat : all = fees * scale
    BY <1>1
  <1>3. grown \in Nat /\ grown * weight <= all /\ all < grown * weight + weight
    BY <1>2, DivisionBounds
  <1>4. share \in Nat /\ share * scale <= grown /\ grown < share * scale + scale
    BY <1>3, DivisionBounds
  <1>5. share * weight <= fees
    <2>1. (share * scale) * weight <= grown * weight
      BY <1>3, <1>4, ProductMonotone
    <2>2. (share * scale) * weight = (share * weight) * scale /\ share * weight \in Nat
      BY <1>4
    <2>3. grown * weight \in Nat
      BY <1>3
    <2>4. (share * weight) * scale <= fees * scale
      BY <1>2, <1>3, <2>1, <2>2, <2>3
    <2>5. PICK a \in Nat : a = share * weight
      BY <2>2
    <2>6. a * scale < (fees + 1) * scale
      <3>1. (fees + 1) * scale = fees * scale + scale
        OBVIOUS
      <3>2. a * scale \in Nat
        BY <2>5
      <3> QED
        BY <1>1, <2>4, <2>5, <3>1, <3>2
    <2>7. a < fees + 1
      BY <2>6, ProductLess
    <2> QED
      BY <2>5, <2>7
  <1>6. fees < (share + 1) * weight
    <2>1. share * scale \in Nat /\ (share + 1) * scale = share * scale + scale
      BY <1>4
    <2>2. grown + 1 <= (share + 1) * scale
      BY <1>3, <1>4, <2>1
    <2>3. (grown + 1) * weight <= ((share + 1) * scale) * weight
      BY <1>3, <1>4, <2>1, <2>2, ProductMonotone
    <2>4. (grown + 1) * weight = grown * weight + weight /\ grown * weight \in Nat
      BY <1>3
    <2>5. ((share + 1) * scale) * weight = ((share + 1) * weight) * scale /\ (share + 1) * weight \in Nat
      BY <1>4
    <2>6. PICK b \in Nat : b = (share + 1) * weight
      BY <2>5
    <2>7. b * scale \in Nat
      BY <2>6
    <2>8. fees * scale < b * scale
      BY <1>2, <1>3, <2>3, <2>4, <2>5, <2>6, <2>7
    <2>9. fees < b
      BY <2>6, <2>8, ProductLess
    <2> QED
      BY <2>6, <2>9
  <1>7. (share + 2) * weight = (share + 1) * weight + weight /\ (share + 1) * weight \in Nat
    BY <1>4
  <1> QED
    BY <1>4, <1>5, <1>6, <1>7

\* There is no Monday between a time and the first Monday after it.
LEMMA NoMondayBetween ==
  ASSUME NEW time \in Int, NEW t \in Int, time < t, t < FirstMondayStrictlyAfter(time)
  PROVE  (t - MondayOffset) % WeekLength # 0
  <1>1. PICK week \in Nat \ {0} : week = WeekLength
    BY UtilityNumbers
  <1>2. PICK x \in Int : x = time - MondayOffset
    BY UtilityNumbers
  <1>3. PICK q \in Int : q = x \div week
    BY <1>1, <1>2, DivisionFloors
  <1>4. q * week <= x /\ x < q * week + week /\ q * week \in Int
    BY <1>1, <1>2, <1>3
  <1>5. FirstMondayStrictlyAfter(time) = (MondayOffset + q * week) + week
    <2>1. FirstMondayStrictlyAfter(time)
            = IF MondayOffset + q * week > time THEN MondayOffset + q * week ELSE (MondayOffset + q * week) + week
      BY Zenon, <1>1, <1>2, <1>3 DEF FirstMondayStrictlyAfter
    <2>2. ~(MondayOffset + q * week > time)
      BY <1>2, <1>4, UtilityNumbers
    <2> QED
      BY <2>1, <2>2
  <1>6. PICK y \in Int : y = t - MondayOffset
    BY UtilityNumbers
  <1>7. x < y /\ y < q * week + week
    BY <1>2, <1>4, <1>5, <1>6, UtilityNumbers
  <1>8. y % week # 0
    <2>1. SUFFICES ASSUME y % week = 0 PROVE FALSE
      OBVIOUS
    <2>2. PICK k \in Int : k = y \div week
      BY <1>1, <1>6, DivisionFloors
    <2>3. y = k * week
      BY <1>1, <1>6, <2>1, <2>2
    <2>4. q < k
      BY <1>1, <1>3, <1>4, <1>7, <2>2, <2>3, ProductLess
    <2>5. k < q + 1
      <3>1. (q + 1) * week = q * week + week
        BY <1>1, <1>3
      <3> QED
        BY <1>1, <1>3, <1>7, <2>2, <2>3, <3>1, ProductLess
    <2> QED
      BY <1>3, <2>2, <2>4, <2>5
  <1> QED
    BY <1>1, <1>6, <1>8

\* The canary's position is eligible in the second period, which then has a weight to share out.
LEMMA CanaryWeighs ==
  ASSUME NEW u, BooksOK(u), NEW id \in 1..Len(u.positions), u.positions[id].weight = LockWeight,
         u.positions[id].activation = 1, u.positions[id].last = 2
  PROVE  EligibleWeight(u, 1) \in Nat \ {0} /\ u.checkpoint >= 2 /\ u.checkpoint \in Nat
  <1>1. PositionsOK(u) /\ IndexOK(u)
    BY DEF BooksOK
  <1>2. PositionOK(u.positions[id], u.checkpoint)
    BY <1>1 DEF PositionsOK
  <1>3. 1 < u.positions[id].expiry /\ u.checkpoint >= 2 /\ u.checkpoint \in Nat
    BY <1>1, <1>2 DEF PositionOK, IndexOK
  <1>4. id \in Eligible(u, 1)
    BY <1>1, <1>3, ListDomain DEF Eligible, PositionsOK
  <1>5. PICK w : w = [i \in 1..Len(u.positions) |-> u.positions[i].weight]
    OBVIOUS
  <1>6. /\ EligibleWeight(u, 1) \in Nat
        /\ Eligible(u, 1) \subseteq 1..Len(u.positions) /\ IsFiniteSet(Eligible(u, 1))
        /\ EligibleWeight(u, 1) = SumFunctionOnSet(w, Eligible(u, 1))
    <2>1. 1 \in Nat
      OBVIOUS
    <2> QED
      BY <1>1, <1>5, <2>1, WeightIsNumber
  <1>7. \A i \in Eligible(u, 1) : w[i] \in Nat
    BY <1>1, <1>5, <1>6 DEF PositionsOK, PositionOK
  <1>8. w[id] <= SumFunctionOnSet(w, Eligible(u, 1))
    BY <1>4, <1>6, <1>7, SumOfTerm
  <1>9. w[id] = 1
    BY <1>5 DEF LockWeight
  <1> QED
    BY <1>3, <1>6, <1>8, <1>9

\* What the canary claims is its share by weight of the fees of the second period, to within rounding.
LEMMA CanaryShare ==
  ASSUME NEW u, BooksOK(u), NEW D, NEW c, Story(u, D, c),
         NEW id \in 1..Len(u.positions), u.positions[id].weight = LockWeight,
         u.positions[id].activation = 1, u.positions[id].last = 2,
         NEW weight, weight = WeightOf(EarlyLocks(u, D, c)),
         NEW fees, fees = Fee * Cardinality(EarlyBoosts(u, D, c)),
         NEW share, share = UtilityV2ProRataReward(LockWeight, IndexAt(u, 1), IndexAt(u, 2))
  PROVE  share * weight <= LockWeight * fees /\ LockWeight * fees < (share + 2) * weight
  <1>1. weight = EligibleWeight(u, 1)
    BY DEF Story
  <1>2. weight \in Nat \ {0} /\ u.checkpoint \in Nat /\ u.checkpoint >= 2
    BY <1>1, CanaryWeighs
  <1>3. PICK n \in Nat : n = Cardinality(EarlyBoosts(u, D, c))
    BY WonIsFinite
  <1>4. fees \in Nat /\ fees = Fee * n
    BY <1>3, UtilityNumbers
  <1>5. Q128 \in Nat \ {0}
    BY UtilityNumbers
  <1>6. PICK grown : grown = (fees * Q128) \div weight
    OBVIOUS
  <1>7. u.index[2] = u.index[1] + grown
    <2>1. FeesTold(u, weight, n)
      BY <1>1, <1>3 DEF Story
    <2> QED
      BY <1>2, <1>4, <1>6, <2>1 DEF FeesTold
  <1>8. IndexAt(u, 1) = u.index[1] /\ IndexAt(u, 2) = u.index[2] /\ u.index[1] \in Nat
    <2>1. DOMAIN u.index = 0..u.checkpoint
      BY DEF Story
    <2>2. 1 \in 0..u.checkpoint /\ 2 \in 0..u.checkpoint
      BY <1>2
    <2> QED
      BY <2>1, <2>2 DEF IndexAt, BooksOK, IndexOK
  <1>9. grown \in Int
    <2>1. fees * Q128 \in Nat
      BY <1>4, <1>5
    <2> QED
      BY <1>2, <1>6, <2>1, DivisionFloors
  <1>10. share = grown \div Q128
    <2>1. u.index[2] - u.index[1] = grown
      BY <1>7, <1>8, <1>9
    <2>2. 1 * (u.index[2] - u.index[1]) = grown
      BY <1>9, <2>1
    <2> QED
      BY <1>8, <2>2 DEF UtilityV2ProRataReward, LockWeight
  <1>11. share * weight <= fees /\ fees < (share + 2) * weight
    BY <1>2, <1>4, <1>5, <1>6, <1>10, ShareTold
  <1>12. LockWeight * fees = fees
    BY <1>4 DEF LockWeight
  <1> QED
    BY <1>11, <1>12

Others(D) == {tx \in D : tx.from = "stranger"}

Deployers(D) == {tx \in D : tx.from = "deployer"}

FirstSent(list, k) == {list[i] : i \in 1..k}

\* What was mined is the first of what the deployer sent, and the others' transactions, numbered.
Counted(D, list) ==
  /\ IsFiniteSet(D)
  /\ \E k \in 0..Len(list) : Deployers(D) = FirstSent(list, k)
  /\ \A tx \in Others(D) : tx.nonce \in 1..Cardinality(Others(D))

NonceOrder(list) == IsSeq(list) /\ \A i \in 1..Len(list) : list[i].nonce = i /\ list[i].from = "deployer"

\* A list has finitely many members.
LEMMA MembersAreFinite ==
  ASSUME NEW s, IsSeq(s)
  PROVE  IsFiniteSet(ToSet(s))
  <1>1. Len(s) \in Nat /\ ToSet(s) = {s[i] : i \in 1..Len(s)}
    BY IsSeqFacts
  <1>2. PICK l \in Nat : l = Len(s)
    BY <1>1
  <1>3. IsFiniteSet(1..l)
    BY <1>2, FS_Interval
  <1> DEFINE f == [i \in 1..l |-> s[i]]
  <1>4. f \in Surjection(1..l, ToSet(s))
    BY <1>1, <1>2 DEF Surjection
  <1> HIDE DEF f
  <1> QED
    BY <1>3, <1>4, FS_Surjection

\* As many of the deployer's transactions were mined as the last of their nonces.
LEMMA FirstAreCounted ==
  ASSUME NEW list, NonceOrder(list), NEW k \in 0..Len(list)
  PROVE  IsFiniteSet(FirstSent(list, k)) /\ Cardinality(FirstSent(list, k)) = k
  <1>1. Len(list) \in Nat
    BY IsSeqFacts DEF NonceOrder
  <1> DEFINE f == [i \in 1..k |-> list[i]]
             S == 1..k
             T == FirstSent(list, k)
  <1>2. IsFiniteSet(S) /\ Cardinality(S) = k
    <2>1. k \in Nat
      BY <1>1
    <2> QED
      BY <2>1, FS_Interval
  <1>3. f \in Bijection(S, T)
    <2>1. f \in [S -> T] /\ \A t \in T : \E i \in S : f[i] = t
      BY DEF FirstSent
    <2>2. \A i, j \in S : f[i] = f[j] => i = j
      <3>1. \A i \in S : list[i].nonce = i
        BY <1>1 DEF NonceOrder
      <3> QED
        BY <3>1
    <2> HIDE DEF f, S, T
    <2> QED
      BY <2>1, <2>2 DEF Bijection, Injection, Surjection, IsInjective
  <1> HIDE DEF f, S
  <1>4. ExistsBijection(S, T)
    BY <1>3 DEF ExistsBijection
  <1> HIDE DEF T
  <1>5. IsFiniteSet(T) /\ Cardinality(T) = Cardinality(S)
    BY <1>2, <1>4, FS_Bijection
  <1> QED
    BY <1>2, <1>5 DEF T

\* The deployer's next transactions are the ones after those mined.
LEMMA NextAre ==
  ASSUME NEW list, NonceOrder(list), NEW k \in 0..Len(list), NEW next \in Prefixes(SubSeq(list, k + 1, Len(list)))
  PROVE  /\ IsSeq(next) /\ Len(next) \in Nat /\ k + Len(next) <= Len(list)
         /\ \A j \in 1..Len(next) : next[j] = list[k + j]
  <1>1. PICK n \in Nat : n = Len(list)
    BY IsSeqFacts DEF NonceOrder
  <1>2. k \in Nat /\ k <= n
    BY <1>1
  <1>3. \A i \in k + 1..n : list[i] \in ToSet(list)
    BY <1>1, <1>2, IsSeqFacts DEF NonceOrder
  <1>4. PICK rest : rest = SubSeq(list, k + 1, n)
    OBVIOUS
  <1>5. rest \in Seq(ToSet(list)) /\ Len(rest) = n - k /\ \A j \in 1..n - k : rest[j] = list[k + j]
    <2>1. /\ rest \in Seq(ToSet(list)) /\ Len(rest) = (IF k + 1 <= n THEN (n - (k + 1)) + 1 ELSE 0)
          /\ \A i \in 1..(n - (k + 1)) + 1 : rest[i] = list[((k + 1) + i) - 1]
      BY <1>1, <1>2, <1>3, <1>4, SubSeqProperties
    <2>2. \A i \in 1..n - k : ((k + 1) + i) - 1 = k + i /\ i \in 1..(n - (k + 1)) + 1
      BY <1>2
    <2> QED
      BY <1>1, <1>2, <2>1, <2>2
  <1>6. IsSeq(rest)
    BY <1>5, SeqIsSeq
  <1>7. PICK l \in 0..Len(rest) : next = SubSeq(rest, 1, l)
    BY <1>1, <1>4 DEF Prefixes
  <1>8. IsSeq(next) /\ Len(next) = l /\ \A j \in 1..l : next[j] = rest[j]
    BY <1>6, <1>7, PrefixIsSeq
  <1> QED
    BY <1>1, <1>2, <1>5, <1>7, <1>8

\* A block has nothing twice, and nothing that was mined before.
Fresh(txs, D) ==
  /\ IsSeq(txs) /\ ToSet(txs) \cap D = {}
  /\ \A i, j \in 1..Len(txs) : txs[i] = txs[j] => i = j

\* The empty sequence.
LEMMA NothingIsSeq == IsSeq(<<>>) /\ Len(<<>>) = 0 /\ ToSet(<<>>) = {}
  <1>1. PICK t : t = <<>>
    OBVIOUS
  <1>2. t \in Seq({}) /\ Len(t) = 0
    BY <1>1
  <1>3. IsSeq(t) /\ ToSet(t) = {t[i] : i \in 1..Len(t)}
    BY <1>2, SeqIsSeq
  <1>4. ToSet(t) = {}
    BY <1>2, <1>3
  <1> QED
    BY <1>1, <1>2, <1>3, <1>4

\* Two lists as one.
Joined(all, s, t) ==
  /\ IsSeq(all) /\ Len(all) = Len(s) + Len(t) /\ Len(s) \in Nat /\ Len(t) \in Nat
  /\ ToSet(all) = ToSet(s) \cup ToSet(t)
  /\ \A i \in 1..Len(s) : all[i] = s[i]
  /\ \A i \in 1..Len(t) : all[Len(s) + i] = t[i]

\* A join is one.
LEMMA JoinIs ==
  ASSUME NEW s, IsSeq(s), NEW t, IsSeq(t)
  PROVE  Joined(s \o t, s, t)
  <1> DEFINE a == s \o t
  <1>1. /\ IsSeq(a) /\ Len(a) = Len(s) + Len(t) /\ Len(s) \in Nat /\ Len(t) \in Nat
        /\ ToSet(a) = ToSet(s) \cup ToSet(t)
        /\ \A i \in 1..Len(s) : a[i] = s[i]
        /\ \A i \in 1..Len(t) : a[Len(s) + i] = t[i]
    BY JoinIsSeq
  <1> HIDE DEF a
  <1>2. Joined(a, s, t)
    BY <1>1 DEF Joined
  <1> QED
    BY <1>2 DEF a

\* Another account's transaction has a number of its own, and the deployer's nonces go on.
LEMMA BlockIsFresh ==
  ASSUME NEW list, NonceOrder(list), NEW D, IsFiniteSet(D), NEW k \in 0..Len(list), Deployers(D) = FirstSent(list, k),
         NEW n \in Nat, n = Cardinality(Others(D)), \A tx \in Others(D) : tx.nonce \in 1..n,
         NEW strangers, strangers = <<>> \/ \E tx : strangers = <<tx>> /\ tx.from = "stranger" /\ tx.nonce = n + 1,
         NEW next, IsSeq(next), NEW l \in Nat, l = Len(next), k + l <= Len(list), \A j \in 1..l : next[j] = list[k + j],
         NEW txs, txs = strangers \o next
  PROVE  Fresh(txs, D) /\ Counted(D \cup ToSet(txs), list)
  <1>1. PICK q \in {0, 1} : /\ IsSeq(strangers) /\ Len(strangers) = q
                            /\ (q = 0 => ToSet(strangers) = {})
                            /\ (q = 1 => /\ strangers[1].from = "stranger" /\ strangers[1].nonce = n + 1
                                         /\ ToSet(strangers) = {strangers[1]})
    <2>1. CASE strangers = <<>>
      <3>1. IsSeq(strangers) /\ Len(strangers) = 0 /\ ToSet(strangers) = {}
        BY Zenon, <2>1, NothingIsSeq
      <3>2. PICK q \in {0, 1} : q = 0
        OBVIOUS
      <3> QED
        BY <3>1, <3>2
    <2>2. CASE strangers # <<>>
      <3>1. PICK tx : strangers = <<tx>> /\ tx.from = "stranger" /\ tx.nonce = n + 1
        BY <2>2
      <3>2. IsSeq(strangers) /\ Len(strangers) = 1 /\ ToSet(strangers) = {tx}
        BY <3>1, TuplesAreSeqs
      <3>3. strangers[1] = tx
        BY <3>1
      <3> QED
        BY <3>1, <3>2, <3>3
    <2> QED
      BY <2>1, <2>2
  <1>2. PICK m \in Nat : m = Len(list) /\ k \in 0..m /\ k + l <= m
    BY IsSeqFacts DEF NonceOrder
  <1>3. \A i \in 1..m : list[i].nonce = i /\ list[i].from = "deployer"
    BY <1>2 DEF NonceOrder
  <1>4. /\ IsSeq(txs) /\ Len(txs) = q + l /\ ToSet(txs) = ToSet(strangers) \cup ToSet(next)
        /\ \A i \in 1..q : txs[i] = strangers[i]
        /\ \A i \in 1..l : txs[q + i] = next[i]
    <2>1. Joined(txs, strangers, next)
      BY Zenon, <1>1, JoinIs
    <2>2. Len(strangers) = q /\ Len(next) = l
      BY <1>1
    <2> QED
      BY <2>1, <2>2 DEF Joined
  <1>5. \A i \in 1..q + l : \/ q = 1 /\ i = 1 /\ txs[i].from = "stranger" /\ txs[i].nonce = n + 1
                            \/ i - q \in 1..l /\ txs[i] = list[k + (i - q)] /\ k + (i - q) \in 1..m
    <2>1. ASSUME NEW i \in 1..q + l, i - q \in 1..l
          PROVE  txs[i] = list[k + (i - q)] /\ k + (i - q) \in 1..m
      <3>1. q + (i - q) = i /\ k + (i - q) \in 1..m
        BY <1>2, <2>1
      <3> QED
        BY <1>4, <2>1, <3>1
    <2>2. ASSUME NEW i \in 1..q + l, ~(i - q \in 1..l)
          PROVE  q = 1 /\ i = 1 /\ txs[i].from = "stranger" /\ txs[i].nonce = n + 1
      <3>1. q = 1 /\ i = 1
        BY <2>2
      <3>2. txs[1] = strangers[1]
        BY <1>4, <3>1
      <3> QED
        BY <1>1, <3>1, <3>2
    <2> QED
      BY <2>1, <2>2
  <1>6. \A i, j \in 1..Len(txs) : txs[i] = txs[j] => i = j
    <2>1. ASSUME NEW i \in 1..q + l, NEW j \in 1..q + l, txs[i] = txs[j] PROVE i = j
      <3>1. CASE i - q \in 1..l /\ txs[i] = list[k + (i - q)] /\ k + (i - q) \in 1..m
        <4>1. txs[i].from = "deployer" /\ txs[i].nonce = k + (i - q)
          BY <1>3, <3>1
        <4>2. j - q \in 1..l /\ txs[j].nonce = k + (j - q)
          BY <1>3, <1>5, <2>1, <4>1
        <4>3. k + (i - q) = k + (j - q)
          BY <2>1, <4>1, <4>2
        <4>4. i \in Int /\ j \in Int /\ q \in Int /\ k \in Int
          BY <1>2
        <4> QED
          BY <4>3, <4>4
      <3>2. CASE q = 1 /\ i = 1 /\ txs[i].from = "stranger"
        <4>1. ~(j - q \in 1..l /\ txs[j] = list[k + (j - q)] /\ k + (j - q) \in 1..m)
          BY <1>3, <2>1, <3>2
        <4>2. j = 1
          BY <1>5, <4>1
        <4> QED
          BY <3>2, <4>2
      <3> QED
        BY <1>5, <3>1, <3>2
    <2> QED
      BY <1>4, <2>1
  <1>7. ToSet(next) = {list[i] : i \in k + 1..k + l}
    <2>1. ToSet(next) = {next[j] : j \in 1..l}
      BY IsSeqFacts
    <2>2. \A i \in k + 1..k + l : i - k \in 1..l /\ k + (i - k) = i
      BY <1>2
    <2>3. \A j \in 1..l : k + j \in k + 1..k + l
      BY <1>2
    <2>4. \A j \in 1..l : next[j] = list[k + j]
      OBVIOUS
    <2>5. ASSUME NEW i \in k + 1..k + l PROVE list[i] \in ToSet(next)
      <3>1. PICK j \in 1..l : k + j = i
        BY <2>2
      <3> QED
        BY <2>1, <2>4, <3>1
    <2>6. ASSUME NEW tx \in ToSet(next) PROVE tx \in {list[i] : i \in k + 1..k + l}
      <3>1. PICK j \in 1..l : tx = next[j]
        BY <2>1
      <3> QED
        BY <2>3, <2>4, <3>1
    <2> QED
      BY Zenon, <2>5, <2>6
  <1>8. ToSet(txs) \cap D = {}
    <2>1. ASSUME NEW tx \in ToSet(next), tx \in D PROVE FALSE
      <3>1. PICK i \in k + 1..k + l : tx = list[i]
        BY <1>7, <2>1
      <3>2. i \in 1..m /\ tx.from = "deployer" /\ tx.nonce = i
        BY <1>2, <1>3, <3>1
      <3>3. PICK j \in 1..k : tx = list[j]
        BY <2>1, <3>2 DEF Deployers, FirstSent
      <3>4. j \in 1..m /\ tx.nonce = j
        BY <1>2, <1>3, <3>3
      <3> QED
        BY <1>2, <3>1, <3>2, <3>3, <3>4
    <2>2. ASSUME NEW tx \in ToSet(strangers), tx \in D PROVE FALSE
      <3>1. tx.from = "stranger" /\ tx.nonce = n + 1
        BY <1>1, <2>2
      <3>2. tx \in Others(D)
        BY <2>2, <3>1 DEF Others
      <3> QED
        BY <3>1, <3>2
    <2> QED
      BY <1>4, <2>1, <2>2
  <1>9. PICK E : E = D \cup ToSet(txs)
    OBVIOUS
  <1>10. IsFiniteSet(E)
    BY <1>4, <1>9, MembersAreFinite, FS_Union
  <1>11. Deployers(E) = FirstSent(list, k + l) /\ k + l \in 0..Len(list)
    <2>1. \A tx \in ToSet(strangers) : tx.from = "stranger"
      BY <1>1
    <2>2. \A tx \in ToSet(next) : tx.from = "deployer"
      BY <1>2, <1>3, <1>7
    <2>3. Deployers(E) = Deployers(D) \cup ToSet(next)
      BY <1>4, <1>9, <2>1, <2>2 DEF Deployers
    <2>4. 1..k + l = (1..k) \cup (k + 1..k + l)
      BY <1>2
    <2>5. FirstSent(list, k + l) = FirstSent(list, k) \cup {list[i] : i \in k + 1..k + l}
      BY <2>4 DEF FirstSent
    <2> QED
      BY <1>2, <1>7, <2>3, <2>5
  <1>12. \A tx \in Others(E) : tx.nonce \in 1..Cardinality(Others(E))
    <2>1. \A tx \in ToSet(next) : tx.from # "stranger"
      BY <1>2, <1>3, <1>7
    <2>2. Others(E) = Others(D) \cup ToSet(strangers)
      <3>1. \A tx \in ToSet(strangers) : tx.from = "stranger"
        BY <1>1
      <3> QED
        BY <1>4, <1>9, <2>1, <3>1 DEF Others
    <2>3. CASE q = 0
      <3>1. Others(E) = Others(D)
        BY <1>1, <2>2, <2>3
      <3> QED
        BY <3>1
    <2>4. CASE q = 1
      <3>1. PICK tx : tx = strangers[1]
        OBVIOUS
      <3>2. tx.nonce = n + 1 /\ Others(E) = Others(D) \cup {tx}
        BY <1>1, <2>2, <2>4, <3>1
      <3>3. tx \notin Others(D)
        BY <3>2
      <3>4. IsFiniteSet(Others(D))
        <4>1. Others(D) \subseteq D
          BY DEF Others
        <4> QED
          BY <4>1, FS_Subset
      <3>5. Cardinality(Others(E)) = n + 1
        BY <3>2, <3>3, <3>4, FS_AddElement
      <3> QED
        BY <3>2, <3>5
    <2> QED
      BY <2>3, <2>4
  <1> QED
    BY <1>4, <1>6, <1>8, <1>9, <1>10, <1>11, <1>12 DEF Fresh, Counted

\* Nothing is mined twice, and at every height the deployer's nonces and the others' numbers are in order.
OrderOK(blocks, list) == MinedOnce(blocks) /\ \A n \in 0..Len(blocks) : Counted(MinedBy(blocks, n), list)

\* The order stands in any first blocks.
LEMMA OrderCut ==
  ASSUME NEW blocks, IsSeq(blocks), NEW list, OrderOK(blocks, list), NEW c, IsSeq(c), NEW n \in 0..Len(blocks), Len(c) = n,
         Agree(blocks, c, n)
  PROVE  OrderOK(c, list)
  <1>1. PICK l \in Nat : l = Len(blocks) /\ n \in 0..l
    BY IsSeqFacts
  <1>2. \A m \in 1..n : c[m] = blocks[m] /\ m \in 1..l
    BY <1>1 DEF Agree
  <1>3. MinedOnce(c)
    BY <1>1, <1>2 DEF MinedOnce, OrderOK
  <1>4. ASSUME NEW m \in 0..n PROVE Counted(MinedBy(c, m), list)
    <2>1. MinedBy(c, m) = MinedBy(blocks, m)
      <3>1. \A i \in 1..m : c[i] = blocks[i]
        BY <1>1, <1>2
      <3> QED
        BY <3>1 DEF MinedBy
    <2>2. m \in 0..Len(blocks)
      BY <1>1
    <2> QED
      BY <2>1, <2>2 DEF OrderOK
  <1> QED
    BY <1>3, <1>4 DEF OrderOK

\* A fresh block keeps it.
LEMMA OrderGrows ==
  ASSUME NEW blocks, IsSeq(blocks), NEW list, OrderOK(blocks, list), \A m \in 1..Len(blocks) : IsSeq(blocks[m].txs),
         NEW b, Fresh(b.txs, MinedBy(blocks, Len(blocks))), Counted(MinedBy(blocks, Len(blocks)) \cup ToSet(b.txs), list),
         NEW c, NEW n, n = Len(blocks) + 1, Len(c) = n, c[n] = b, Agree(blocks, c, Len(blocks))
  PROVE  OrderOK(c, list)
  <1>1. PICK l \in Nat : l = Len(blocks) /\ n = l + 1 /\ n \in Nat
    BY IsSeqFacts
  <1>2. /\ \A m \in 1..l : c[m] = blocks[m] /\ IsSeq(blocks[m].txs)
        /\ \A m \in 1..n : m \in 1..l \/ m = n
        /\ ~(n \in 1..l)
    BY <1>1 DEF Agree
  <1>3. /\ IsSeq(b.txs) /\ ToSet(b.txs) \cap MinedBy(blocks, l) = {}
        /\ \A i, j \in 1..Len(b.txs) : b.txs[i] = b.txs[j] => i = j
    BY <1>1 DEF Fresh
  <1>4. ASSUME NEW m \in 1..l, NEW i \in 1..Len(blocks[m].txs), NEW j \in 1..Len(b.txs), blocks[m].txs[i] = b.txs[j]
        PROVE  FALSE
    <2>1. blocks[m].txs[i] \in ToSet(blocks[m].txs) /\ b.txs[j] \in ToSet(b.txs)
      <3>1. ToSet(blocks[m].txs) = {blocks[m].txs[k] : k \in 1..Len(blocks[m].txs)}
        BY <1>2, IsSeqFacts
      <3>2. ToSet(b.txs) = {b.txs[k] : k \in 1..Len(b.txs)}
        BY <1>3, IsSeqFacts
      <3> QED
        BY <3>1, <3>2
    <2>2. blocks[m].txs[i] \in MinedBy(blocks, l)
      BY <2>1 DEF MinedBy
    <2> QED
      BY <1>3, <1>4, <2>1, <2>2
  <1>5. MinedOnce(c)
    <2>1. ASSUME NEW m \in 1..n, NEW k \in 1..n, NEW i \in 1..Len(c[m].txs), NEW j \in 1..Len(c[k].txs),
                 c[m].txs[i] = c[k].txs[j]
          PROVE  m = k /\ i = j
      <3>1. CASE m \in 1..l /\ k \in 1..l
        <4>1. c[m] = blocks[m] /\ c[k] = blocks[k]
          BY <1>2, <3>1
        <4> QED
          BY <1>1, <2>1, <3>1, <4>1 DEF OrderOK, MinedOnce
      <3>2. CASE m \in 1..l /\ k = n
        <4>1. c[m] = blocks[m] /\ c[k] = b
          BY <1>2, <3>2
        <4>2. i \in 1..Len(blocks[m].txs) /\ j \in 1..Len(b.txs) /\ blocks[m].txs[i] = b.txs[j]
          BY Zenon, <2>1, <4>1
        <4> QED
          BY <1>4, <3>2, <4>2
      <3>3. CASE m = n /\ k \in 1..l
        <4>1. c[k] = blocks[k] /\ c[m] = b
          BY <1>2, <3>3
        <4>2. j \in 1..Len(blocks[k].txs) /\ i \in 1..Len(b.txs) /\ blocks[k].txs[j] = b.txs[i]
          BY Zenon, <2>1, <4>1
        <4> QED
          BY <1>4, <3>3, <4>2
      <3>4. CASE m = n /\ k = n
        <4>1. c[k] = b /\ c[m] = b
          BY <3>4
        <4>2. j \in 1..Len(b.txs) /\ i \in 1..Len(b.txs) /\ b.txs[j] = b.txs[i]
          BY Zenon, <2>1, <4>1
        <4> QED
          BY <1>3, <3>4, <4>2
      <3> QED
        BY <1>2, <3>1, <3>2, <3>3, <3>4
    <2> QED
      BY <2>1 DEF MinedOnce
  <1>6. ASSUME NEW m \in 0..n PROVE Counted(MinedBy(c, m), list)
    <2>1. CASE m \in 0..l
      <3>1. MinedBy(c, m) = MinedBy(blocks, m)
        <4>1. \A i \in 1..m : c[i] = blocks[i]
          BY <1>1, <1>2, <2>1
        <4> QED
          BY <4>1 DEF MinedBy
      <3> QED
        BY <1>1, <2>1, <3>1 DEF OrderOK
    <2>2. CASE m = n
      <3>1. MinedBy(c, n) = MinedBy(blocks, l) \cup ToSet(b.txs)
        <4>1. 1..n = (1..l) \cup {n}
          BY <1>1
        <4> QED
          BY <1>2, <4>1 DEF MinedBy
      <3> QED
        BY <1>1, <2>2, <3>1
    <2> QED
      BY <1>1, <2>1, <2>2
  <1> QED
    BY <1>5, <1>6 DEF OrderOK

\* What is sent later changes nothing in the order of what was mined.
LEMMA OrderStays ==
  ASSUME NEW blocks, NEW list, OrderOK(blocks, list), IsSeq(list), NEW more, IsSeq(more), Len(list) <= Len(more),
         \A i \in 1..Len(list) : more[i] = list[i]
  PROVE  OrderOK(blocks, more)
  <1>1. Len(list) \in Nat /\ Len(more) \in Nat
    BY IsSeqFacts
  <1>2. ASSUME NEW n \in 0..Len(blocks) PROVE Counted(MinedBy(blocks, n), more)
    <2>1. PICK D : D = MinedBy(blocks, n)
      OBVIOUS
    <2>2. Counted(D, list)
      BY <2>1 DEF OrderOK
    <2>3. PICK k \in 0..Len(list) : Deployers(D) = FirstSent(list, k)
      BY <2>2 DEF Counted
    <2>4. k \in 0..Len(more) /\ \A i \in 1..k : more[i] = list[i]
      BY <1>1
    <2>5. FirstSent(more, k) = FirstSent(list, k)
      BY <2>4 DEF FirstSent
    <2>6. Counted(D, more)
      BY <2>2, <2>3, <2>4, <2>5 DEF Counted
    <2> QED
      BY <2>1, <2>6
  <1> QED
    BY <1>2 DEF OrderOK

OrderInvariant ==
  /\ ChainOK /\ SentOK /\ BlocksOK /\ LedgerInvariant
  /\ OrderOK(chain, sent) /\ deployRun # NoRun

\* The deployer's next transactions carry the next nonces, and are none of the core's deployment.
InTurn(txs) ==
  /\ IsSeq(txs)
  /\ \A k \in 1..Len(txs) :
       txs[k].nonce = Len(sent) + k /\ txs[k].from = "deployer" /\ txs[k].call \notin {"hook", "setHook"}

\* One, two or three transactions in turn.
LEMMA TuplesInTurn ==
  ASSUME Len(sent) \in Nat
  PROVE  /\ \A a : a.nonce = Len(sent) + 1 /\ a.from = "deployer" /\ a.call \notin {"hook", "setHook"} => InTurn(<<a>>)
         /\ \A a, b : /\ a.nonce = Len(sent) + 1 /\ a.from = "deployer" /\ a.call \notin {"hook", "setHook"}
                      /\ b.nonce = Len(sent) + 2 /\ b.from = "deployer" /\ b.call \notin {"hook", "setHook"}
                      => InTurn(<<a, b>>)
         /\ \A a, b, c : /\ a.nonce = Len(sent) + 1 /\ a.from = "deployer" /\ a.call \notin {"hook", "setHook"}
                         /\ b.nonce = Len(sent) + 2 /\ b.from = "deployer" /\ b.call \notin {"hook", "setHook"}
                         /\ c.nonce = Len(sent) + 3 /\ c.from = "deployer" /\ c.call \notin {"hook", "setHook"}
                         => InTurn(<<a, b, c>>)
  <1>1. ASSUME NEW a, a.nonce = Len(sent) + 1, a.from = "deployer", a.call \notin {"hook", "setHook"}
        PROVE  InTurn(<<a>>)
    <2>1. PICK t : t = <<a>>
      OBVIOUS
    <2>2. IsSeq(t) /\ Len(t) = 1 /\ t[1] = a
      BY <2>1, TuplesAreSeqs
    <2>3. InTurn(t)
      BY <1>1, <2>2 DEF InTurn
    <2> QED
      BY <2>1, <2>3
  <1>2. ASSUME NEW a, a.nonce = Len(sent) + 1, a.from = "deployer", a.call \notin {"hook", "setHook"},
               NEW b, b.nonce = Len(sent) + 2, b.from = "deployer", b.call \notin {"hook", "setHook"}
        PROVE  InTurn(<<a, b>>)
    <2>1. PICK t : t = <<a, b>>
      OBVIOUS
    <2>2. IsSeq(t) /\ Len(t) = 2 /\ t[1] = a /\ t[2] = b
      BY <2>1, TuplesAreSeqs
    <2>3. \A k \in 1..2 : k = 1 \/ k = 2
      OBVIOUS
    <2>4. InTurn(t)
      BY <1>2, <2>2, <2>3 DEF InTurn
    <2> QED
      BY <2>1, <2>4
  <1>3. ASSUME NEW a, a.nonce = Len(sent) + 1, a.from = "deployer", a.call \notin {"hook", "setHook"},
               NEW b, b.nonce = Len(sent) + 2, b.from = "deployer", b.call \notin {"hook", "setHook"},
               NEW c, c.nonce = Len(sent) + 3, c.from = "deployer", c.call \notin {"hook", "setHook"}
        PROVE  InTurn(<<a, b, c>>)
    <2>1. PICK t : t = <<a, b, c>>
      OBVIOUS
    <2>2. IsSeq(t) /\ Len(t) = 3 /\ t[1] = a /\ t[2] = b /\ t[3] = c
      BY <2>1, TuplesAreSeqs
    <2>3. \A k \in 1..3 : k = 1 \/ k = 2 \/ k = 3
      OBVIOUS
    <2>4. InTurn(t)
      BY <1>3, <2>2, <2>3 DEF InTurn
    <2> QED
      BY <2>1, <2>4
  <1> QED
    BY <1>1, <1>2, <1>3

\* A stage's transactions are in turn.
LEMMA StagesInTurn ==
  ASSUME Len(sent) \in Nat, NEW u, NEW stage, NEW epoch, NEW deadline
  PROVE  InTurn(StageTransactions(u, stage, epoch, deadline))
  <1>0. PICK n : n = Len(sent) + 1 /\ n + 1 = Len(sent) + 2
    OBVIOUS
  <1>1. \A label \in 4..8 : \A m, to, args :
          /\ UtilityTransaction(label, m, to, args).nonce = m
          /\ UtilityTransaction(label, m, to, args).from = "deployer"
          /\ UtilityTransaction(label, m, to, args).call \notin {"hook", "setHook"}
    <2>1. \A label \in 4..8 : UtilityLabels[label] \notin {"hook", "setHook"}
      BY DEF UtilityLabels
    <2> QED
      BY <2>1 DEF UtilityTransaction, Transaction
  <1>2. CASE stage = "lock"
    <2>1. PICK a, b : /\ StageTransactions(u, stage, epoch, deadline) = <<a, b>>
                      /\ \E to, args : a = UtilityTransaction(4, n, to, args)
                      /\ \E to, args : b = UtilityTransaction(5, n + 1, to, args)
      BY <1>0, <1>2, Zenon DEF StageTransactions
    <2>2. /\ a.nonce = n /\ a.from = "deployer" /\ a.call \notin {"hook", "setHook"}
          /\ b.nonce = n + 1 /\ b.from = "deployer" /\ b.call \notin {"hook", "setHook"}
      BY <1>1, <2>1
    <2> QED
      BY <1>0, <2>1, <2>2, TuplesInTurn
  <1>3. CASE stage = "boost"
    <2>1. PICK a, b : /\ StageTransactions(u, stage, epoch, deadline) = <<a, b>>
                      /\ \E to, args : a = UtilityTransaction(6, n, to, args)
                      /\ \E to, args : b = UtilityTransaction(7, n + 1, to, args)
      BY <1>0, <1>3, Zenon DEF StageTransactions
    <2>2. /\ a.nonce = n /\ a.from = "deployer" /\ a.call \notin {"hook", "setHook"}
          /\ b.nonce = n + 1 /\ b.from = "deployer" /\ b.call \notin {"hook", "setHook"}
      BY <1>1, <2>1
    <2> QED
      BY <1>0, <2>1, <2>2, TuplesInTurn
  <1>4. CASE stage \notin {"lock", "boost"}
    <2>1. PICK a : /\ StageTransactions(u, stage, epoch, deadline) = <<a>>
                   /\ \E to, args : a = UtilityTransaction(8, n, to, args)
      BY <1>0, <1>4 DEF StageTransactions
    <2>2. a.nonce = n /\ a.from = "deployer" /\ a.call \notin {"hook", "setHook"}
      BY <1>1, <2>1
    <2> QED
      BY <1>0, <2>1, <2>2, TuplesInTurn
  <1> QED
    BY <1>2, <1>3, <1>4

\* So are those of the deployment.
LEMMA DeploymentInTurn ==
  ASSUME Len(sent) \in Nat, DeployUtilities
  PROVE  \E txs : InTurn(txs) /\ Send(txs)
  <1>1. PICK first, l : /\ first = Len(sent) + 1 /\ first + 1 = Len(sent) + 2 /\ first + 2 = Len(sent) + 3
                        /\ Broadcast("deploy",
                             <<UtilityTransaction(1, first, NoAddress, <<HookrToken>>),
                               UtilityTransaction(2, first + 1, NoAddress, <<HookrToken, l, first>>),
                               UtilityTransaction(3, first + 2, first, <<first + 1>>)>>, TRUE)
    <2>1. PICK first, l : /\ first = Len(sent) + 1
                        /\ Broadcast("deploy",
                             <<UtilityTransaction(1, first, NoAddress, <<HookrToken>>),
                               UtilityTransaction(2, first + 1, NoAddress, <<HookrToken, l, first>>),
                               UtilityTransaction(3, first + 2, first, <<first + 1>>)>>, TRUE)
      BY DEF DeployUtilities
    <2>2. first + 1 = Len(sent) + 2 /\ first + 2 = Len(sent) + 3
      BY <2>1
    <2> QED
      BY Zenon, <2>1, <2>2
  <1>2. PICK a : a = UtilityTransaction(1, first, NoAddress, <<HookrToken>>)
    OBVIOUS
  <1>3. PICK b : b = UtilityTransaction(2, first + 1, NoAddress, <<HookrToken, l, first>>)
    OBVIOUS
  <1>4. PICK c : c = UtilityTransaction(3, first + 2, first, <<first + 1>>)
    OBVIOUS
  <1>5. /\ a.nonce = Len(sent) + 1 /\ a.from = "deployer" /\ a.call \notin {"hook", "setHook"}
        /\ b.nonce = Len(sent) + 2 /\ b.from = "deployer" /\ b.call \notin {"hook", "setHook"}
        /\ c.nonce = Len(sent) + 3 /\ c.from = "deployer" /\ c.call \notin {"hook", "setHook"}
    BY <1>1, <1>2, <1>3, <1>4 DEF UtilityTransaction, Transaction, UtilityLabels
  <1>6. PICK txs : txs = <<a, b, c>>
    OBVIOUS
  <1>7. Send(txs)
    BY Zenon, <1>1, <1>2, <1>3, <1>4, <1>6 DEF Broadcast
  <1>8. InTurn(txs)
    BY <1>5, <1>6, TuplesInTurn
  <1> QED
    BY <1>7, <1>8

\* What the chain and what was sent do in a step.
LEMMA UtilityMoves ==
  ASSUME ChainOK, SentOK, deployRun # NoRun, [UtilityNext]_<<vars, utilityVars>>
  PROVE  /\ deployRun' # NoRun
         /\ \/ (UtilityMine \/ AdvanceSafe \/ AdvanceFinal \/ Reorganise) /\ UNCHANGED deployRun
            \/ UNCHANGED <<chainVars, deployRun>>
            \/ \E txs : InTurn(txs) /\ Send(txs) /\ UNCHANGED deployRun
  <1>0. Len(sent) \in Nat
    BY IsSeqFacts DEF SentOK
  <1>1. CASE UtilityChainNext \/ UtilityHeadsNext
    BY <1>1 DEF UtilityChainNext, UtilityHeadsNext, workVars
  <1>2. CASE UtilityTreeNext
    BY <1>2 DEF UtilityTreeNext, EditSources, Build, RetainRelease, Interrupt, EditTerms, GenerateTerms, GenerateTermsHash,
       UtilityCommit, UtilityCheckout, Commit, vars, workVars
  <1>3. CASE DeployUtilities
    <2>1. UNCHANGED deployRun
      BY <1>3 DEF DeployUtilities, Broadcast
    <2> QED
      BY <1>0, <1>3, <2>1, DeploymentInTurn
  <1>4. ASSUME NEW stage, RunStage(stage) \/ \E kept \in BOOLEAN : HandStage(stage, kept)
        PROVE  UNCHANGED deployRun /\ \E txs : InTurn(txs) /\ Send(txs)
    <2>1. PICK u, epoch, deadline, kept : Broadcast(stage, StageTransactions(u, stage, epoch, deadline), kept)
      BY <1>4, Zenon DEF RunStage, HandStage
    <2>2. PICK txs : txs = StageTransactions(u, stage, epoch, deadline)
      OBVIOUS
    <2>3. InTurn(txs)
      BY <1>0, <2>2, StagesInTurn
    <2>4. Send(txs) /\ UNCHANGED deployRun
      BY Zenon, <2>1, <2>2 DEF Broadcast
    <2> QED
      BY <2>3, <2>4
  <1>5. ASSUME NEW stage, RecordStage(stage) PROVE UNCHANGED <<chainVars, deployRun>>
    BY <1>5 DEF RecordStage, vars, workVars
  <1>6. CASE UtilityScriptNext
    BY <1>6 DEF UtilityScriptNext, StartUtilityPreflight, StartCandidate, UtilityReceiptHead, UtilityStateHead,
       UtilityCore, UtilityPreflightReceipts, UtilityPreflightState, UtilityPreflightRecheck, UtilityPreflightEnds,
       UtilityCanaryReceipts, UtilityCanaryState, UtilityCanaryRecheck, UtilityConfirmFinality, UtilityFinalityTimeout,
       EmitCandidate, OnlyUtilityRunChanges, OnlyRunChanges
  <1>7. CASE UNCHANGED <<vars, utilityVars>>
    BY <1>7 DEF vars, workVars
  <1> QED
    BY <1>1, <1>2, <1>3, <1>4, <1>5, <1>6, <1>7 DEF UtilityNext, UtilityBroadcastNext

\* So a step is one of the chain's, and what was sent stays sent.
LEMMA UtilityChainSteps ==
  ASSUME ChainOK, SentOK, BlocksOK, deployRun # NoRun, [UtilityNext]_<<vars, utilityVars>>
  PROVE  ChainStep /\ SentOK' /\ ToSet(sent) \subseteq ToSet(sent')
  <1>1. CASE (UtilityMine \/ AdvanceSafe \/ AdvanceFinal \/ Reorganise) /\ UNCHANGED deployRun
    <2>1. UNCHANGED sent
      BY <1>1 DEF UtilityMine, Grow, AdvanceSafe, AdvanceFinal, Reorganise
    <2> QED
      BY <1>1, <2>1 DEF ChainStep, SentOK
  <1>2. CASE UNCHANGED <<chainVars, deployRun>>
    BY <1>2 DEF ChainStep, chainVars, SentOK
  <1>3. CASE \E txs : InTurn(txs) /\ Send(txs) /\ UNCHANGED deployRun
    <2>1. PICK txs : InTurn(txs) /\ Send(txs) /\ UNCHANGED deployRun
      BY <1>3
    <2>2. SentOK' /\ ToSet(sent) \subseteq ToSet(sent')
      BY <2>1, SendKeeps DEF InTurn
    <2> QED
      BY <2>1, <2>2 DEF ChainStep
  <1> QED
    BY <1>1, <1>2, <1>3, UtilityMoves

\* The deployer's nonces are in order.
LEMMA SentInOrder ==
  ASSUME SentOK
  PROVE  NonceOrder(sent)
  BY DEF SentOK, NonceOrder

\* A block of theirs keeps the order.
LEMMA MiningOrders ==
  ASSUME OrderInvariant, UtilityMine
  PROVE  OrderOK(chain', sent)
  <1>0. IsSeq(chain) /\ Len(chain) \in Nat
    BY IsSeqFacts DEF OrderInvariant, ChainOK
  <1>1. PICK u, strangers, next, clock :
          /\ strangers \in UtilityStrangers(u) /\ next \in Prefixes(Pending)
          /\ Grow(strangers, next, clock)
    BY Zenon DEF UtilityMine
  <1>2. PICK txs : txs = strangers \o next
    OBVIOUS
  <1>3. PICK hash : hash = <<Latest + 1, fork>>
    OBVIOUS
  <1>4. PICK b : b = [hash |-> hash, txs |-> txs, clock |-> clock]
    OBVIOUS
  <1>5. chain' = Append(chain, b)
    BY Zenon, <1>1, <1>2, <1>3, <1>4 DEF Grow
  <1>6. PICK D : D = Mined(chain)
    OBVIOUS
  <1>7. D = MinedBy(chain, Len(chain)) /\ Len(chain) \in 0..Len(chain)
    BY <1>0, <1>6, MinedAll
  <1>8. Counted(D, sent)
    BY <1>7 DEF OrderInvariant, OrderOK
  <1>9. PICK k \in 0..Len(sent) : Deployers(D) = FirstSent(sent, k)
    BY <1>8 DEF Counted
  <1>10. NonceOrder(sent) /\ IsFiniteSet(D)
    BY <1>8, SentInOrder DEF OrderInvariant, Counted
  <1>11. Nonces(chain) = k
    <2>1. Nonces(chain) = Cardinality(Deployers(D))
      BY <1>6 DEF Nonces, Deployers
    <2> QED
      BY <1>9, <1>10, <2>1, FirstAreCounted
  <1>12. next \in Prefixes(SubSeq(sent, k + 1, Len(sent)))
    BY <1>1, <1>11 DEF Pending
  <1>13. PICK l \in Nat : /\ l = Len(next) /\ IsSeq(next) /\ k + l <= Len(sent)
                          /\ \A j \in 1..l : next[j] = sent[k + j]
    BY <1>10, <1>12, NextAre
  <1>14. PICK n \in Nat : n = Cardinality(Others(D))
    <2>1. Others(D) \subseteq D
      BY DEF Others
    <2> QED
      BY <1>10, <2>1, FS_Subset, FS_CardinalityType
  <1>15. strangers = <<>> \/ \E tx : strangers = <<tx>> /\ tx.from = "stranger" /\ tx.nonce = n + 1
    <2>1. n + 1 = Cardinality({tx \in Mined(chain) : tx.from = "stranger"}) + 1
      BY <1>6, <1>14 DEF Others
    <2> QED
      BY <1>1, <2>1, OneStranger
  <1>16. \A tx \in Others(D) : tx.nonce \in 1..n
    BY <1>8, <1>14 DEF Counted
  <1>17. PICK list : list = sent
    OBVIOUS
  <1>18. Fresh(txs, D) /\ Counted(D \cup ToSet(txs), list)
    BY <1>2, <1>9, <1>10, <1>13, <1>14, <1>15, <1>16, <1>17, BlockIsFresh
  <1>19. b.txs = txs
    BY <1>4
  <1>20. PICK c : c = Append(chain, b)
    OBVIOUS
  <1>21. PICK m \in Nat : m = Len(chain) + 1
    BY <1>0
  <1>22. Len(c) = m /\ c[m] = b /\ Agree(chain, c, Len(chain))
    <2>1. IsSeq(c) /\ Len(c) = Len(chain) + 1 /\ \A i \in 1..Len(chain) : c[i] = chain[i]
      BY <1>0, <1>20, AppendIsSeq
    <2>2. c[Len(chain) + 1] = b
      BY <1>0, <1>20 DEF IsSeq
    <2> QED
      BY <1>21, <2>1, <2>2 DEF Agree
  <1>23. \A i \in 1..Len(chain) : IsSeq(chain[i].txs)
    BY DEF OrderInvariant, LedgerInvariant, TraceOK, BlockOK, TxsOK
  <1>24. OrderOK(c, list)
    <2>1. OrderOK(chain, list)
      BY <1>17 DEF OrderInvariant
    <2>2. Fresh(b.txs, MinedBy(chain, Len(chain))) /\ Counted(MinedBy(chain, Len(chain)) \cup ToSet(b.txs), list)
      BY Zenon, <1>7, <1>18, <1>19
    <2> QED
      BY <1>0, <1>21, <1>22, <1>23, <2>1, <2>2, OrderGrows
  <1> QED
    BY Zenon, <1>5, <1>17, <1>20, <1>24

\* Dropping blocks keeps it.
LEMMA DroppingOrders ==
  ASSUME OrderInvariant, Reorganise
  PROVE  OrderOK(chain', sent)
  <1>0. IsSeq(chain) /\ Len(chain) \in Nat /\ final \in Nat
    BY IsSeqFacts DEF OrderInvariant, ChainOK
  <1>1. PICK n \in final..Len(chain) - 1 : chain' = SubSeq(chain, 1, n)
    BY DEF Reorganise, ChainThrough, Latest
  <1>2. n \in 0..Len(chain)
    BY <1>0, <1>1
  <1>3. PICK c : c = SubSeq(chain, 1, n)
    OBVIOUS
  <1>4. IsSeq(c) /\ Len(c) = n /\ \A i \in 1..n : c[i] = chain[i]
    BY <1>0, <1>2, <1>3, PrefixIsSeq
  <1>5. Agree(chain, c, n)
    BY <1>4 DEF Agree
  <1>6. OrderOK(c, sent)
    BY <1>0, <1>2, <1>4, <1>5, OrderCut DEF OrderInvariant
  <1> QED
    BY Zenon, <1>1, <1>3, <1>6

\* Every step keeps the order.
LEMMA OrderSteps ==
  ASSUME OrderInvariant, [UtilityNext]_<<vars, utilityVars>>
  PROVE  OrderInvariant'
  <1>1. ChainStep /\ SentOK' /\ ToSet(sent) \subseteq ToSet(sent')
    BY UtilityChainSteps DEF OrderInvariant
  <1>2. ChainOK' /\ BlocksOK'
    BY <1>1, BlocksKept DEF OrderInvariant
  <1>3. LedgerInvariant'
    BY LedgerSteps DEF OrderInvariant
  <1>4. deployRun' # NoRun
    BY UtilityMoves DEF OrderInvariant
  <1>5. OrderOK(chain', sent')
    <2>1. CASE UtilityMine \/ AdvanceSafe \/ AdvanceFinal \/ Reorganise
      <3>1. UNCHANGED sent
        BY <2>1 DEF UtilityMine, Grow, AdvanceSafe, AdvanceFinal, Reorganise
      <3>2. CASE AdvanceSafe \/ AdvanceFinal
        <4>1. UNCHANGED chain
          BY <3>2 DEF AdvanceSafe, AdvanceFinal
        <4> QED
          BY <3>1, <4>1 DEF OrderInvariant
      <3> QED
        BY <2>1, <3>1, <3>2, MiningOrders, DroppingOrders
    <2>2. CASE UNCHANGED <<chainVars, deployRun>>
      BY <2>2 DEF chainVars, OrderInvariant
    <2>3. CASE \E txs : InTurn(txs) /\ Send(txs) /\ UNCHANGED deployRun
      <3>1. PICK txs : InTurn(txs) /\ Send(txs)
        BY <2>3
      <3>2. chain' = chain /\ sent' = sent \o txs
        BY <3>1 DEF Send
      <3>3. PICK all : all = sent \o txs
        OBVIOUS
      <3>4. Joined(all, sent, txs) /\ IsSeq(sent)
        <4>1. IsSeq(sent) /\ IsSeq(txs)
          BY <3>1 DEF InTurn, OrderInvariant, SentOK
        <4> QED
          BY Zenon, <3>3, <4>1, JoinIs
      <3>5. IsSeq(all) /\ Len(sent) <= Len(all) /\ \A i \in 1..Len(sent) : all[i] = sent[i]
        BY <3>4 DEF Joined
      <3>6. OrderOK(chain, all)
        BY <3>4, <3>5, OrderStays DEF OrderInvariant
      <3> QED
        BY Zenon, <3>2, <3>3, <3>6
    <2> QED
      BY <2>1, <2>2, <2>3, UtilityMoves DEF OrderInvariant
  <1>6. OrderOK(chain, sent)'
    <2>1. PICK c : c = chain'
      OBVIOUS
    <2>2. PICK list : list = sent'
      OBVIOUS
    <2>3. OrderOK(c, list)
      BY <1>5, <2>1, <2>2
    <2>4. MinedOnce(chain)'
      BY <2>1, <2>3 DEF OrderOK, MinedOnce
    <2>5. \A n \in 0..Len(c) : Counted(MinedBy(c, n), list)
      BY <2>3 DEF OrderOK
    <2>6. (\A n \in 0..Len(chain) : Counted(MinedBy(chain, n), sent))'
      <3>1. ASSUME NEW n \in 0..Len(c)
            PROVE  (Counted(MinedBy(chain, n), sent))'
        <4>1. PICK D : D = MinedBy(c, n)
          OBVIOUS
        <4>2. Counted(D, list)
          BY <2>5, <4>1
        <4>3. (MinedBy(chain, n))' = D
          BY <2>1, <4>1 DEF MinedBy
        <4>4. (Others(MinedBy(chain, n)))' = Others(D) /\ (Deployers(MinedBy(chain, n)))' = Deployers(D)
          BY <4>3 DEF Others, Deployers
        <4>5. \A k : (FirstSent(sent, k))' = FirstSent(list, k)
          BY <2>2 DEF FirstSent
        <4>6. (IsFiniteSet(MinedBy(chain, n)))'
          BY <4>2, <4>3 DEF Counted
        <4>7. (\E k \in 0..Len(sent) : Deployers(MinedBy(chain, n)) = FirstSent(sent, k))'
          BY <2>2, <4>2, <4>4, <4>5 DEF Counted
        <4>8. (\A tx \in Others(MinedBy(chain, n)) : tx.nonce \in 1..Cardinality(Others(MinedBy(chain, n))))'
          BY <4>2, <4>4 DEF Counted
        <4> QED
          BY <4>6, <4>7, <4>8 DEF Counted
      <3> QED
        BY <2>1, <3>1
    <2> QED
      BY <2>4, <2>6 DEF OrderOK
  <1> QED
    BY <1>1, <1>2, <1>3, <1>4, <1>6 DEF OrderInvariant

\* The core's transactions, in the one block that holds them.
LEMMA OrderStarts == UtilityInit => OrderInvariant
  <1> SUFFICES ASSUME UtilityInit PROVE OrderInvariant
    OBVIOUS
  <1>1. PICK deploy : deploy = DeployTransactions(1, Reviewed)
    OBVIOUS
  <1>2. PICK canary : canary = [i \in DOMAIN CanarySteps |->
                   CanaryTransaction(i, Len(deploy) + i, deploy[Launchpad].nonce, deploy[4].nonce, Len(deploy) + 1, "spec", FALSE)]
    OBVIOUS
  <1>3. PICK hash : /\ chain = <<[hash |-> hash, txs |-> deploy \o canary, clock |-> 1]>> /\ hash = <<1, 0>>
                    /\ safe = 1 /\ final = 1 /\ fork = 0 /\ sent = deploy \o canary
    BY Zenon, <1>1, <1>2 DEF UtilityInit
  <1>4. deployRun # NoRun
    <2>1. PICK blocks : deployRun = [commit |-> 1, txs |-> deploy, blocks |-> blocks]
      BY Zenon, <1>1 DEF UtilityInit
    <2> QED
      BY <2>1 DEF NoRun
  <1>5. PICK l \in Nat : l = Len(deploy) /\ l = 5 + HouseBlueprints /\ l >= 5
    <2>1. IsSeq(deploy) /\ Len(deploy) = Len(DeploySteps)
      BY <1>1, DeploymentIs
    <2>2. Len(deploy) \in Nat
      BY <2>1, IsSeqFacts
    <2> QED
      BY <2>1, <2>2, LabelsAre, ReleaseLabels
  <1>6. /\ IsSeq(deploy)
        /\ \A k \in 1..l :
             /\ deploy[k].nonce = k /\ deploy[k].from = "deployer"
             /\ deploy[k].call = "hook" => deploy[k].to = Create2Deployer
             /\ deploy[k].call = "setHook" => k = 5
    BY <1>1, <1>5, DeploymentIs
  <1>7. IsSeq(canary) /\ Len(canary) = 4
    <2>1. canary = [i \in 1..4 |-> canary[i]]
      BY <1>2, CanaryLabels
    <2> QED
      BY <2>1, ListIsSeq
  <1>8. \A i \in 1..4 : canary[i].nonce = l + i /\ canary[i].from = "deployer" /\ canary[i].call \notin {"hook", "setHook"}
    <2>1. \A i \in 1..4 : canary[i].nonce = l + i /\ canary[i].from = "deployer" /\ canary[i].call = CanarySteps[i]
      BY <1>2, <1>5, CanaryLabels DEF CanaryTransaction, Transaction
    <2>2. \A i \in 1..4 : CanarySteps[i] \notin {"hook", "setHook"}
      <3>1. \A i \in 1..4 : i \in {1, 2, 3, 4}
        OBVIOUS
      <3> QED
        BY <3>1, CanaryLabels
    <2> QED
      BY <2>1, <2>2
  <1>9. PICK txs : txs = deploy \o canary
    OBVIOUS
  <1>10. Joined(txs, deploy, canary)
    BY Zenon, <1>6, <1>7, <1>9, JoinIs
  <1>11. PICK n \in Nat : n = Len(txs) /\ n = l + 4
    <2>1. Len(txs) = Len(deploy) + Len(canary)
      BY <1>10 DEF Joined
    <2>2. PICK m \in Nat : m = l + 4
      BY <1>5
    <2>3. m = Len(txs)
      BY <1>5, <1>7, <2>1, <2>2
    <2> QED
      BY <2>2, <2>3
  <1>12. /\ IsSeq(txs)
         /\ \A i \in 1..n :
              /\ txs[i].nonce = i /\ txs[i].from = "deployer"
              /\ txs[i].call = "hook" => txs[i].to = Create2Deployer
              /\ txs[i].call = "setHook" => i = 5
    <2>1. ASSUME NEW i \in 1..n
          PROVE  /\ txs[i].nonce = i /\ txs[i].from = "deployer"
                 /\ txs[i].call = "hook" => txs[i].to = Create2Deployer
                 /\ txs[i].call = "setHook" => i = 5
      <3>1. CASE i \in 1..l
        BY <1>5, <1>6, <1>10, <3>1 DEF Joined
      <3>2. CASE i \notin 1..l
        <4>1. PICK j \in 1..4 : i = l + j
          BY <1>5, <1>11, <3>2
        <4>2. txs[l + j] = canary[j]
          BY <1>5, <1>7, <1>10 DEF Joined
        <4>3. txs[i] = canary[j]
          BY <4>1, <4>2
        <4>4. canary[j].nonce = i /\ canary[j].from = "deployer" /\ canary[j].call \notin {"hook", "setHook"}
          BY <1>8, <4>1
        <4> QED
          BY <4>3, <4>4
      <3> QED
        BY <3>1, <3>2
    <2> QED
      BY <1>10, <2>1 DEF Joined
  <1>13. ToSet(txs) = {txs[i] : i \in 1..n}
    <2>1. IsSeq(txs)
      BY <1>12
    <2>2. ToSet(txs) = {txs[i] : i \in 1..Len(txs)}
      BY <2>1, IsSeqFacts
    <2> QED
      BY <1>11, <2>2
  <1>14. sent = txs /\ IsSeq(sent) /\ Len(sent) = n
    BY Zenon, <1>3, <1>9, <1>11, <1>12
  <1>15. SentOK
    <2>1. \A i, j \in 1..n : txs[i].call = "setHook" /\ txs[j].call = "setHook" => i = j
      BY <1>12
    <2> QED
      BY <1>4, <1>12, <1>14, <2>1 DEF SentOK
  <1>16. PICK b : b = [hash |-> hash, txs |-> txs, clock |-> 1]
    OBVIOUS
  <1>17. chain = <<b>>
    BY Zenon, <1>3, <1>9, <1>16
  <1>18. IsSeq(chain) /\ Len(chain) = 1 /\ chain[1] = b /\ b.txs = txs /\ b.hash = hash /\ hash[1] = 1 /\ hash[2] = 0
    <2>1. hash[1] = 1 /\ hash[2] = 0 /\ b.txs = txs /\ b.hash = hash
      BY <1>3, <1>16
    <2>2. IsSeq(chain) /\ Len(chain) = 1
      BY Zenon, <1>17, TuplesAreSeqs
    <2>3. chain[1] = b
      BY <1>17
    <2> QED
      BY <2>1, <2>2, <2>3
  <1>19. ChainOK
    BY <1>3, <1>18 DEF ChainOK
  <1>20. BlocksOK
    <2>1. \A tx \in ToSet(txs) : MaybeMined(tx, ToSet(sent))
      BY <1>12, <1>13, <1>14 DEF MaybeMined
    <2>2. fork = 0
      BY <1>3
    <2>3. \A m \in 1..Len(chain) : m = 1 /\ chain[m].hash[1] = 1 /\ chain[m].hash[2] = 0 /\ chain[m].txs = txs
      BY <1>18
    <2> QED
      BY <2>1, <2>2, <2>3 DEF BlocksOK
  <1>21. OrderOK(chain, sent)
    <2>1. MinedOnce(chain)
      <3>1. \A i, j \in 1..n : txs[i] = txs[j] => i = j
        BY <1>12
      <3>2. \A m \in 1..Len(chain) : m = 1 /\ chain[m].txs = txs
        BY <1>18
      <3> QED
        BY <1>11, <3>1, <3>2 DEF MinedOnce
    <2>2. ASSUME NEW k \in 0..n, NEW D, D = FirstSent(sent, k) PROVE Counted(D, sent)
      <3>1. NonceOrder(sent)
        BY <1>12, <1>14 DEF NonceOrder
      <3>2. IsFiniteSet(D)
        BY <1>14, <2>2, <3>1, FirstAreCounted
      <3>3. \A tx \in D : tx.from = "deployer"
        BY <1>12, <1>14, <2>2 DEF FirstSent
      <3>4. Deployers(D) = FirstSent(sent, k) /\ Others(D) = {}
        BY <2>2, <3>3 DEF Deployers, Others
      <3> QED
        BY <1>14, <3>2, <3>4 DEF Counted
    <2>3. MinedBy(chain, 0) = FirstSent(sent, 0)
      BY DEF MinedBy, FirstSent
    <2>4. MinedBy(chain, 1) = FirstSent(sent, n)
      <3>1. MinedBy(chain, 1) = ToSet(txs)
        BY <1>18 DEF MinedBy
      <3> QED
        BY <1>13, <1>14, <3>1 DEF FirstSent
    <2>5. \A k \in 0..Len(chain) : k = 0 \/ k = 1
      BY <1>18
    <2> QED
      BY <2>1, <2>2, <2>3, <2>4, <2>5 DEF OrderOK
  <1> QED
    BY <1>4, <1>15, <1>19, <1>20, <1>21, LedgerStarts DEF OrderInvariant

\* The lock fell into the first period, the boost into the second, the claim between it and the next week.
InPeriods(start, lock, boost, claim) ==
  /\ lock < start + BootstrapLength
  /\ boost \in start + BootstrapLength..(start + BootstrapLength + BootstrapLength) - 1
  /\ claim >= start + BootstrapLength + BootstrapLength
  /\ \A t \in start + BootstrapLength + BootstrapLength + 1..claim : (t - MondayOffset) % WeekLength # 0

\* Of these transactions, mined at these clocks, the claim was paid by the locks and the boosts in time.
Shared(u, D, c, start, claimed) ==
  \A weight \in {WeightOf({tx \in Won(u, D, "lock") : c[tx] < start + BootstrapLength})} :
    \A fees \in {Fee * Cardinality({tx \in Won(u, D, "boost") : c[tx] < start + BootstrapLength + BootstrapLength})} :
      claimed * weight <= LockWeight * fees /\ LockWeight * fees < (claimed + 2) * weight

\* Epochs of the schedule are its periods.
LEMMA PeriodsProved ==
  ASSUME NEW s, NEW start \in Nat, s.bootstrap = start, ValidateUtilityV2BootstrapSchedule(s),
         NEW lock \in Nat, UtilityV2EpochAt(s, lock) = 0,
         NEW boost \in Nat, UtilityV2EpochAt(s, boost) = 1,
         NEW claim \in Nat, UtilityV2EpochAt(s, claim) = 2
  PROVE  InPeriods(start, lock, boost, claim)
  <1>1. BootstrapLength \in Nat \ {0} /\ WeekLength \in Nat \ {0} /\ MondayOffset \in Nat
    BY UtilityNumbers
  <1>2. PICK fee \in Nat : fee = start + BootstrapLength
    BY <1>1
  <1>3. PICK open \in Nat : open = fee + BootstrapLength
    BY <1>1, <1>2
  <1>4. s.fee = fee /\ s.claim = open
    BY <1>2, <1>3 DEF ValidateUtilityV2BootstrapSchedule
  <1>5. PICK weekly : weekly = FirstMondayStrictlyAfter(open)
    OBVIOUS
  <1>6. weekly \in Int /\ s.weekly = weekly /\ open < weekly
    <2>1. PICK x \in Int : x = open - MondayOffset
      BY <1>1, <1>3
    <2>2. PICK weeks \in Int : weeks = x \div WeekLength /\ x < weeks * WeekLength + WeekLength
      BY <1>1, <2>1, DivisionFloors
    <2>3. PICK product \in Int : product = weeks * WeekLength
      BY <1>1, <2>2
    <2>4. PICK monday \in Int : monday = MondayOffset + product
      BY <1>1, <2>3
    <2>5. weekly = IF monday > open THEN monday ELSE monday + WeekLength
      BY Zenon, <1>5, <2>1, <2>2, <2>3, <2>4 DEF FirstMondayStrictlyAfter
    <2>6. open < monday + WeekLength
      BY <1>1, <1>3, <2>1, <2>2, <2>3, <2>4
    <2>7. s.weekly = weekly
      BY <1>4, <1>5 DEF ValidateUtilityV2BootstrapSchedule
    <2> QED
      BY <1>1, <2>4, <2>5, <2>6, <2>7
  <1>7. ASSUME NEW time \in Nat, NEW epoch, epoch = UtilityV2EpochAt(s, time), epoch \in 0..2
        PROVE  /\ time < fee <=> epoch = 0
               /\ time < open <=> epoch < 2
               /\ time < weekly
    <2>1. CASE time < start
      <3>1. epoch = -1
        BY <1>1, <1>2, <1>3, <1>4, <1>6, <1>7, <2>1 DEF UtilityV2EpochAt
      <3> QED
        BY <1>7, <3>1
    <2>2. CASE time >= start /\ time < fee
      <3>1. epoch = 0
        BY <1>1, <1>2, <1>3, <1>4, <1>7, <2>2 DEF UtilityV2EpochAt
      <3> QED
        BY <1>1, <1>2, <1>3, <1>6, <2>2, <3>1
    <2>3. CASE time >= fee /\ time < open
      <3>1. epoch = 1
        BY <1>1, <1>2, <1>3, <1>4, <1>7, <2>3 DEF UtilityV2EpochAt
      <3> QED
        BY <1>1, <1>2, <1>3, <1>6, <2>3, <3>1
    <2>4. CASE time >= open /\ time < weekly
      <3>1. epoch = 2
        BY <1>1, <1>2, <1>3, <1>4, <1>6, <1>7, <2>4 DEF UtilityV2EpochAt
      <3> QED
        BY <1>1, <1>2, <1>3, <1>6, <2>4, <3>1
    <2>5. CASE time >= weekly
      <3>1. PICK y \in Nat : y = time - weekly
        BY <1>6, <2>5
      <3>2. PICK q \in Nat : q = y \div WeekLength
        BY <1>1, <3>1, DivisionBounds
      <3>3. epoch = 3 + ((time - s.weekly) \div WeekLength)
        BY <1>1, <1>2, <1>3, <1>4, <1>6, <1>7, <2>5 DEF UtilityV2EpochAt
      <3>4. epoch = 3 + q
        BY Zenon, <1>6, <3>1, <3>2, <3>3
      <3> QED
        BY <1>7, <3>2, <3>4
    <2> QED
      BY <1>2, <1>3, <1>6, <2>1, <2>2, <2>3, <2>4, <2>5
  <1>8. lock < fee
    BY <1>7
  <1>9. ~(boost < fee) /\ boost < open
    BY <1>7
  <1>10. ~(claim < open) /\ claim < weekly
    BY <1>7
  <1>11. \A t \in open + 1..claim : (t - MondayOffset) % WeekLength # 0
    BY <1>5, <1>6, <1>10, NoMondayBetween
  <1> QED
    BY <1>1, <1>2, <1>3, <1>8, <1>9, <1>10, <1>11 DEF InPeriods

\* A record is of a transaction where these blocks hold it, and of how it ended there.
Tells(blocks, tx, r) ==
  /\ r.tx = tx /\ r.clock = ClockOf(blocks, tx)
  /\ r.blockNumber = ReceiptIn(blocks, tx).blockNumber
  /\ r.transactionIndex = ReceiptIn(blocks, tx).transactionIndex
  /\ tx.call \in LoggedCalls => r.out = UtilityAt(blocks).log[tx]

\* These records are the transactions' in these blocks.
Told(blocks, txs, records) ==
  /\ IsSeq(txs) /\ ToSet(txs) \subseteq Mined(blocks)
  /\ DOMAIN records = 1..Len(txs) /\ Len(records) = Len(txs)
  /\ \A i \in 1..Len(txs) : Tells(blocks, txs[i], records[i])

\* Each is the deployer's and a success, of its stage's call, and they follow each other.
Clean(records) ==
  /\ \A i \in DOMAIN records : records[i].tx.from = "deployer" /\ records[i].out.ok /\ records[i].tx.call = UtilityLabels[i]
  /\ AssertStrictReceiptOrder(records)

InOrder(blocks, txs) ==
  /\ ToSet(txs) \subseteq Mined(blocks)
  /\ \A i \in 2..Len(txs) : Before(ReceiptIn(blocks, txs[i - 1]), ReceiptIn(blocks, txs[i]))
  /\ \A i \in DOMAIN txs : txs[i].from = "deployer" /\ UtilityAt(blocks).log[txs[i]].ok

\* What a candidate for production says of its blocks.
Proved(blocks, txs) ==
  /\ InOrder(blocks, txs)
  /\ InPeriods(ClockOf(blocks, txs[1]), ClockOf(blocks, txs[LockLabel]), ClockOf(blocks, txs[BoostLabel]),
               ClockOf(blocks, txs[ClaimLabel]))
  /\ Shared(UtilityAt(blocks), Mined(blocks), MinedAtClock(blocks), ClockOf(blocks, txs[1]),
            UtilityAt(blocks).log[txs[ClaimLabel]].amount)

\* The labels of the eight transactions are calls the log tells of.
LEMMA LabelsAreLogged ==
  \A i \in 1..8 : UtilityLabels[i] \in LoggedCalls
  <1>1. \A i \in 1..8 : i \in {1, 2, 3, 4, 5, 6, 7, 8}
    OBVIOUS
  <1>2. /\ UtilityLabels[1] = "lockRewardsDeploy" /\ UtilityLabels[2] = "launchBoostDeploy"
        /\ UtilityLabels[3] = "setRewardSourceOnce" /\ UtilityLabels[4] = "approveLock"
        /\ UtilityLabels[5] = "lock" /\ UtilityLabels[6] = "approveBoost"
        /\ UtilityLabels[7] = "boost" /\ UtilityLabels[8] = "claim"
    BY DEF UtilityLabels
  <1> QED
    BY <1>1, <1>2 DEF LoggedCalls

\* Clocks are numbers.
LEMMA ClocksAreNumbers ==
  ASSUME NEW blocks, TraceOK(blocks), MinedOnce(blocks), NEW tx \in Mined(blocks)
  PROVE  ClockOf(blocks, tx) \in Nat /\ ClockOf(blocks, tx) = MinedAtClock(blocks)[tx]
  <1>1. IsSeq(blocks) /\ DOMAIN blocks = 1..Len(blocks)
    BY ListDomain DEF TraceOK
  <1>2. PICK n \in 1..Len(blocks) : tx \in ToSet(blocks[n].txs)
    BY <1>1 DEF Mined
  <1>3. HeightOf(blocks, tx) = n /\ MinedAtClock(blocks)[tx] = blocks[n].clock
    BY <1>2, ClocksAre
  <1>4. ClockOf(blocks, tx) = blocks[n].clock
    BY <1>3 DEF ClockOf, ReceiptIn
  <1>5. blocks[n].clock \in Nat
    BY DEF TraceOK, BlockOK
  <1> QED
    BY <1>3, <1>4, <1>5

\* The verifier's checks, at one block, prove what a candidate says of the blocks up to it.
LEMMA EvidenceProves ==
  ASSUME NEW blocks, TraceOK(blocks), MinedOnce(blocks), Len(blocks) # 0,
         NEW txs, NEW records, Told(blocks, txs, records), Clean(records),
         NEW u, u = UtilityAt(blocks), ScheduleHolds(u, records[1].clock),
         NEW token, NEW now, ValidateUtilityV2CanaryEvidence(records, u, token, now)
  PROVE  Proved(blocks, txs)
  <1>1. Len(txs) = 8 /\ Len(records) = 8 /\ DOMAIN records = 1..8 /\ IsSeq(txs)
    <2>1. Len(UtilityLabels) = 8
      BY DEF UtilityLabels
    <2> QED
      BY <2>1 DEF Told, ValidateUtilityV2CanaryEvidence
  <1>2. DOMAIN txs = 1..8 /\ ToSet(txs) = {txs[i] : i \in 1..8} /\ ToSet(txs) \subseteq Mined(blocks)
    BY <1>1, IsSeqFacts DEF Told
  <1>3. ASSUME NEW i \in 1..8
        PROVE  /\ records[i].tx = txs[i] /\ txs[i] \in Mined(blocks)
               /\ txs[i].from = "deployer" /\ records[i].out.ok
               /\ records[i].out = u.log[txs[i]] /\ records[i].clock = ClockOf(blocks, txs[i])
               /\ records[i].blockNumber = ReceiptIn(blocks, txs[i]).blockNumber
               /\ records[i].transactionIndex = ReceiptIn(blocks, txs[i]).transactionIndex
               /\ ClockOf(blocks, txs[i]) \in Nat
    <2>1. Tells(blocks, txs[i], records[i])
      BY <1>1 DEF Told
    <2>2. records[i].tx.from = "deployer" /\ records[i].out.ok /\ records[i].tx.call = UtilityLabels[i]
      BY <1>1 DEF Clean
    <2>3. txs[i].call \in LoggedCalls
      BY <2>1, <2>2, LabelsAreLogged DEF Tells
    <2>4. txs[i] \in Mined(blocks)
      BY <1>2
    <2>5. ClockOf(blocks, txs[i]) \in Nat
      BY <2>4, ClocksAreNumbers
    <2> QED
      BY <2>1, <2>2, <2>3, <2>4, <2>5 DEF Tells
  <1>4. InOrder(blocks, txs)
    <2>1. ASSUME NEW i \in 2..Len(txs) PROVE Before(ReceiptIn(blocks, txs[i - 1]), ReceiptIn(blocks, txs[i]))
      <3>1. i \in 1..8 /\ i - 1 \in 1..8 /\ i \in 2..Len(records)
        BY <1>1
      <3>2. Before(records[i - 1], records[i])
        BY <3>1 DEF Clean, AssertStrictReceiptOrder
      <3> QED
        BY <1>3, <3>1, <3>2 DEF Before
    <2>2. \A i \in DOMAIN txs : txs[i].from = "deployer" /\ UtilityAt(blocks).log[txs[i]].ok
      <3>1. ASSUME NEW i \in 1..8 PROVE txs[i].from = "deployer" /\ u.log[txs[i]].ok
        BY <1>3
      <3> QED
        BY <1>2, <3>1
    <2> QED
      BY <1>2, <2>1, <2>2 DEF InOrder
  <1>5. PICK s : s = u.schedule
    OBVIOUS
  <1>6. PICK start \in Nat : start = ClockOf(blocks, txs[1]) /\ start = records[1].clock
    BY <1>3
  <1>7. s.bootstrap = start /\ ValidateUtilityV2BootstrapSchedule(s)
    BY <1>5, <1>6 DEF ScheduleHolds
  <1>8. /\ UtilityV2EpochAt(s, records[5].clock) = 0
        /\ UtilityV2EpochAt(s, records[7].clock) = 1
        /\ UtilityV2EpochAt(s, records[8].clock) = 2
    <2>1. UtilityV2EpochAt(s, records[5].clock) = 0
      BY <1>5 DEF ValidateUtilityV2CanaryEvidence, LockStageHolds, LockLabel
    <2>2. UtilityV2EpochAt(s, records[7].clock) = 1
      BY <1>5 DEF ValidateUtilityV2CanaryEvidence, BoostStageHolds, BoostLabel
    <2>3. UtilityV2EpochAt(s, records[8].clock) = 2
      BY <1>5 DEF ValidateUtilityV2CanaryEvidence, ClaimStageHolds, ClaimLabel
    <2> QED
      BY <2>1, <2>2, <2>3
  <1>9. InPeriods(start, ClockOf(blocks, txs[LockLabel]), ClockOf(blocks, txs[BoostLabel]), ClockOf(blocks, txs[ClaimLabel]))
    <2>1. PICK lock \in Nat : lock = records[5].clock /\ lock = ClockOf(blocks, txs[LockLabel])
      BY <1>3 DEF LockLabel
    <2>2. PICK boost \in Nat : boost = records[7].clock /\ boost = ClockOf(blocks, txs[BoostLabel])
      BY <1>3 DEF BoostLabel
    <2>3. PICK claim \in Nat : claim = records[8].clock /\ claim = ClockOf(blocks, txs[ClaimLabel])
      BY <1>3 DEF ClaimLabel
    <2>4. InPeriods(start, lock, boost, claim)
      BY <1>7, <1>8, <2>1, <2>2, <2>3, PeriodsProved
    <2> QED
      BY Zenon, <2>1, <2>2, <2>3, <2>4
  <1>10. PICK D, c : D = Mined(blocks) /\ c = MinedAtClock(blocks)
    OBVIOUS
  <1>11. BooksOK(u) /\ Story(u, D, c)
    BY <1>10, ChainTold
  <1>12. PICK id \in 1..Len(u.positions) :
           /\ u.positions[id].weight = LockWeight /\ u.positions[id].activation = 1 /\ u.positions[id].last = 2
           /\ records[8].out.amount = UtilityV2ProRataReward(LockWeight, IndexAt(u, 1), IndexAt(u, 2))
    <2>1. PICK id : id = records[5].out.position
      OBVIOUS
    <2>2. /\ PositionsOf(u, "deployer") = {id}
          /\ u.positions[id].weight = LockWeight /\ u.positions[id].activation = 1 /\ u.positions[id].last = 2
          /\ records[8].out.amount = UtilityV2ProRataReward(u.positions[id].weight, IndexAt(u, 1), IndexAt(u, 2))
      BY <2>1 DEF ValidateUtilityV2CanaryEvidence, LockPostconditions, LockLabel, ClaimLabel
    <2>3. IsSeq(u.positions)
      BY <1>11 DEF BooksOK, PositionsOK
    <2>4. id \in 1..Len(u.positions)
      BY <2>2, <2>3, IsSeqFacts DEF PositionsOf
    <2> QED
      BY <2>2, <2>4
  <1>13. PICK claimed : claimed = records[8].out.amount /\ claimed = u.log[txs[ClaimLabel]].amount
    BY <1>3 DEF ClaimLabel
  <1>14. Shared(u, D, c, start, claimed)
    <2>1. s.fee = start + BootstrapLength /\ s.claim = start + BootstrapLength + BootstrapLength
      BY <1>7 DEF ValidateUtilityV2BootstrapSchedule
    <2>2. PICK weight : weight = WeightOf({tx \in Won(u, D, "lock") : c[tx] < start + BootstrapLength})
      OBVIOUS
    <2>3. PICK fees : fees = Fee * Cardinality({tx \in Won(u, D, "boost") : c[tx] < start + BootstrapLength + BootstrapLength})
      OBVIOUS
    <2>4. weight = WeightOf(EarlyLocks(u, D, c)) /\ fees = Fee * Cardinality(EarlyBoosts(u, D, c))
      BY Zenon, <1>5, <2>1, <2>2, <2>3 DEF EarlyLocks, EarlyBoosts
    <2>5. claimed = UtilityV2ProRataReward(LockWeight, IndexAt(u, 1), IndexAt(u, 2))
      BY <1>12, <1>13
    <2>6. claimed * weight <= LockWeight * fees /\ LockWeight * fees < (claimed + 2) * weight
      BY <1>11, <1>12, <2>4, <2>5, CanaryShare
    <2> QED
      BY <2>2, <2>3, <2>6 DEF Shared
  <1> QED
    BY Zenon, <1>4, <1>6, <1>9, <1>10, <1>13, <1>14 DEF Proved

\* The blocks up to one of the chain's are a chain of their own.
LEMMA CutStands ==
  ASSUME OrderInvariant, NEW n \in 1..Len(chain), NEW blocks, blocks = ChainThrough(n)
  PROVE  /\ IsSeq(blocks) /\ Len(blocks) = n /\ n \in Nat /\ n <= Len(chain) /\ DOMAIN blocks = 1..n
         /\ DOMAIN chain = 1..Len(chain) /\ Len(chain) \in Nat
         /\ \A m \in 1..n : chain[m] = blocks[m]
         /\ TraceOK(blocks) /\ MinedOnce(blocks)
         /\ TraceOK(chain) /\ MinedOnce(chain)
  <1>1. IsSeq(chain) /\ Len(chain) \in Nat /\ DOMAIN chain = 1..Len(chain)
    BY IsSeqFacts DEF OrderInvariant, ChainOK
  <1>2. n \in 0..Len(chain) /\ n \in Nat /\ n <= Len(chain) /\ blocks = SubSeq(chain, 1, n)
    BY <1>1 DEF ChainThrough
  <1>3. IsSeq(blocks) /\ Len(blocks) = n /\ \A m \in 1..n : blocks[m] = chain[m]
    BY <1>1, <1>2, PrefixIsSeq
  <1>4. DOMAIN blocks = 1..n
    BY <1>3, IsSeqFacts
  <1>5. TraceOK(chain) /\ TraceOK(blocks)
    BY <1>2, TracePrefix DEF OrderInvariant, LedgerInvariant
  <1>6. OrderOK(chain, sent)
    BY DEF OrderInvariant
  <1>7. OrderOK(blocks, sent)
    <2>1. Agree(chain, blocks, n)
      BY <1>3 DEF Agree
    <2> QED
      BY <1>1, <1>2, <1>3, <1>6, <2>1, OrderCut
  <1> QED
    BY <1>1, <1>2, <1>3, <1>4, <1>5, <1>6, <1>7 DEF OrderOK

\* A transaction of theirs has its receipt there.
LEMMA CutReceipts ==
  ASSUME OrderInvariant, NEW n \in 1..Len(chain), NEW blocks, blocks = ChainThrough(n), NEW tx \in Mined(blocks)
  PROVE  /\ ReceiptIn(chain, tx) = ReceiptIn(blocks, tx) /\ tx \in Mined(chain) /\ tx \in MinedBy(chain, n)
         /\ chain[HeightOf(chain, tx)].clock = ClockOf(blocks, tx)
         /\ ClockOf(blocks, tx) = MinedAtClock(blocks)[tx]
  <1>1. /\ IsSeq(blocks) /\ Len(blocks) = n /\ n \in Nat /\ n <= Len(chain) /\ DOMAIN blocks = 1..n
        /\ DOMAIN chain = 1..Len(chain) /\ Len(chain) \in Nat
        /\ \A m \in 1..n : chain[m] = blocks[m]
        /\ TraceOK(blocks) /\ MinedOnce(blocks)
    BY CutStands
  <1>2. PICK m \in 1..n : tx \in ToSet(blocks[m].txs)
    BY <1>1 DEF Mined
  <1>3. ReceiptIn(chain, tx) = ReceiptIn(blocks, tx)
    BY <1>1, <1>2, ReceiptFromBelow
  <1>4. tx \in Mined(chain) /\ tx \in MinedBy(chain, n)
    BY <1>1, <1>2 DEF Mined, MinedBy
  <1>5. chain[HeightOf(chain, tx)].clock = ClockOf(blocks, tx)
    BY <1>3 DEF ReceiptIn, ClockOf
  <1>6. ClockOf(blocks, tx) = MinedAtClock(blocks)[tx]
    BY <1>1, ClocksAreNumbers
  <1> QED
    BY <1>3, <1>4, <1>5, <1>6

\* The blocks up to this one are final, and prove what a candidate says of them.
Rests(h, txs) ==
  /\ Published(h) /\ IsSeq(txs) /\ Len(txs) = 8
  /\ \E blocks : blocks = ChainThrough(h.number) /\ Proved(blocks, txs)

CandidateStands ==
  ForProduction => \E h, txs : h = candidate.linkage /\ txs = candidate.receipts /\ Rests(h, txs)

\* What it says of them it says of the chain.
LEMMA StandingIsProved ==
  ASSUME OrderInvariant, CandidateStands
  PROVE  CandidateIsProved
  <1> SUFFICES ASSUME ForProduction PROVE CandidateIsProved
    BY DEF CandidateIsProved
  <1> DEFINE n == candidate.linkage.number
             txs == candidate.receipts
             blocks == ChainThrough(n)
             u == UtilityAt(blocks)
             D == Mined(blocks)
             c == MinedAtClock(blocks)
             clock(tx) == chain[HeightOf(chain, tx)].clock
             start == clock(txs[1])
             lock == clock(txs[LockLabel])
             boost == clock(txs[BoostLabel])
             claim == clock(txs[ClaimLabel])
             feesOpen == start + BootstrapLength
             claimsOpen == feesOpen + BootstrapLength
             succeeded(call) == {tx \in D : tx.call = call /\ u.log[tx].ok}
             weight == SumFunction([tx \in {l \in succeeded("lock") : clock(l) < feesOpen} |-> tx.args[1]])
             fees == Fee * Cardinality({tx \in succeeded("boost") : clock(tx) < claimsOpen})
             claimed == u.log[txs[ClaimLabel]].amount
  <1>4. /\ n \in 1..final /\ Header(n) = candidate.linkage
        /\ IsSeq(txs) /\ Len(txs) = 8 /\ Proved(blocks, txs)
    <2>1. PICK h, s : h = candidate.linkage /\ s = candidate.receipts /\ Rests(h, s)
      BY DEF CandidateStands
    <2> QED
      BY <2>1 DEF Rests, Published
  <1> HIDE DEF n, txs
  <1>3. blocks = ChainThrough(n)
    OBVIOUS
  <1> HIDE DEF blocks
  <1>6. u = UtilityAt(blocks) /\ D = Mined(blocks) /\ c = MinedAtClock(blocks)
    OBVIOUS
  <1> HIDE DEF u, D, c
  <1>5. n \in 1..Len(chain) /\ n <= final
    BY <1>4, IsSeqFacts DEF OrderInvariant, ChainOK
  <1>7. \A tx \in D : chain[HeightOf(chain, tx)].clock = ClockOf(blocks, tx) /\ ClockOf(blocks, tx) = c[tx]
    BY <1>3, <1>5, <1>6, CutReceipts
  <1>8. ToSet(txs) \subseteq D /\ DOMAIN txs = 1..8 /\ \A i \in 1..8 : txs[i] \in D
    <2>1. ToSet(txs) \subseteq D
      BY <1>4, <1>6 DEF Proved, InOrder
    <2>2. DOMAIN txs = 1..8 /\ ToSet(txs) = {txs[i] : i \in 1..8}
      BY <1>4, IsSeqFacts
    <2> QED
      BY <2>1, <2>2
  <1>9. /\ start = ClockOf(blocks, txs[1]) /\ lock = ClockOf(blocks, txs[LockLabel])
        /\ boost = ClockOf(blocks, txs[BoostLabel]) /\ claim = ClockOf(blocks, txs[ClaimLabel])
    BY <1>7, <1>8 DEF LockLabel, BoostLabel, ClaimLabel
  <1> HIDE DEF start, lock, boost, claim
  <1>10. InPeriods(start, lock, boost, claim) /\ Shared(u, D, c, start, claimed) /\ InOrder(blocks, txs)
    BY Zenon, <1>4, <1>6, <1>9 DEF Proved
  <1>11. claimed * weight <= LockWeight * fees /\ LockWeight * fees < (claimed + 2) * weight
    <2>1. \A tx \in D : clock(tx) = c[tx]
      BY <1>7
    <2>2. succeeded("lock") = Won(u, D, "lock") /\ succeeded("boost") = Won(u, D, "boost")
      BY DEF Won
    <2>3. PICK S : S = {tx \in Won(u, D, "lock") : c[tx] < feesOpen}
      OBVIOUS
    <2>4. {l \in succeeded("lock") : clock(l) < feesOpen} = S
      <3>1. \A tx \in succeeded("lock") : tx \in D
        OBVIOUS
      <3> HIDE DEF clock, succeeded
      <3> QED
        BY <2>1, <2>2, <2>3, <3>1
    <2>5. {tx \in succeeded("boost") : clock(tx) < claimsOpen} = {tx \in Won(u, D, "boost") : c[tx] < claimsOpen}
      <3>1. \A tx \in succeeded("boost") : tx \in D
        OBVIOUS
      <3> HIDE DEF clock, succeeded
      <3> QED
        BY <2>1, <2>2, <3>1
    <2>6. SumFunction([tx \in S |-> tx.args[1]]) = WeightOf(S)
      <3>1. PICK f : f = [tx \in S |-> tx.args[1]]
        OBVIOUS
      <3>2. DOMAIN f = S
        BY <3>1
      <3> QED
        BY Zenon, <3>1, <3>2 DEF SumFunction, WeightOf
    <2>7. PICK w : w = WeightOf(S)
      OBVIOUS
    <2>8. PICK p : p = Fee * Cardinality({tx \in Won(u, D, "boost") : c[tx] < claimsOpen})
      OBVIOUS
    <2>9. claimed * w <= LockWeight * p /\ LockWeight * p < (claimed + 2) * w
      BY Zenon, <1>10, <2>3, <2>7, <2>8 DEF Shared
    <2>10. weight = w /\ fees = p
      BY Zenon, <2>4, <2>5, <2>6, <2>7, <2>8
    <2> QED
      BY Zenon, <2>9, <2>10
  <1>12. \A i \in DOMAIN txs : txs[i].from = "deployer" /\ u.log[txs[i]].ok
    BY <1>6, <1>10 DEF InOrder
  <1> HIDE DEF clock, weight, fees, claimed, succeeded
  <1>13. /\ lock < feesOpen
         /\ boost \in feesOpen..claimsOpen - 1
         /\ claim >= claimsOpen
         /\ \A t \in claimsOpen + 1..claim : (t - MondayOffset) % WeekLength # 0
    BY <1>10 DEF InPeriods
  <1>14. /\ n <= final /\ Header(n) = candidate.linkage /\ ToSet(txs) \subseteq Mined(blocks)
         /\ \A i \in 2..Len(txs) : Before(ReceiptIn(blocks, txs[i - 1]), ReceiptIn(blocks, txs[i]))
    BY <1>4, <1>5, <1>10 DEF InOrder
  <1> QED
    BY Zenon, <1>11, <1>12, <1>13, <1>14
       DEF CandidateIsProved, n, txs, blocks, u, D, start, lock, boost, claim, clock, weight, fees, claimed, succeeded

\* Two sequences of the same elements are one.
LEMMA SeqsEqual ==
  ASSUME NEW s, IsSeq(s), NEW t, IsSeq(t), Len(s) = Len(t), \A i \in 1..Len(s) : s[i] = t[i]
  PROVE  s = t
  <1>1. ToSet(s) = {s[i] : i \in 1..Len(s)} /\ ToSet(t) = {t[i] : i \in 1..Len(t)}
    BY IsSeqFacts
  <1>2. PICK S : S = ToSet(s) /\ S = ToSet(t)
    BY <1>1
  <1>3. s \in Seq(S) /\ t \in Seq(S)
    BY <1>2 DEF IsSeq
  <1> QED
    BY <1>3, SeqEqual

\* Final blocks stay as they are.
LEMMA FinalBlocksStay ==
  ASSUME ChainOK, ChainOK', Extends, NEW n \in 1..final, NEW blocks, blocks = ChainThrough(n)
  PROVE  blocks = ChainThrough(n)'
  <1>1. PICK c : c = chain'
    OBVIOUS
  <1>2. IsSeq(c) /\ Len(c) \in Nat /\ final' <= Len(c) /\ final' \in Nat
    <2>1. (IsSeq(chain) /\ safe \in Nat /\ final \in Nat \ {0} /\ final <= safe /\ safe <= Len(chain))'
      BY DEF ChainOK
    <2>2. IsSeq(c)
      BY <1>1, <2>1 DEF IsSeq
    <2> QED
      BY <1>1, <2>1, <2>2, IsSeqFacts
  <1>3. IsSeq(chain) /\ Len(chain) \in Nat /\ final <= Len(chain) /\ final \in Nat
    BY IsSeqFacts DEF ChainOK
  <1>4. n \in 0..Len(chain) /\ n \in 0..Len(c) /\ \A i \in 1..n : c[i] = chain[i]
    BY <1>1, <1>2, <1>3 DEF Extends
  <1>5. blocks = SubSeq(chain, 1, n)
    BY DEF ChainThrough
  <1>6. PICK others : others = SubSeq(c, 1, n)
    OBVIOUS
  <1>7. IsSeq(others) /\ Len(others) = n /\ \A i \in 1..n : others[i] = c[i]
    BY <1>2, <1>4, <1>6, PrefixIsSeq
  <1>8. IsSeq(blocks) /\ Len(blocks) = n /\ \A i \in 1..n : blocks[i] = chain[i]
    BY <1>3, <1>4, <1>5, PrefixIsSeq
  <1>9. others = blocks
    BY <1>4, <1>7, <1>8, SeqsEqual
  <1> QED
    BY <1>1, <1>6, <1>9 DEF ChainThrough

\* And go on proving it.
LEMMA RestsStays ==
  ASSUME ChainOK, ChainOK', Extends, NEW h, NEW txs, Rests(h, txs), Published(h)'
  PROVE  Rests(h, txs)'
  <1>1. PICK blocks : blocks = ChainThrough(h.number) /\ Proved(blocks, txs)
    BY DEF Rests
  <1>2. PICK n : n = h.number
    OBVIOUS
  <1>3. n \in 1..final
    BY <1>2 DEF Rests, Published
  <1>4. blocks = ChainThrough(n)'
    BY <1>1, <1>2, <1>3, FinalBlocksStay
  <1>5. (blocks = ChainThrough(h.number) /\ Proved(blocks, txs))'
    BY Zenon, <1>1, <1>2, <1>4 DEF ChainThrough
  <1>6. IsSeq(txs) /\ Len(txs) = 8
    BY DEF Rests
  <1> QED
    BY <1>5, <1>6 DEF Rests

\* Blocks two chains share give a transaction the same receipt.
LEMMA SharedReceipts ==
  ASSUME NEW view, IsSeq(view), NEW blocks, IsSeq(blocks), NEW k \in Nat, k <= Len(view), k <= Len(blocks),
         Agree(view, blocks, k), NEW tx, \E m \in 1..k : tx \in ToSet(blocks[m].txs)
  PROVE  ReceiptIn(view, tx) = ReceiptIn(blocks, tx)
  <1>1. /\ DOMAIN view = 1..Len(view) /\ Len(view) \in Nat
        /\ DOMAIN blocks = 1..Len(blocks) /\ Len(blocks) \in Nat
    BY IsSeqFacts
  <1>2. \A m \in 1..k : view[m] = blocks[m]
    BY DEF Agree
  <1> QED
    BY <1>1, <1>2, ReceiptFromBelow

\* What the first blocks tell of a transaction of theirs, all the blocks tell.
LEMMA PrefixTells ==
  ASSUME NEW view, TraceOK(view), MinedOnce(view), NEW k \in 1..Len(view),
         NEW blocks, IsSeq(blocks), Len(blocks) = k, Agree(view, blocks, k), NEW tx \in Mined(blocks)
  PROVE  tx \in Mined(view) /\ \A r : Tells(blocks, tx, r) <=> Tells(view, tx, r)
  <1>1. IsSeq(view) /\ Len(view) \in Nat /\ DOMAIN view = 1..Len(view) /\ k \in 0..Len(view) /\ k \in Nat
    BY IsSeqFacts DEF TraceOK
  <1>2. \A i \in 1..k : blocks[i] = view[i]
    BY DEF Agree
  <1>3. DOMAIN blocks = 1..k
    BY IsSeqFacts
  <1>4. PICK m \in 1..k : tx \in ToSet(blocks[m].txs)
    BY <1>3 DEF Mined
  <1>5. m \in 1..Len(view) /\ tx \in ToSet(view[m].txs)
    BY <1>1, <1>2, <1>4
  <1>6. tx \in Mined(view) /\ tx \in MinedBy(view, k)
    BY <1>1, <1>2, <1>4, <1>5 DEF Mined, MinedBy
  <1>7. ReceiptIn(view, tx) = ReceiptIn(blocks, tx)
    BY <1>1, <1>2, <1>4, SharedReceipts
  <1>8. tx.call \in LoggedCalls => UtilityAt(view).log[tx] = UtilityAt(blocks).log[tx]
    <2>1. PICK p : p = SubSeq(view, 1, k)
      OBVIOUS
    <2>2. IsSeq(p) /\ Len(p) = k /\ \A i \in 1..k : p[i] = view[i]
      BY <1>1, <2>1, PrefixIsSeq
    <2>3. blocks = p
      BY <1>2, <2>2, SeqsEqual
    <2>4. tx.call \in LoggedCalls => UtilityAt(view).log[tx] = UtilityAt(SubSeq(view, 1, k)).log[tx]
      BY <1>6, LogStands
    <2> QED
      BY <2>1, <2>3, <2>4
  <1> QED
    BY <1>6, <1>7, <1>8 DEF Tells, ClockOf

\* The first blocks are a sequence that agrees with all of them.
LEMMA PrefixAgrees ==
  ASSUME NEW view, IsSeq(view), NEW k \in 1..Len(view), NEW blocks, blocks = SubSeq(view, 1, k)
  PROVE  IsSeq(blocks) /\ Len(blocks) = k /\ Agree(view, blocks, k)
  <1>1. k \in 0..Len(view)
    BY IsSeqFacts
  <1> QED
    BY <1>1, PrefixIsSeq DEF Agree

\* So records of the first blocks are records of all of them.
LEMMA ToldBelow ==
  ASSUME NEW view, TraceOK(view), MinedOnce(view), NEW k \in 1..Len(view),
         NEW blocks, IsSeq(blocks), Len(blocks) = k, Agree(view, blocks, k),
         NEW txs, NEW records, Told(blocks, txs, records)
  PROVE  Told(view, txs, records)
  <1>1. IsSeq(txs) /\ DOMAIN txs = 1..Len(txs) /\ ToSet(txs) = {txs[i] : i \in 1..Len(txs)} /\ ToSet(txs) \subseteq Mined(blocks)
    BY IsSeqFacts DEF Told
  <1>2. \A tx \in ToSet(txs) : tx \in Mined(view) /\ \A r : Tells(blocks, tx, r) <=> Tells(view, tx, r)
    BY <1>1, PrefixTells
  <1>3. \A i \in 1..Len(txs) : Tells(view, txs[i], records[i])
    BY <1>1, <1>2 DEF Told
  <1> QED
    BY <1>1, <1>2, <1>3 DEF Told

\* The records both scripts read are the transactions' at the head they hold them against.
LEMMA RecordsTell ==
  ASSUME NEW blocks, TraceOK(blocks), MinedOnce(blocks), NEW k \in 1..Len(blocks),
         NEW below, IsSeq(below), Len(below) = k, Agree(blocks, below, k),
         NEW txs, IsSeq(txs), ToSet(txs) \subseteq Mined(blocks),
         NEW records, records = UtilityReceipts(blocks, txs),
         \A i \in DOMAIN records : records[i].blockNumber <= k
  PROVE  Told(below, txs, records)
  <1>1. IsSeq(blocks) /\ Len(blocks) \in Nat /\ DOMAIN blocks = 1..Len(blocks) /\ k \in 0..Len(blocks) /\ k \in Nat
    BY IsSeqFacts DEF TraceOK
  <1>2. \A i \in 1..k : below[i] = blocks[i]
    BY DEF Agree
  <1>3. DOMAIN below = 1..k
    BY IsSeqFacts
  <1>4. PICK l \in Nat : l = Len(txs) /\ DOMAIN txs = 1..l /\ ToSet(txs) = {txs[i] : i \in 1..l}
    BY IsSeqFacts
  <1>5. records = [i \in 1..l |-> records[i]] /\ \A i \in 1..l : Tells(blocks, txs[i], records[i])
    BY <1>4 DEF UtilityReceipts, Tells, ClockOf, ReceiptIn
  <1>6. DOMAIN records = 1..l /\ Len(records) = l
    BY <1>5, ListIsSeq
  <1>7. ASSUME NEW i \in 1..l PROVE txs[i] \in Mined(below) /\ Tells(below, txs[i], records[i])
    <2>1. PICK tx : tx = txs[i] /\ tx \in Mined(blocks)
      BY <1>4
    <2>2. PICK n \in 1..Len(blocks) : tx \in ToSet(blocks[n].txs)
      BY <1>1, <2>1 DEF Mined
    <2>3. PICK h : h = HeightOf(blocks, tx)
      OBVIOUS
    <2>4. h \in 1..n /\ tx \in ToSet(blocks[h].txs)
      BY <1>1, <2>2, <2>3, HeightIsFirst
    <2>5. h <= k
      <3>1. records[i].blockNumber <= k
        BY <1>6
      <3>2. records[i].blockNumber = h
        BY <1>5, <2>1, <2>3 DEF Tells, ReceiptIn
      <3> QED
        BY <3>1, <3>2
    <2>6. h \in 1..k
      BY <1>1, <2>4, <2>5
    <2>7. tx \in Mined(below)
      BY <1>2, <1>3, <2>4, <2>6 DEF Mined
    <2>8. Tells(blocks, tx, records[i])
      BY <1>5, <2>1
    <2>9. Tells(below, tx, records[i])
      BY <2>7, <2>8, PrefixTells
    <2> QED
      BY <2>1, <2>7, <2>9
  <1> QED
    BY <1>4, <1>6, <1>7 DEF Told

\* The script's records are of its transactions, at the head it held them against.
Recorded(r) ==
  /\ "records" \in DOMAIN r /\ Clean(r.records)
  /\ \E blocks : blocks = ChainThrough(r.receiptHead.number) /\ Told(blocks, r.txs, r.records)

\* At the block its state is of, they are too.
Seen(r) ==
  /\ Pinned(r) /\ IsHeader(r.stateHead)
  /\ TraceOK(r.view) /\ MinedOnce(r.view) /\ Told(r.view, r.txs, r.records)

\* What the promoter of the candidate knows when it comes to a stage.
Knows(r, stage) ==
  /\ "txs" \in DOMAIN r /\ IsSeq(r.txs)
  /\ stage # "receiptHead" => Headed(r)
  /\ stage \notin {"receiptHead", "receipts"} => Recorded(r)
  /\ stage \notin {"receiptHead", "receipts", "stateHead"} => Seen(r)
  /\ stage \in {"recheck", "finality", "emit"} => Proved(r.view, r.txs) /\ Len(r.txs) = 8
  /\ stage = "emit" => Published(r.stateHead)

ProverOK(r) == r.script = "utilityCanary" /\ ~r.rehearsal => Knows(r, r.stage)

\* It knows it from these fields.
LEMMA FieldsTell ==
  ASSUME NEW q, NEW r, Same(q, r, {"txs"}), "txs" \in DOMAIN q
  PROVE  /\ "txs" \in DOMAIN r /\ r.txs = q.txs
         /\ Same(q, r, {"receiptHead"}) /\ Headed(q) => Headed(r) /\ r.receiptHead = q.receiptHead
         /\ Same(q, r, {"receiptHead", "records"}) /\ Headed(q) /\ Recorded(q) => Recorded(r) /\ r.records = q.records
         /\ Same(q, r, {"receiptHead", "records", "stateHead", "view"}) /\ Headed(q) /\ Recorded(q) /\ Seen(q) =>
              Seen(r) /\ r.view = q.view /\ r.stateHead = q.stateHead
  <1>1. "txs" \in DOMAIN r /\ r["txs"] = q["txs"]
    BY DEF Same
  <1>2. Same(q, r, {"receiptHead"}) /\ Headed(q) => Headed(r) /\ r.receiptHead = q.receiptHead
    BY HeadsKept
  <1>3. Same(q, r, {"receiptHead", "records"}) /\ Headed(q) /\ Recorded(q) => Recorded(r) /\ r.records = q.records
    <2> HAVE Same(q, r, {"receiptHead", "records"}) /\ Headed(q) /\ Recorded(q)
    <2>1. "records" \in DOMAIN r /\ r["records"] = q["records"] /\ r["receiptHead"] = q["receiptHead"]
      BY DEF Same, Headed, Recorded
    <2> QED
      BY <1>1, <2>1 DEF Recorded
  <1>4. Same(q, r, {"receiptHead", "records", "stateHead", "view"}) /\ Headed(q) /\ Recorded(q) /\ Seen(q) =>
          Seen(r) /\ r.view = q.view /\ r.stateHead = q.stateHead
    <2> HAVE Same(q, r, {"receiptHead", "records", "stateHead", "view"}) /\ Headed(q) /\ Recorded(q) /\ Seen(q)
    <2>1. /\ {"stateHead", "view"} \subseteq DOMAIN r
          /\ r["receiptHead"] = q["receiptHead"] /\ r["records"] = q["records"]
          /\ r["stateHead"] = q["stateHead"] /\ r["view"] = q["view"]
      BY DEF Same, Headed, Recorded, Seen, Pinned
    <2>2. Pinned(r)
      BY <2>1 DEF Seen, Pinned
    <2> QED
      BY <1>1, <2>1, <2>2 DEF Seen
  <1> QED
    BY <1>1, <1>2, <1>3, <1>4

ProverFields == {"txs", "receiptHead", "records", "stateHead", "view"}

\* So it knows it at a stage reached without reading.
LEMMA KnowsOn ==
  ASSUME NEW q, NEW r, Same(q, r, ProverFields), NEW stage, Knows(q, stage)
  PROVE  Knows(r, stage)
  <1>1. /\ Same(q, r, {"txs"}) /\ Same(q, r, {"receiptHead"}) /\ Same(q, r, {"receiptHead", "records"})
        /\ Same(q, r, {"receiptHead", "records", "stateHead", "view"})
    BY DEF Same, ProverFields
  <1>2. "txs" \in DOMAIN q /\ IsSeq(q.txs)
    BY DEF Knows
  <1>3. "txs" \in DOMAIN r /\ r.txs = q.txs
    BY <1>1, <1>2, FieldsTell
  <1>4. stage # "receiptHead" => Headed(q) /\ Headed(r)
    BY <1>1, <1>2, FieldsTell DEF Knows
  <1>5. stage \notin {"receiptHead", "receipts"} => Recorded(q) /\ Recorded(r)
    BY <1>1, <1>2, <1>4, FieldsTell DEF Knows
  <1>6. stage \notin {"receiptHead", "receipts", "stateHead"} => Seen(r) /\ r.view = q.view /\ r.stateHead = q.stateHead
    BY <1>1, <1>2, <1>4, <1>5, FieldsTell DEF Knows
  <1> QED
    BY <1>2, <1>3, <1>4, <1>5, <1>6 DEF Knows

\* And goes on knowing it whatever the chain does.
LEMMA ProverStays ==
  ASSUME ChainOK, SentOK, BlocksOK, ChainStep, ToSet(sent) \subseteq ToSet(sent'), NEW r, ProverOK(r)
  PROVE  ProverOK(r)'
  <1>1. ChainOK' /\ Extends /\ \A header : Published(header) => Published(header)'
    BY BlocksKept, ChainSteps DEF ChainStep
  <1>2. final \in Nat /\ final' \in Nat /\ final <= final'
    BY <1>1 DEF ChainOK, Extends
  <1>3. Headed(r) => Headed(r)'
    BY <1>2 DEF Headed
  <1>4. Headed(r) /\ Recorded(r) => Recorded(r)'
    <2> HAVE Headed(r) /\ Recorded(r)
    <2>1. PICK n : n = r.receiptHead.number
      OBVIOUS
    <2>2. PICK blocks : blocks = ChainThrough(n) /\ Told(blocks, r.txs, r.records)
      BY <2>1 DEF Recorded
    <2>3. blocks = ChainThrough(n)'
      BY <1>1, <2>1, <2>2, FinalBlocksStay DEF Headed
    <2>4. (blocks = ChainThrough(r.receiptHead.number))'
      BY <2>1, <2>3 DEF ChainThrough
    <2>5. "records" \in DOMAIN r /\ Clean(r.records)
      BY DEF Recorded
    <2> QED
      BY Zenon, <2>2, <2>4, <2>5 DEF Recorded
  <1>5. Seen(r) => Seen(r)'
    <2> HAVE Seen(r)
    <2>1. PICK view, h : view = r.view /\ h = r.stateHead
      BY Zenon
    <2>2. ViewOK(view, h)'
      BY <2>1, ViewKept DEF Seen, Pinned
    <2>3. ViewOK(r.view, r.stateHead)'
      BY <2>1, <2>2 DEF ViewOK
    <2>4. Pinned(r)'
      BY <2>3 DEF Seen, Pinned
    <2> QED
      BY Zenon, <2>4 DEF Seen
  <1>6. Published(r.stateHead) => Published(r.stateHead)'
    <2>1. PICK h : h = r.stateHead
      OBVIOUS
    <2> QED
      BY <1>1, <2>1 DEF Published, Header
  <1> QED
    BY <1>3, <1>4, <1>5, <1>6 DEF ProverOK, Knows

\* A record of blocks of the chain is one of any more of them.
LEMMA ToldHigher ==
  ASSUME OrderInvariant, NEW n \in 1..Len(chain), NEW k \in 1..n, NEW view, view = ChainThrough(n),
         NEW blocks, blocks = ChainThrough(k), NEW txs, NEW records, Told(blocks, txs, records)
  PROVE  TraceOK(view) /\ MinedOnce(view) /\ Told(view, txs, records)
  <1>1. /\ IsSeq(view) /\ Len(view) = n /\ TraceOK(view) /\ MinedOnce(view)
        /\ Len(chain) \in Nat /\ \A m \in 1..n : chain[m] = view[m]
    BY CutStands
  <1>2. k \in 1..Len(chain) /\ k \in 1..Len(view)
    BY <1>1
  <1>3. IsSeq(blocks) /\ Len(blocks) = k /\ \A m \in 1..k : chain[m] = blocks[m]
    BY <1>2, CutStands
  <1>4. Agree(view, blocks, k)
    BY <1>1, <1>3 DEF Agree
  <1> QED
    BY <1>1, <1>2, <1>3, <1>4, ToldBelow

\* What the receipts' stage finds.
LEMMA ReceiptsRecorded ==
  ASSUME OrderInvariant, NEW q, IsSeq(q.txs), Headed(q), Found(q.txs),
         NEW records, records = UtilityReceipts(chain, q.txs),
         NEW blocks, UtilityReceiptsHold(records, blocks, q.receiptHead), UtilityTargetsHold(records)
  PROVE  /\ Clean(records)
         /\ \E below : below = ChainThrough(q.receiptHead.number) /\ Told(below, q.txs, records)
  <1>1. Clean(records)
    BY DEF Clean, UtilityReceiptsHold, UtilityTargetsHold
  <1>2. PICK k : k = q.receiptHead.number /\ k \in 1..final
    BY DEF Headed
  <1>3. PICK txs : txs = q.txs /\ IsSeq(txs) /\ ToSet(txs) \subseteq Mined(chain)
    BY DEF Found
  <1>4. k \in 1..Len(chain)
    BY <1>2, IsSeqFacts DEF OrderInvariant, ChainOK
  <1>5. PICK below : below = ChainThrough(k)
    OBVIOUS
  <1>6. /\ IsSeq(below) /\ Len(below) = k /\ \A m \in 1..k : chain[m] = below[m]
        /\ TraceOK(chain) /\ MinedOnce(chain)
    BY <1>4, <1>5, CutStands
  <1>7. Agree(chain, below, k)
    BY <1>6 DEF Agree
  <1>8. \A i \in DOMAIN records : records[i].blockNumber <= k
    BY <1>2 DEF UtilityReceiptsHold, AssertReceiptsWithinEvidenceBlock
  <1>9. records = UtilityReceipts(chain, txs)
    BY <1>3
  <1>10. Told(below, txs, records)
    BY <1>3, <1>4, <1>6, <1>7, <1>8, <1>9, RecordsTell
  <1> QED
    BY Zenon, <1>1, <1>2, <1>3, <1>5, <1>10

\* The eight transactions, whatever the artifacts say.
LEMMA AllIsSeq ==
  ASSUME StagesOK
  PROVE  IsSeq(AllStages("txs"))
  <1>1. \A s \in Stages : IsSeq(stages[s].txs)
    BY DEF StagesOK, ArtifactOK
  <1>2. PICK a : a = stages["deploy"].txs
    OBVIOUS
  <1>3. PICK b : b = stages["lock"].txs
    OBVIOUS
  <1>4. PICK c : c = stages["boost"].txs
    OBVIOUS
  <1>5. PICK e : e = stages["claim"].txs
    OBVIOUS
  <1>6. IsSeq(a) /\ IsSeq(b) /\ IsSeq(c) /\ IsSeq(e)
    <2>1. IsSeq(stages["deploy"].txs) /\ IsSeq(stages["lock"].txs) /\ IsSeq(stages["boost"].txs) /\ IsSeq(stages["claim"].txs)
      BY <1>1 DEF Stages
    <2> QED
      BY Zenon, <1>2, <1>3, <1>4, <1>5, <2>1
  <1>7. PICK x : x = a \o b
    OBVIOUS
  <1>8. IsSeq(x)
    BY <1>6, <1>7, JoinIsSeq
  <1>9. PICK y : y = x \o c
    OBVIOUS
  <1>10. IsSeq(y)
    BY <1>6, <1>8, <1>9, JoinIsSeq
  <1>11. PICK z : z = y \o e
    OBVIOUS
  <1>12. IsSeq(z)
    BY <1>6, <1>10, <1>11, JoinIsSeq
  <1>13. AllStages("txs") = z
    BY Zenon, <1>2, <1>3, <1>4, <1>5, <1>7, <1>9, <1>11 DEF AllStages
  <1> QED
    BY <1>12, <1>13

\* A stage reached without reading.
LEMMA ProverMoves ==
  ASSUME RunOK(run), NEW to, NEW r, r = [run EXCEPT !.stage = to],
         run.script = "utilityCanary" /\ ~run.rehearsal => Knows(run, to), CanaryOK(run)
  PROVE  ProverOK(r)
  <1>1. r.stage = to /\ r.script = run.script /\ Same(run, r, ProverFields \cup {"rehearsal"})
    BY MovesSame DEF ProverFields
  <1>2. Same(run, r, ProverFields) /\ Same(run, r, {"rehearsal"})
    BY <1>1 DEF Same
  <1>3. run.script = "utilityCanary" => r["rehearsal"] = run["rehearsal"]
    BY <1>2 DEF Same, CanaryOK, CanaryFields
  <1> QED
    BY <1>1, <1>2, <1>3, KnowsOn DEF ProverOK

\* A stage reached with something read.
LEMMA ProverReaches ==
  ASSUME RunOK(run), CanaryOK(run), run.script = "utilityCanary", NEW to, NEW facts, NEW r, r = Reached(to, facts),
         DOMAIN facts \subseteq {"receiptHead", "records", "stateHead", "view"}
  PROVE  /\ r.stage = to /\ r.script = "utilityCanary" /\ r.rehearsal = run.rehearsal
         /\ Same(run, r, ProverFields \ DOMAIN facts)
         /\ \A x \in DOMAIN facts : x \in DOMAIN r /\ r[x] = facts[x]
  <1>1. PICK fields : fields = (ProverFields \cup {"rehearsal"}) \ DOMAIN facts
    OBVIOUS
  <1>2. "stage" \notin fields /\ DOMAIN facts \cap fields = {} /\ "script" \notin DOMAIN facts /\ "stage" \notin DOMAIN facts
    BY <1>1 DEF ProverFields
  <1>3. /\ r.stage = to /\ r.script = run.script /\ Same(run, r, fields)
        /\ \A x \in DOMAIN facts : x \in DOMAIN r /\ r[x] = facts[x]
    BY <1>2, ReachesSame
  <1>4. Same(run, r, ProverFields \ DOMAIN facts) /\ Same(run, r, {"rehearsal"})
    BY <1>1, <1>3 DEF Same
  <1>5. r["rehearsal"] = run["rehearsal"]
    BY <1>4 DEF Same, CanaryOK, CanaryFields
  <1> QED
    BY <1>3, <1>4, <1>5

\* The finalized head, which the receipts are held against.
LEMMA ReceiptHeadRuns ==
  ASSUME OrderInvariant, RunOK(run), CanaryOK(run), run.script = "utilityCanary", ~run.rehearsal, ProverOK(run),
         UtilityReceiptHead
  PROVE  ProverOK(run')
  <1>1. run.remote /\ run.stage = "receiptHead"
    BY DEF CanaryOK, UtilityReceiptHead
  <1>2. PICK h : h = Header(final)
    OBVIOUS
  <1>3. PICK facts : facts = [receiptHead |-> h]
    OBVIOUS
  <1>4. PICK r : r = Reached("receipts", facts)
    OBVIOUS
  <1>5. run' = r
    BY <1>1, <1>2, <1>3, <1>4 DEF UtilityReceiptHead
  <1>6. DOMAIN facts = {"receiptHead"} /\ facts["receiptHead"] = h
    BY <1>3
  <1>7. /\ r.stage = "receipts" /\ r.script = "utilityCanary" /\ r.rehearsal = run.rehearsal
        /\ Same(run, r, ProverFields \ DOMAIN facts)
        /\ \A x \in DOMAIN facts : x \in DOMAIN r /\ r[x] = facts[x]
    <2>1. DOMAIN facts \subseteq {"receiptHead", "records", "stateHead", "view"}
      BY <1>6
    <2> QED
      BY <1>4, <2>1, ProverReaches
  <1>8. "receiptHead" \in DOMAIN r /\ r["receiptHead"] = h
    BY <1>6, <1>7
  <1>9. h.number = final /\ final \in 1..final
    BY <1>2 DEF Header, OrderInvariant, ChainOK
  <1>10. Headed(r)
    BY <1>8, <1>9 DEF Headed
  <1>11. Same(run, r, {"txs"})
    BY <1>6, <1>7 DEF Same, ProverFields
  <1>12. "txs" \in DOMAIN run /\ IsSeq(run.txs)
    BY DEF ProverOK, Knows
  <1>13. "txs" \in DOMAIN r /\ r.txs = run.txs
    BY <1>11, <1>12, FieldsTell
  <1>14. Knows(r, "receipts")
    BY <1>10, <1>12, <1>13 DEF Knows
  <1> QED
    BY <1>5, <1>7, <1>14 DEF ProverOK

\* The receipts.
LEMMA ReceiptsRun ==
  ASSUME OrderInvariant, RunOK(run), CanaryOK(run), run.script = "utilityCanary", ~run.rehearsal, ProverOK(run),
         UtilityCanaryReceipts, run' # Idle
  PROVE  ProverOK(run')
  <1>1. run.remote /\ run.stage = "receipts"
    BY DEF CanaryOK, UtilityCanaryReceipts, In
  <1>2. PICK records :
          /\ records = (IF Found(run.txs) THEN UtilityReceipts(chain, run.txs) ELSE <<>>)
          /\ Proceed(/\ records # <<>>
                     /\ UtilityReceiptsHold(records, run.blocks, run.receiptHead)
                     /\ UtilityTargetsHold(records),
                     Reached("stateHead", [records |-> records]))
    BY DEF UtilityCanaryReceipts
  <1>3. /\ run' = Reached("stateHead", [records |-> records])
        /\ records # <<>> /\ UtilityReceiptsHold(records, run.blocks, run.receiptHead) /\ UtilityTargetsHold(records)
    BY <1>1, <1>2, Proceeds
  <1>4. Found(run.txs) /\ records = UtilityReceipts(chain, run.txs)
    BY <1>2, <1>3
  <1>5. IsSeq(run.txs) /\ Headed(run) /\ "txs" \in DOMAIN run
    BY <1>1 DEF ProverOK, Knows
  <1>6. /\ Clean(records)
        /\ \E below : below = ChainThrough(run.receiptHead.number) /\ Told(below, run.txs, records)
    <2>1. PICK q : q = run
      OBVIOUS
    <2>2. PICK blocks : blocks = run.blocks
      OBVIOUS
    <2>3. /\ IsSeq(q.txs) /\ Headed(q) /\ Found(q.txs) /\ records = UtilityReceipts(chain, q.txs)
          /\ UtilityReceiptsHold(records, blocks, q.receiptHead) /\ UtilityTargetsHold(records)
      BY <1>3, <1>4, <1>5, <2>1, <2>2
    <2>4. /\ Clean(records)
          /\ \E below : below = ChainThrough(q.receiptHead.number) /\ Told(below, q.txs, records)
      BY Zenon, <2>3, ReceiptsRecorded
    <2> QED
      BY <2>1, <2>4
  <1>7. PICK facts : facts = [records |-> records]
    OBVIOUS
  <1>8. PICK r : r = Reached("stateHead", facts)
    OBVIOUS
  <1>9. run' = r
    BY <1>3, <1>7, <1>8
  <1>10. DOMAIN facts = {"records"} /\ facts["records"] = records
    BY <1>7
  <1>11. /\ r.stage = "stateHead" /\ r.script = "utilityCanary" /\ r.rehearsal = run.rehearsal
         /\ Same(run, r, ProverFields \ DOMAIN facts)
         /\ \A x \in DOMAIN facts : x \in DOMAIN r /\ r[x] = facts[x]
    <2>1. DOMAIN facts \subseteq {"receiptHead", "records", "stateHead", "view"}
      BY <1>10
    <2> QED
      BY <1>8, <2>1, ProverReaches
  <1>12. "records" \in DOMAIN r /\ r["records"] = records
    BY <1>10, <1>11
  <1>13. Same(run, r, {"txs"}) /\ Same(run, r, {"receiptHead"})
    BY <1>10, <1>11 DEF Same, ProverFields
  <1>14. "txs" \in DOMAIN r /\ r.txs = run.txs /\ Headed(r) /\ r.receiptHead = run.receiptHead
    BY <1>5, <1>13, FieldsTell
  <1>15. Recorded(r)
    BY <1>6, <1>12, <1>14 DEF Recorded
  <1>16. Knows(r, "stateHead")
    BY <1>5, <1>14, <1>15 DEF Knows
  <1> QED
    BY <1>9, <1>11, <1>16 DEF ProverOK

\* The state's block.
LEMMA StateHeadRuns ==
  ASSUME OrderInvariant, RunOK(run), CanaryOK(run), run.script = "utilityCanary", ~run.rehearsal, ProverOK(run),
         UtilityStateHead, run' # Idle
  PROVE  ProverOK(run')
  <1>1. run.remote /\ run.stage = "stateHead"
    BY DEF CanaryOK, UtilityStateHead
  <1>2. PICK n : n = safe
    OBVIOUS
  <1>3. Proceed(AssertStateEvidenceAfterFinality(run.receiptHead, Header(n)),
                Reached("core", [stateHead |-> Header(n), view |-> ChainThrough(n)]))
    BY <1>1, <1>2 DEF UtilityStateHead
  <1>4. /\ run' = Reached("core", [stateHead |-> Header(n), view |-> ChainThrough(n)])
        /\ AssertStateEvidenceAfterFinality(run.receiptHead, Header(n))
    BY <1>1, <1>3, Proceeds
  <1>5. PICK h : h = Header(n)
    OBVIOUS
  <1>6. PICK view : view = ChainThrough(n)
    OBVIOUS
  <1>7. PICK facts : facts = [stateHead |-> h, view |-> view]
    OBVIOUS
  <1>8. PICK r : r = Reached("core", facts)
    OBVIOUS
  <1>9. run' = r
    BY <1>4, <1>5, <1>6, <1>7, <1>8
  <1>10. DOMAIN facts = {"stateHead", "view"} /\ facts["stateHead"] = h /\ facts["view"] = view
    BY <1>7
  <1>11. /\ r.stage = "core" /\ r.script = "utilityCanary" /\ r.rehearsal = run.rehearsal
         /\ Same(run, r, ProverFields \ DOMAIN facts)
         /\ \A x \in DOMAIN facts : x \in DOMAIN r /\ r[x] = facts[x]
    BY <1>8, <1>10, ProverReaches
  <1>12. "stateHead" \in DOMAIN r /\ "view" \in DOMAIN r /\ r["stateHead"] = h /\ r["view"] = view
    BY <1>10, <1>11
  <1>13. Same(run, r, {"txs"}) /\ Same(run, r, {"receiptHead"}) /\ Same(run, r, {"receiptHead", "records"})
    BY <1>10, <1>11 DEF Same, ProverFields
  <1>14. "txs" \in DOMAIN run /\ IsSeq(run.txs) /\ Headed(run) /\ Recorded(run)
    BY <1>1 DEF ProverOK, Knows
  <1>15. /\ "txs" \in DOMAIN r /\ r.txs = run.txs /\ Headed(r) /\ r.receiptHead = run.receiptHead
         /\ Recorded(r) /\ r.records = run.records
    BY <1>13, <1>14, FieldsTell
  <1>16. n \in 1..Len(chain) /\ n \in Nat
    BY <1>2, IsSeqFacts DEF OrderInvariant, ChainOK
  <1>17. h = [number |-> n, hash |-> chain[n].hash]
    BY <1>5 DEF Header
  <1>18. h.number = n /\ IsHeader(h)
    BY <1>16, <1>17 DEF IsHeader
  <1>19. ViewOK(view, h)
    BY <1>5, <1>6, <1>16, PinsView DEF OrderInvariant
  <1>20. PICK k : k = r.receiptHead.number
    OBVIOUS
  <1>21. k <= n /\ k \in 1..n
    <2>1. run.receiptHead.number <= h.number
      BY <1>4, <1>5, <1>18 DEF AssertStateEvidenceAfterFinality
    <2>2. k \in 1..final
      BY <1>15, <1>20 DEF Headed
    <2> QED
      BY <1>15, <1>16, <1>18, <1>20, <2>1, <2>2 DEF OrderInvariant, ChainOK
  <1>22. Pinned(r)
    BY <1>12, <1>18, <1>19, <1>20, <1>21 DEF Pinned
  <1>23. TraceOK(view) /\ MinedOnce(view) /\ Told(view, r.txs, r.records)
    <2>1. PICK blocks : blocks = ChainThrough(k) /\ Told(blocks, r.txs, r.records)
      BY <1>15, <1>20 DEF Recorded
    <2>2. PICK txs : txs = r.txs
      OBVIOUS
    <2>3. PICK records : records = r.records
      OBVIOUS
    <2>4. Told(blocks, txs, records)
      BY <2>1, <2>2, <2>3
    <2>5. TraceOK(view) /\ MinedOnce(view) /\ Told(view, txs, records)
      BY <1>6, <1>16, <1>21, <2>1, <2>4, ToldHigher
    <2> QED
      BY <2>2, <2>3, <2>5
  <1>24. Seen(r)
    BY <1>12, <1>18, <1>22, <1>23 DEF Seen
  <1>25. Knows(r, "core")
    BY <1>14, <1>15, <1>24 DEF Knows
  <1> QED
    BY <1>9, <1>11, <1>25 DEF ProverOK

\* The state and the eight transactions' evidence.
LEMMA StateRuns ==
  ASSUME OrderInvariant, RunOK(run), CanaryOK(run), run.script = "utilityCanary", ~run.rehearsal, ProverOK(run),
         UtilityCanaryState, run' # Idle
  PROVE  ProverOK(run')
  <1>1. run.remote /\ run.stage = "state"
    BY DEF CanaryOK, UtilityCanaryState, In
  <1>2. PICK u :
          /\ u = UtilityAt(run.view)
          /\ Proceed(/\ UtilityStateHolds(u)
                     /\ ValidateUtilityV2CanaryEvidence(run.records, u, CoreCanary(run.core, run.view), ViewClock),
                     [run EXCEPT !.stage = "recheck"])
    BY DEF UtilityCanaryState
  <1>3. /\ run' = [run EXCEPT !.stage = "recheck"]
        /\ UtilityStateHolds(u) /\ ValidateUtilityV2CanaryEvidence(run.records, u, CoreCanary(run.core, run.view), ViewClock)
    BY <1>1, <1>2, Proceeds
  <1>4. /\ "txs" \in DOMAIN run /\ IsSeq(run.txs) /\ Headed(run) /\ Recorded(run) /\ Seen(run)
    BY <1>1 DEF ProverOK, Knows
  <1>5. PICK view : view = run.view
    OBVIOUS
  <1>6. PICK txs : txs = run.txs
    OBVIOUS
  <1>7. PICK records : records = run.records
    OBVIOUS
  <1>8. PICK token, now : token = CoreCanary(run.core, run.view) /\ now = ViewClock
    BY Zenon
  <1>9. /\ TraceOK(view) /\ MinedOnce(view) /\ Told(view, txs, records) /\ Clean(records) /\ Len(view) # 0
    BY <1>4, <1>5, <1>6, <1>7 DEF Seen, Recorded, Pinned, ViewOK
  <1>10. u = UtilityAt(view) /\ ScheduleHolds(u, records[1].clock) /\ ValidateUtilityV2CanaryEvidence(records, u, token, now)
    BY Zenon, <1>2, <1>3, <1>5, <1>7, <1>8 DEF UtilityStateHolds
  <1>11. Proved(view, txs)
    BY <1>9, <1>10, EvidenceProves
  <1>12. Len(txs) = 8
    <2>1. Len(UtilityLabels) = 8
      BY DEF UtilityLabels
    <2> QED
      BY <1>9, <1>10, <2>1 DEF Told, ValidateUtilityV2CanaryEvidence
  <1>13. Knows(run, "recheck")
    BY <1>4, <1>5, <1>6, <1>11, <1>12 DEF Knows
  <1>14. PICK r : r = [run EXCEPT !.stage = "recheck"]
    OBVIOUS
  <1> QED
    BY <1>3, <1>13, <1>14, ProverMoves

\* The last look, once the state's block is final.
LEMMA FinalityRuns ==
  ASSUME OrderInvariant, RunOK(run), CanaryOK(run), run.script = "utilityCanary", ~run.rehearsal, ProverOK(run),
         UtilityConfirmFinality, run' # Idle
  PROVE  ProverOK(run')
  <1>1. run.remote /\ run.stage = "finality" /\ final >= run.stateHead.number
    BY DEF CanaryOK, UtilityConfirmFinality, In
  <1>2. /\ run' = [run EXCEPT !.stage = "emit"]
        /\ AssertStateEvidenceFinalized(Header(final), run.stateHead, Header(run.stateHead.number))
    BY <1>1, Proceeds DEF UtilityConfirmFinality
  <1>3. Knows(run, "finality")
    BY <1>1 DEF ProverOK
  <1>4. Published(run.stateHead)
    <2>1. PICK h : h = run.stateHead
      OBVIOUS
    <2>2. IsHeader(h)
      BY <1>3, <2>1 DEF Knows, Seen
    <2>3. PICK n : n = h.number /\ n \in Nat \ {0} /\ n <= final
      BY <1>1, <2>1, <2>2 DEF IsHeader, OrderInvariant, ChainOK
    <2>4. chain[n].hash = h.hash
      BY <1>2, <2>1, <2>3 DEF AssertStateEvidenceFinalized, Header
    <2>5. n \in 1..final
      BY <2>3 DEF OrderInvariant, ChainOK
    <2> QED
      BY <2>1, <2>2, <2>3, <2>4, <2>5 DEF Published, Header, IsHeader
  <1>5. Knows(run, "emit")
    BY <1>3, <1>4 DEF Knows
  <1>6. PICK r : r = [run EXCEPT !.stage = "emit"]
    OBVIOUS
  <1> QED
    BY <1>2, <1>5, <1>6, ProverMoves

\* A stage that does not read, where nothing more is known than before.
LEMMA StagesRun ==
  ASSUME RunOK(run), CanaryOK(run), run.script = "utilityCanary", ~run.rehearsal, ProverOK(run), run' # Idle
  PROVE  /\ UtilityCore => ProverOK(run')
         /\ UtilityCanaryRecheck => ProverOK(run')
  <1>1. ASSUME UtilityCore PROVE ProverOK(run')
    <2>1. PICK r : r = [run EXCEPT !.stage = "state"]
      OBVIOUS
    <2>2. run' = r /\ run.stage = "core"
      BY <1>1, <2>1, Proceeds DEF UtilityCore
    <2>3. Knows(run, "state")
      BY <2>2 DEF ProverOK, Knows
    <2> QED
      BY <2>1, <2>2, <2>3, ProverMoves
  <1>2. ASSUME UtilityCanaryRecheck PROVE ProverOK(run')
    <2>1. PICK r : r = [run EXCEPT !.stage = "finality"]
      OBVIOUS
    <2>2. run.remote
      BY DEF CanaryOK
    <2>3. run' = r /\ run.stage = "recheck"
      BY <1>2, <2>1, <2>2, Proceeds DEF UtilityCanaryRecheck, In
    <2>4. Knows(run, "finality")
      BY <2>3 DEF ProverOK, Knows
    <2> QED
      BY <2>1, <2>3, <2>4, ProverMoves
  <1> QED
    BY <1>1, <1>2

\* The start.
LEMMA ProverBegins ==
  ASSUME StagesOK, NEW rehearsal, NEW remote, StartCandidate(rehearsal, remote)
  PROVE  ProverOK(run')
  <1>1. PICK txs : txs = AllStages("txs")
    OBVIOUS
  <1>2. IsSeq(txs)
    BY <1>1, AllIsSeq
  <1>3. PICK r : r = run'
    OBVIOUS
  <1>4. r.stage = "receiptHead" /\ "txs" \in DOMAIN r /\ r.txs = txs
    BY <1>1, <1>3 DEF StartCandidate
  <1> QED
    BY <1>2, <1>3, <1>4 DEF ProverOK, Knows

\* A rehearsal stays one.
LEMMA RehearsalStays ==
  ASSUME RunOK(run), CanaryOK(run), run.script = "utilityCanary", run.rehearsal, UtilityScriptNext
  PROVE  ProverOK(run')
  <1>1. run' = Idle => ProverOK(run')
    BY DEF Idle, ProverOK
  <1>2. ASSUME NEW to, run' = [run EXCEPT !.stage = to] PROVE ProverOK(run')
    <2>1. PICK r : r = [run EXCEPT !.stage = to]
      OBVIOUS
    <2> QED
      BY <1>2, <2>1, ProverMoves
  <1>3. ASSUME NEW to, NEW facts, run' = Reached(to, facts),
               DOMAIN facts \subseteq {"receiptHead", "records", "stateHead", "view"}
        PROVE  ProverOK(run')
    <2>1. PICK r : r = Reached(to, facts)
      OBVIOUS
    <2>2. r.rehearsal = run.rehearsal
      BY <1>3, <2>1, ProverReaches
    <2> QED
      BY <1>3, <2>1, <2>2 DEF ProverOK
  <1>4. run # Idle
    BY DEF Idle
  <1>5. CASE UtilityReceiptHead
    <2>1. PICK h, to : run' = Reached(to, [receiptHead |-> h])
      BY <1>5, Zenon DEF UtilityReceiptHead
    <2>2. PICK facts : facts = [receiptHead |-> h]
      OBVIOUS
    <2>3. DOMAIN facts \subseteq {"receiptHead", "records", "stateHead", "view"}
      BY <2>2
    <2> QED
      BY <1>3, <2>1, <2>2, <2>3
  <1>6. CASE UtilityStateHead
    <2>1. PICK h, view : run' = Idle \/ run' = Reached("core", [stateHead |-> h, view |-> view])
      BY <1>6, Zenon DEF UtilityStateHead, Proceed
    <2>2. PICK facts : facts = [stateHead |-> h, view |-> view]
      OBVIOUS
    <2>3. DOMAIN facts \subseteq {"receiptHead", "records", "stateHead", "view"}
      BY <2>2
    <2> QED
      BY <1>1, <1>3, <2>1, <2>2, <2>3
  <1>7. CASE UtilityCanaryReceipts
    <2>1. PICK records : run' = Idle \/ run' = Reached("stateHead", [records |-> records])
      BY <1>7, Proceeds DEF UtilityCanaryReceipts
    <2>2. PICK facts : facts = [records |-> records]
      OBVIOUS
    <2>3. DOMAIN facts \subseteq {"receiptHead", "records", "stateHead", "view"}
      BY <2>2
    <2> QED
      BY <1>1, <1>3, <2>1, <2>2, <2>3
  <1>8. CASE UtilityCore \/ UtilityCanaryState \/ UtilityCanaryRecheck \/ UtilityConfirmFinality
    <2>1. PICK to : run' = Idle \/ run' = [run EXCEPT !.stage = to]
      <3>1. CASE UtilityCore
        BY <3>1, Proceeds DEF UtilityCore
      <3>2. CASE UtilityCanaryState
        BY <3>2, Proceeds DEF UtilityCanaryState
      <3>3. CASE UtilityCanaryRecheck
        BY <3>3, Proceeds DEF UtilityCanaryRecheck
      <3>4. CASE UtilityConfirmFinality
        BY <3>4, Proceeds DEF UtilityConfirmFinality
      <3> QED
        BY <1>8, <3>1, <3>2, <3>3, <3>4
    <2> QED
      BY <1>1, <1>2, <2>1
  <1>9. CASE UtilityFinalityTimeout \/ EmitCandidate
    BY <1>1, <1>9 DEF UtilityFinalityTimeout, EmitCandidate
  <1>10. CASE \/ \E rehearsal, remote \in BOOLEAN : StartUtilityPreflight(rehearsal, remote) \/ StartCandidate(rehearsal, remote)
              \/ UtilityPreflightReceipts \/ UtilityPreflightState \/ UtilityPreflightRecheck \/ UtilityPreflightEnds
    BY <1>4, <1>10 DEF StartUtilityPreflight, StartCandidate, UtilityPreflightReceipts, UtilityPreflightState,
       UtilityPreflightRecheck, UtilityPreflightEnds, In
  <1> QED
    BY <1>5, <1>6, <1>7, <1>8, <1>9, <1>10 DEF UtilityScriptNext

\* The other script, and no script, know nothing of a candidate.
LEMMA OthersRun ==
  ASSUME StagesOK, RunOK(run), run.script # "utilityCanary", UtilityScriptNext
  PROVE  ProverOK(run')
  <1>1. run' = Idle => ProverOK(run')
    BY DEF Idle, ProverOK
  <1>2. ASSUME NEW to, run' = [run EXCEPT !.stage = to] PROVE ProverOK(run')
    <2>1. PICK r : r = [run EXCEPT !.stage = to]
      OBVIOUS
    <2>2. r.script = run.script
      <3>1. "stage" \notin {}
        OBVIOUS
      <3> QED
        BY <2>1, <3>1, MovesSame
    <2> QED
      BY <1>2, <2>1, <2>2 DEF ProverOK
  <1>3. ASSUME NEW to, NEW facts, run' = Reached(to, facts), "script" \notin DOMAIN facts PROVE ProverOK(run')
    <2>1. PICK r : r = Reached(to, facts)
      OBVIOUS
    <2>2. r.script = run.script
      BY <1>3, <2>1, ScriptStays
    <2> QED
      BY <1>3, <2>1, <2>2 DEF ProverOK
  <1>5. CASE UtilityReceiptHead
    <2>1. PICK h, to : run' = Reached(to, [receiptHead |-> h])
      BY <1>5, Zenon DEF UtilityReceiptHead
    <2>2. PICK facts : facts = [receiptHead |-> h]
      OBVIOUS
    <2>3. "script" \notin DOMAIN facts
      BY <2>2
    <2> QED
      BY <1>3, <2>1, <2>2, <2>3
  <1>6. CASE UtilityStateHead
    <2>1. PICK h, view : run' = Idle \/ run' = Reached("core", [stateHead |-> h, view |-> view])
      BY <1>6, Zenon DEF UtilityStateHead, Proceed
    <2>2. PICK facts : facts = [stateHead |-> h, view |-> view]
      OBVIOUS
    <2>3. "script" \notin DOMAIN facts
      BY <2>2
    <2> QED
      BY <1>1, <1>3, <2>1, <2>2, <2>3
  <1>7. CASE UtilityPreflightReceipts
    <2>1. PICK records : run' = Idle \/ run' = Reached("state", [records |-> records])
      BY <1>7, Proceeds DEF UtilityPreflightReceipts
    <2>2. PICK facts : facts = [records |-> records]
      OBVIOUS
    <2>3. "script" \notin DOMAIN facts
      BY <2>2
    <2> QED
      BY <1>1, <1>3, <2>1, <2>2, <2>3
  <1>8. CASE UtilityCore \/ UtilityPreflightState
    <2>1. PICK to : run' = Idle \/ run' = [run EXCEPT !.stage = to]
      BY <1>8, Proceeds DEF UtilityCore, UtilityPreflightState
    <2> QED
      BY <1>1, <1>2, <2>1
  <1>9. CASE UtilityPreflightRecheck
    <2>1. PICK stage : run' = Idle \/ run' = [script |-> "utilityPreflight", stage |-> stage]
      BY <1>9, Proceeds DEF UtilityPreflightRecheck
    <2>2. PICK r : r = [script |-> "utilityPreflight", stage |-> stage]
      OBVIOUS
    <2>3. ProverOK(r)
      BY <2>2 DEF ProverOK
    <2> QED
      BY <1>1, <2>1, <2>2, <2>3
  <1>10. CASE UtilityPreflightEnds
    BY <1>1, <1>10 DEF UtilityPreflightEnds
  <1>11. ASSUME NEW rehearsal \in BOOLEAN, NEW remote \in BOOLEAN, StartUtilityPreflight(rehearsal, remote)
         PROVE  ProverOK(run')
    <2>1. PICK r : r = run'
      OBVIOUS
    <2>2. r.script = "utilityPreflight"
      BY <1>11, <2>1 DEF StartUtilityPreflight
    <2> QED
      BY <2>1, <2>2 DEF ProverOK
  <1>12. ASSUME NEW rehearsal \in BOOLEAN, NEW remote \in BOOLEAN, StartCandidate(rehearsal, remote)
         PROVE  ProverOK(run')
    BY <1>12, ProverBegins
  <1>13. CASE UtilityCanaryReceipts \/ UtilityCanaryState \/ UtilityCanaryRecheck \/ UtilityConfirmFinality
              \/ UtilityFinalityTimeout \/ EmitCandidate
    BY <1>13 DEF UtilityCanaryReceipts, UtilityCanaryState, UtilityCanaryRecheck, UtilityConfirmFinality,
       UtilityFinalityTimeout, EmitCandidate, In
  <1> QED
    BY <1>5, <1>6, <1>7, <1>8, <1>9, <1>10, <1>11, <1>12, <1>13 DEF UtilityScriptNext

\* Every step of the scripts.
LEMMA ProverRuns ==
  ASSUME OrderInvariant, AttributionInvariant, ProverOK(run), UtilityScriptNext
  PROVE  ProverOK(run')
  <1>1. RunOK(run) /\ CanaryOK(run) /\ StagesOK
    BY DEF AttributionInvariant
  <1>2. CASE run.script # "utilityCanary"
    BY <1>1, <1>2, OthersRun
  <1>3. CASE run.script = "utilityCanary" /\ run.rehearsal
    BY <1>1, <1>3, RehearsalStays
  <1>4. CASE run' = Idle
    BY <1>4 DEF Idle, ProverOK
  <1>5. CASE run.script = "utilityCanary" /\ ~run.rehearsal /\ run' # Idle
    <2>1. UtilityReceiptHead => ProverOK(run')
      BY <1>1, <1>5, ReceiptHeadRuns
    <2>2. UtilityCanaryReceipts => ProverOK(run')
      BY <1>1, <1>5, ReceiptsRun
    <2>3. UtilityStateHead => ProverOK(run')
      BY <1>1, <1>5, StateHeadRuns
    <2>4. UtilityCanaryState => ProverOK(run')
      BY <1>1, <1>5, StateRuns
    <2>5. UtilityConfirmFinality => ProverOK(run')
      BY <1>1, <1>5, FinalityRuns
    <2>6. UtilityCore \/ UtilityCanaryRecheck => ProverOK(run')
      BY <1>1, <1>5, StagesRun
    <2>7. ~UtilityFinalityTimeout /\ ~EmitCandidate
      BY <1>5 DEF UtilityFinalityTimeout, EmitCandidate
    <2>8. ~(\E rehearsal, remote \in BOOLEAN : StartUtilityPreflight(rehearsal, remote) \/ StartCandidate(rehearsal, remote))
      BY <1>5 DEF StartUtilityPreflight, StartCandidate, Idle
    <2>9. ~UtilityPreflightReceipts /\ ~UtilityPreflightState /\ ~UtilityPreflightRecheck /\ ~UtilityPreflightEnds
      BY <1>5 DEF UtilityPreflightReceipts, UtilityPreflightState, UtilityPreflightRecheck, UtilityPreflightEnds, In
    <2> QED
      BY <2>1, <2>2, <2>3, <2>4, <2>5, <2>6, <2>7, <2>8, <2>9 DEF UtilityScriptNext
  <1> QED
    BY <1>2, <1>3, <1>4, <1>5

\* The chain's order and books, what the script knows, and what the candidate says.
ProofInvariant ==
  /\ OrderInvariant /\ AttributionInvariant
  /\ \E r : r = run /\ ProverOK(r)
  /\ CandidateStands

\* A candidate is made of blocks that are final.
LEMMA EmissionRests ==
  ASSUME OrderInvariant, NEW q, Knows(q, "emit")
  PROVE  Rests(q.stateHead, q.txs)
  <1>1. PICK h : h = q.stateHead
    OBVIOUS
  <1>2. PICK view : view = q.view
    OBVIOUS
  <1>3. PICK txs : txs = q.txs
    OBVIOUS
  <1>4. Published(h) /\ IsSeq(txs) /\ Len(txs) = 8 /\ Proved(view, txs) /\ ViewOK(view, h)
    BY <1>1, <1>2, <1>3 DEF Knows, Seen, Pinned
  <1>5. PICK n : n = h.number /\ n \in 1..final
    BY <1>4 DEF Published
  <1>6. n \in 1..Len(chain) /\ n <= Len(chain)
    BY <1>5, IsSeqFacts DEF OrderInvariant, ChainOK
  <1>7. PICK blocks : blocks = ChainThrough(n)
    OBVIOUS
  <1>8. IsSeq(blocks) /\ Len(blocks) = n /\ \A m \in 1..n : chain[m] = blocks[m]
    BY <1>6, <1>7, CutStands
  <1>9. IsSeq(view) /\ Len(view) = n
    BY <1>4, <1>5 DEF ViewOK
  <1>10. chain[n].hash = h.hash
    BY <1>4, <1>5 DEF Published, Header
  <1>11. \A m \in 1..n : chain[m] = view[m]
    <2>1. n \in 1..h.number /\ view[n].hash = h.hash
      BY <1>4, <1>5 DEF ViewOK
    <2> QED
      BY <1>4, <1>6, <1>10, <2>1 DEF ViewOK
  <1>12. view = blocks
    BY <1>8, <1>9, <1>11, SeqsEqual
  <1>13. \E b : b = ChainThrough(h.number) /\ Proved(b, txs)
    BY Zenon, <1>4, <1>5, <1>7, <1>12
  <1> QED
    BY Zenon, <1>1, <1>3, <1>4, <1>13 DEF Rests

\* Every step keeps the invariant.
LEMMA ProofSteps ==
  ASSUME ProofInvariant, [UtilityNext]_<<vars, utilityVars>>
  PROVE  ProofInvariant'
  <1>1. OrderInvariant' /\ AttributionInvariant'
    BY OrderSteps, AttributionSteps DEF ProofInvariant
  <1>2. ChainOK /\ SentOK /\ BlocksOK /\ ChainStep /\ ToSet(sent) \subseteq ToSet(sent')
    BY UtilityChainSteps DEF ProofInvariant, OrderInvariant
  <1>3. ChainOK' /\ Extends /\ \A header : Published(header) => Published(header)'
    BY <1>2, BlocksKept, ChainSteps DEF ChainStep
  <1>4. ProverOK(run)
    BY DEF ProofInvariant
  <1>5. ProverOK(run')
    <2>1. CASE UtilityScriptNext
      BY <1>4, <2>1, ProverRuns DEF ProofInvariant
    <2>2. CASE UtilityNext /\ ~UtilityScriptNext
      <3>1. CASE run' = run
        BY <1>4, <3>1
      <3>2. CASE run' = Idle
        BY <3>2 DEF Idle, ProverOK
      <3> QED
        BY <2>2, <3>1, <3>2, UtilityRunKept
    <2>3. CASE UNCHANGED <<vars, utilityVars>>
      BY <1>4, <2>3 DEF vars, workVars
    <2> QED
      BY <2>1, <2>2, <2>3
  <1>6. \E r : r = run' /\ ProverOK(r)'
    <2>1. PICK r : r = run'
      OBVIOUS
    <2>2. ProverOK(r)
      BY <1>5, <2>1
    <2>3. ProverOK(r)'
      BY <1>2, <2>2, ProverStays
    <2> QED
      BY <2>1, <2>3
  <1>7. \A h, txs : Rests(h, txs) => Rests(h, txs)'
    <2>1. ASSUME NEW h, NEW txs, Rests(h, txs) PROVE Rests(h, txs)'
      <3>1. Published(h)'
        BY <1>3, <2>1 DEF Rests
      <3> QED
        BY <1>2, <1>3, <2>1, <3>1, RestsStays
    <2> QED
      BY <2>1
  <1>8. CandidateStands'
    <2>1. CASE UNCHANGED candidate
      <3> SUFFICES ASSUME ForProduction'
                   PROVE  (\E h, txs : h = candidate.linkage /\ txs = candidate.receipts /\ Rests(h, txs))'
        BY DEF CandidateStands
      <3>1. ForProduction
        BY <2>1 DEF ForProduction
      <3>2. PICK h, txs : h = candidate.linkage /\ txs = candidate.receipts /\ Rests(h, txs)
        BY <3>1 DEF ProofInvariant, CandidateStands
      <3>3. Rests(h, txs)' /\ h = candidate'.linkage /\ txs = candidate'.receipts
        BY <1>7, <2>1, <3>2
      <3> QED
        BY <3>3
    <2>2. CASE EmitCandidate /\ CandidateWellFormed
      <3> SUFFICES ASSUME ForProduction'
                   PROVE  (\E h, txs : h = candidate.linkage /\ txs = candidate.receipts /\ Rests(h, txs))'
        BY DEF CandidateStands
      <3>1. run.script = "utilityCanary" /\ run.stage = "emit"
        BY <2>2 DEF EmitCandidate, In
      <3>2. candidate' = [productionAllowed |-> ~run.rehearsal, sourceCommit |-> run.commit, core |-> run.core.release,
                          receipts |-> run.txs, linkage |-> run.stateHead, terms |-> run.terms]
        BY <2>2 DEF EmitCandidate, BuildUtilityV2ReleaseCandidate
      <3>3. /\ candidate'.productionAllowed = ~run.rehearsal /\ candidate'.receipts = run.txs
            /\ candidate'.linkage = run.stateHead
        BY <3>2
      <3>4. ~run.rehearsal
        BY <3>3 DEF ForProduction
      <3>5. PICK h, txs : h = run.stateHead /\ txs = run.txs
        BY Zenon
      <3>6. Knows(run, "emit")
        BY <1>4, <3>1, <3>4 DEF ProverOK
      <3>7. Rests(h, txs)
        BY <3>5, <3>6, EmissionRests DEF ProofInvariant
      <3>8. Rests(h, txs)' /\ h = candidate'.linkage /\ txs = candidate'.receipts
        BY <1>7, <3>3, <3>5, <3>7
      <3> QED
        BY <3>8
    <2> QED
      BY <2>1, <2>2, CandidateKept
  <1> QED
    BY <1>1, <1>6, <1>8 DEF ProofInvariant

\* It holds when the core is published and no utility is deployed.
LEMMA ProofStarts == UtilityInit => ProofInvariant
  <1> SUFFICES ASSUME UtilityInit PROVE ProofInvariant
    OBVIOUS
  <1>1. OrderInvariant /\ AttributionInvariant
    BY OrderStarts, AttributionStarts
  <1>2. run = Idle /\ candidate = NoCandidate
    BY DEF UtilityInit
  <1>3. ProverOK(run)
    BY <1>2 DEF Idle, ProverOK
  <1>4. CandidateStands
    BY <1>2 DEF CandidateStands, ForProduction
  <1> QED
    BY <1>1, <1>3, <1>4 DEF ProofInvariant

(* A candidate for production rests on final receipts in their order, each the   *)
(* deployer's and a success, the lock, the boost and the claim each within its   *)
(* period and the claim paid its share of the second period's fees: what the     *)
(* script read of the chain it read below a block that is final when the         *)
(* candidate is printed, and what the contracts told of those transactions does  *)
(* not depend on what other accounts did in between or later.                    *)
THEOREM CandidateProved == UtilitySpec => []CandidateIsProved
  <1>1. ProofInvariant => CandidateIsProved
    BY StandingIsProved DEF ProofInvariant
  <1> QED
    BY <1>1, ProofStarts, ProofSteps, PTL DEF UtilitySpec

=============================================================================
