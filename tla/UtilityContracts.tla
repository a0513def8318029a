----------------------------- MODULE UtilityContracts -----------------------------
(* HookrLockRewardsV2 and HookrLaunchBoostV2 as the release scripts read them: *)
(* their state at a block is what the transactions its hash commits to did.    *)
(* Locks become eligible an epoch later; a boost's fee belongs to the epoch it *)
(* was paid in and is shared out by weight when that epoch is checkpointed.    *)
EXTENDS ReleaseContracts

CONSTANTS BootstrapLength, \* the length of epochs 0 and 1
          WeekLength,      \* the length of the later epochs
          MondayOffset,    \* where the first week starts
          LockLength,      \* how long a lock and a boost last
          BoostGross,      \* what a boost pays, its fee included
          Fee,             \* the fee of a boost that is not waived
          Q128,            \* the scale of the reward index
          MaxActiveBoosts  \* the capacity of the boost registry

ASSUME UtilityAssumption ==
  /\ {BootstrapLength, WeekLength, LockLength, Fee, Q128, MaxActiveBoosts} \subseteq Nat \ {0}
  /\ MondayOffset \in Nat /\ BoostGross \in Nat /\ BoostGross > Fee

HookrToken == -5

UtilityLabels ==
  <<"lockRewardsDeploy", "launchBoostDeploy", "setRewardSourceOnce",
    "approveLock", "lock", "approveBoost", "boost", "claim">>

LockLabel == 5
BoostLabel == 7
ClaimLabel == 8

\* The constructor's boundaries, from the clock of the rewards contract's own block.
ScheduleFrom(start) ==
  LET fee == start + BootstrapLength
      claim == fee + BootstrapLength
  IN [bootstrap |-> start, fee |-> fee, claim |-> claim,
      weekly |-> MondayOffset + ((claim - MondayOffset) \div WeekLength + 1) * WeekLength]

EpochAt(schedule, time) ==
  CASE time < schedule.fee -> 0
    [] time >= schedule.fee /\ time < schedule.claim -> 1
    [] time >= schedule.claim /\ time < schedule.weekly -> 2
    [] OTHER -> 3 + (time - schedule.weekly) \div WeekLength

\* Both contracts before they are deployed; log tells how each transaction ended.
NoUtility ==
  [rewards |-> 0, boost |-> 0, core |-> 0, linked |-> 0, source |-> 0, configurator |-> FALSE,
   schedule |-> ScheduleFrom(0), checkpoint |-> 0, index |-> [e \in {0} |-> 0],
   pot |-> 0, reserve |-> 0, carry |-> 0, notified |-> 0, claimed |-> 0, held |-> 0,
   positions |-> <<>>, boosts |-> <<>>, approved |-> {}, log |-> [tx \in {} |-> 0]]

Outcome(ok, position, epoch, amount) == [ok |-> ok, position |-> position, epoch |-> epoch, amount |-> amount]

Eligible(u, epoch) ==
  {i \in DOMAIN u.positions : u.positions[i].activation <= epoch /\ epoch < u.positions[i].expiry}

EligibleWeight(u, epoch) == SumFunctionOnSet([i \in DOMAIN u.positions |-> u.positions[i].weight], Eligible(u, epoch))

\* The epochs up to the current one are settled: only the first of them can hold fees.
Checkpointed(u, epoch) ==
  LET weight == EligibleWeight(u, u.checkpoint)
      delta == IF weight = 0 THEN 0 ELSE (u.pot * Q128) \div weight
  IN IF epoch <= u.checkpoint THEN u
     ELSE [u EXCEPT !.checkpoint = epoch,
                    !.index = [e \in 0..epoch |-> IF e <= u.checkpoint THEN u.index[e] ELSE u.index[u.checkpoint] + delta],
                    !.carry = u.carry + (u.pot - (delta * weight) \div Q128),
                    !.pot = 0]

EndEpoch(u, position) == IF u.checkpoint < position.expiry THEN u.checkpoint ELSE position.expiry

RewardOf(u, position) ==
  IF EndEpoch(u, position) <= position.last THEN 0
  ELSE (position.weight * (u.index[EndEpoch(u, position)] - u.index[position.last])) \div Q128

BoostedTokens(u) == {u.boosts[i].token : i \in DOMAIN u.boosts}

PositionsOf(u, owner) == {i \in DOMAIN u.positions : u.positions[i].owner = owner}

Logged(u, tx, outcome) == [t \in DOMAIN u.log \cup {tx} |-> IF t = tx THEN outcome ELSE u.log[t]]

Spent(u, tx, spender) == IF tx.from = "deployer" THEN u.approved \ {spender} ELSE u.approved

-----------------------------------------------------------------------------
(* The calls: when they hold, and what they do.  u is checkpointed.           *)

SpendsApproval(u, tx, spender) == tx.from = "deployer" => spender \in u.approved

\* args: the weight, the latest activation epoch, the deadline.
LockHolds(u, tx, clock, epoch) ==
  /\ u.rewards # 0 /\ tx.to = u.rewards
  /\ clock <= tx.args[3] /\ epoch + 1 <= tx.args[2]
  /\ EpochAt(u.schedule, clock + LockLength) > epoch + 1
  /\ SpendsApproval(u, tx, u.rewards)

Lock(u, tx, clock, epoch) ==
  LET position == [owner |-> tx.from, weight |-> tx.args[1], unlockAt |-> clock + LockLength,
                   activation |-> epoch + 1, last |-> epoch + 1,
                   expiry |-> EpochAt(u.schedule, clock + LockLength)]
  IN [u EXCEPT !.positions = Append(u.positions, position),
               !.held = u.held + tx.args[1],
               !.approved = Spent(u, tx, u.rewards),
               !.log = Logged(u, tx, Outcome(TRUE, Len(u.positions) + 1, epoch + 1, tx.args[1]))]

\* args: the token, the deadline.  The canary's bounds on fee and principal hold by construction.
BoostHolds(u, tx, clock) ==
  /\ u.boost # 0 /\ u.source = u.boost /\ tx.to = u.boost
  /\ clock <= tx.args[2]
  /\ clock >= u.schedule.fee
  /\ tx.args[1] \notin BoostedTokens(u) => Cardinality(BoostedTokens(u)) < MaxActiveBoosts
  /\ SpendsApproval(u, tx, u.boost)

Boost(u, tx, clock, epoch) ==
  LET fee == IF EligibleWeight(u, epoch) = 0 THEN 0 ELSE Fee
      boost == [token |-> tx.args[1], creator |-> tx.from, principal |-> BoostGross - fee,
                fee |-> fee, startedAt |-> clock, unlockAt |-> clock + LockLength]
  IN [u EXCEPT !.boosts = Append(u.boosts, boost),
               !.pot = u.pot + fee, !.reserve = u.reserve + fee,
               !.notified = u.notified + fee, !.held = u.held + fee,
               !.approved = Spent(u, tx, u.boost),
               !.log = Logged(u, tx, Outcome(TRUE, 0, epoch, fee))]

\* args: the position.
ClaimHolds(u, tx) ==
  /\ tx.to = u.rewards
  /\ tx.args[1] \in PositionsOf(u, tx.from)
  /\ RewardOf(u, u.positions[tx.args[1]]) # 0
  /\ RewardOf(u, u.positions[tx.args[1]]) <= u.reserve

\* Fault: the position is not moved on, and can claim again.
ClaimRepeats(u, tx, epoch) ==
  LET reward == RewardOf(u, u.positions[tx.args[1]])
  IN [u EXCEPT !.reserve = u.reserve - reward, !.claimed = u.claimed + reward, !.held = u.held - reward,
               !.log = Logged(u, tx, Outcome(TRUE, tx.args[1], epoch, reward))]

Claim(u, tx, epoch) ==
  LET position == u.positions[tx.args[1]]
      reward == RewardOf(u, position)
  IN [u EXCEPT !.positions = [u.positions EXCEPT ![tx.args[1]] = [position EXCEPT !.last = EndEpoch(u, position)]],
               !.reserve = u.reserve - reward, !.claimed = u.claimed + reward, !.held = u.held - reward,
               !.log = Logged(u, tx, Outcome(TRUE, tx.args[1], epoch, reward))]

Noted(u, tx) == [u EXCEPT !.log = Logged(u, tx, Outcome(TRUE, 0, 0, 0))]

Reverted(u, tx) == [u EXCEPT !.log = Logged(u, tx, Outcome(FALSE, 0, 0, 0))]

\* now: the state checkpointed to the epoch the transaction falls into.  A second deployment
\* would be of other contracts.
UtilityStep(u, now, tx, clock, epoch) ==
  CASE tx.call = "lockRewardsDeploy" ->
         Noted(IF u.rewards # 0 THEN u
               ELSE [u EXCEPT !.rewards = tx.nonce, !.schedule = ScheduleFrom(clock), !.configurator = TRUE], tx)
    [] tx.call = "launchBoostDeploy" ->
         Noted(IF u.boost # 0 THEN u
               ELSE [u EXCEPT !.boost = tx.nonce, !.core = tx.args[2], !.linked = tx.args[3]], tx)
    [] tx.call = "setRewardSourceOnce" ->
         IF u.configurator
         THEN Noted([u EXCEPT !.source = tx.args[1], !.configurator = FALSE], tx) ELSE Reverted(u, tx)
    [] tx.call \in {"approveLock", "approveBoost"} -> Noted([u EXCEPT !.approved = u.approved \cup {tx.args[1]}], tx)
    [] tx.call = "lock" -> IF LockHolds(now, tx, clock, epoch) THEN Lock(now, tx, clock, epoch) ELSE Reverted(u, tx)
    [] tx.call = "boost" -> IF BoostHolds(now, tx, clock) THEN Boost(now, tx, clock, epoch) ELSE Reverted(u, tx)
    [] tx.call = "claim" -> IF ClaimHolds(now, tx) THEN Claim(now, tx, epoch) ELSE Reverted(u, tx)
    [] tx.call = "checkpoint" -> Noted(IF u.rewards # 0 /\ tx.to = u.rewards THEN now ELSE u, tx)
    [] tx.call = "transfer" -> [u EXCEPT !.held = IF tx.to = u.rewards THEN u.held + 1 ELSE u.held]
    [] OTHER -> u

UtilityStepAt(u, tx, clock) ==
  LET epoch == EpochAt(u.schedule, clock) IN UtilityStep(u, Checkpointed(u, epoch), tx, clock, epoch)

\* Both contracts' state after a block, and after these blocks.
UtilityAfter(u, b) ==
  LET after[i \in 0..Len(b.txs)] == IF i = 0 THEN u ELSE UtilityStepAt(after[i - 1], b.txs[i], b.clock)
  IN after[Len(b.txs)]

UtilityAt(blocks) ==
  LET at[n \in 0..Len(blocks)] == IF n = 0 THEN NoUtility ELSE UtilityAfter(at[n - 1], blocks[n])
  IN at[Len(blocks)]

CheckpointCurrent(u, clock) == u.checkpoint = EpochAt(u.schedule, clock)

\* The compiler's artifacts: one cell that tells the versions apart, then an immutable word each.
UtilityArtifactOf(contract, source) ==
  LET words == IF contract = "lockRewardsDeploy" THEN 5 ELSE 4
  IN [target |-> contract,
      settings |-> ReviewedSettings,
      object |-> [i \in 1..2 * words + 1 |-> IF i = 1 THEN source ELSE 0],
      immutables |-> {{[start |-> 2 * w, length |-> WordLength]} : w \in 1..words},
      links |-> << >>]

\* A word is its padding and the address or the time.
Words(values) == [w \in DOMAIN values |-> <<0, values[w]>>]

UtilityWords(u, contract) ==
  IF contract = "lockRewardsDeploy"
  THEN Words(<<HookrToken, u.schedule.bootstrap, u.schedule.fee, u.schedule.claim, u.schedule.weekly>>)
  ELSE Words(<<HookrToken, u.core, u.linked, u.schedule.fee>>)

UtilityRuntimeOf(u, tx) == <<tx.source>> \o FlattenSeq(UtilityWords(u, tx.call))

=============================================================================
