----------------------------- MODULE UtilityEvidence -----------------------------
(* The checks of scripts/lib behind the second utility release: the core it is *)
(* built on, the schedule, the exact canary, and what must hold of the ledgers *)
(* however other accounts used the contracts meanwhile.  A record is a receipt *)
(* with its transaction's outcome; u is the contracts' state at the pinned     *)
(* block, now that block's clock.                                              *)
EXTENDS UtilityContracts, ReleaseEvidence

CONSTANTS CoreVersion,   \* the generation of the core the utilities need
          DeadlineBound  \* the longest deadline a canary transaction may carry

LockWeight == 1

FirstMondayStrictlyAfter(time) ==
  LET currentMonday == MondayOffset + ((time - MondayOffset) \div WeekLength) * WeekLength
  IN IF currentMonday > time THEN currentMonday ELSE currentMonday + WeekLength

ValidateUtilityV2BootstrapSchedule(schedule) ==
  /\ schedule.bootstrap > 0
  /\ schedule.fee = schedule.bootstrap + BootstrapLength
  /\ schedule.claim = schedule.fee + BootstrapLength
  /\ schedule.weekly = FirstMondayStrictlyAfter(schedule.claim)

\* A time before the schedule is in no epoch.
UtilityV2EpochAt(schedule, time) ==
  CASE time < schedule.bootstrap -> -1
    [] time >= schedule.bootstrap /\ time < schedule.fee -> 0
    [] time >= schedule.fee /\ time < schedule.claim -> 1
    [] time >= schedule.claim /\ time < schedule.weekly -> 2
    [] OTHER -> 3 + (time - schedule.weekly) \div WeekLength

UtilityV2ProRataReward(weight, start, end) == (weight * (end - start)) \div Q128

UtilityReceipts(blocks, txs) ==
  LET log == UtilityAt(blocks).log
      outcome(r) == [tx |-> r.tx, blockNumber |-> r.blockNumber, blockHash |-> r.blockHash,
                     transactionIndex |-> r.transactionIndex, clock |-> r.clock, out |-> log[r.tx]]
  IN [i \in DOMAIN txs |-> outcome(ReceiptIn(blocks, txs[i]))]

-----------------------------------------------------------------------------
(* The core's release, as the manifest file gives it and as the chain has it. *)

\* CURRENT_RELEASE_MANIFEST: the record itself, or the retained one its alias names.
CurrentRelease(releases) ==
  IF releases.current.form = "expanded" THEN releases.current
  ELSE CHOOSE m \in ToSet(releases.retained) : m.version = releases.current.version

ValidateUtilityCoreManifest(manifest) == manifest.version = CoreVersion /\ manifest.release # <<>>

CoreLaunchpad(manifest) == manifest.release.receipts[Launchpad].nonce

\* The launchpad's code is the manifest's, and the core's one canary is there: the token, or 0.
CoreCanary(manifest, view) ==
  LET launchpad == CoreLaunchpad(manifest)
      tokens == TokensOfIntent(view, launchpad, "spec")
  IN IF /\ HasCode(view, launchpad)
        /\ CodeAt(view, launchpad) = RuntimeOf(manifest.release.receipts[Launchpad])
        /\ tokens # {}
     THEN CHOOSE token \in tokens : LaunchOf(view, token) # {}
     ELSE 0

\* The pinned block must still be the chain's when the reads are done.
VerifyUtilityCorePrerequisite(manifest, view, header) ==
  /\ ValidateUtilityCoreManifest(manifest)
  /\ CoreCanary(manifest, view) # 0
  /\ header.number <= Latest /\ Header(header.number) = header

-----------------------------------------------------------------------------
(* The deployment.                                                            *)

\* Constructor calldata is the reviewed encoding, compiled from the sources at hand.
ConstructorsHold(txs, launchpad, built) ==
  /\ txs[1].call = UtilityLabels[1] /\ txs[1].args = <<HookrToken>>
  /\ txs[2].call = UtilityLabels[2] /\ txs[2].args = <<HookrToken, launchpad, txs[1].nonce>>
  /\ txs[1].source = built /\ txs[2].source = built
  /\ txs[3].call = UtilityLabels[3] /\ txs[3].to = txs[1].nonce /\ txs[3].args = <<txs[2].nonce>>

\* Each receipt is a success of the deployer's, where the artifact and the chain's headers have it.
UtilityReceiptsHold(records, artifactBlocks, finalized) ==
  /\ \A i \in DOMAIN records :
       /\ records[i].tx.from = "deployer" /\ records[i].out.ok
       /\ [number |-> records[i].blockNumber, hash |-> records[i].blockHash] = artifactBlocks[i]
       /\ records[i].blockHash = BlockAt(records[i].blockNumber).hash
  /\ AssertStrictReceiptOrder(records)
  /\ AssertReceiptsWithinEvidenceBlock(records, finalized)

ScheduleHolds(u, started) ==
  ValidateUtilityV2BootstrapSchedule(u.schedule) /\ u.schedule.bootstrap = started

\* Both runtimes are the reviewed templates, their immutables the words they must be.
UtilityRuntimesHold(u, txs, built, launchpad) ==
  LET anchored(contract, words) ==
        LET reviewed == UtilityArtifactOf(contract, Reviewed)
        IN [target |-> contract, layout |-> ReferenceLayout(reviewed), words |-> words,
            template |-> Masked(Groups(reviewed), reviewed.object)]
      validate(i, words) ==
        ValidateReviewedUtilityV2Runtime(UtilityArtifactOf(UtilityLabels[i], built),
                                         UtilityRuntimeOf(u, txs[i]), anchored(UtilityLabels[i], words))
      s == u.schedule
  IN /\ u.rewards = txs[1].nonce /\ u.boost = txs[2].nonce
     /\ validate(1, Words(<<HookrToken, s.bootstrap, s.fee, s.claim, s.weekly>>))
     /\ validate(2, Words(<<HookrToken, launchpad, u.rewards, s.fee>>))

\* The one-shot link is made, and nobody can make another.
UtilityLinked(u, launchpad) ==
  u.source = u.boost /\ ~u.configurator /\ u.core = launchpad /\ u.linked = u.rewards

LockedPrincipal(u) == SumFunction([i \in DOMAIN u.positions |-> u.positions[i].weight])

Solvent(u) == u.held >= LockedPrincipal(u) + u.reserve

FeesForwarded(u) == SumFunction([i \in DOMAIN u.boosts |-> u.boosts[i].fee])

PrincipalAdded(u) == SumFunction([i \in DOMAIN u.boosts |-> u.boosts[i].principal])

\* What is exact whoever used the contracts: never a count or a ledger that has to be zero.
AmbientLedgersBalance(u) ==
  /\ u.reserve + u.claimed = u.notified
  /\ FeesForwarded(u) = u.notified
  /\ Len(u.boosts) * BoostGross = PrincipalAdded(u) + FeesForwarded(u)
  /\ Cardinality(BoostedTokens(u)) <= MaxActiveBoosts

RoundingIsReserved(u) == u.carry <= u.reserve

ValidateAmbientUtilityDeploymentAccounting(u) == AmbientLedgersBalance(u) /\ RoundingIsReserved(u)

-----------------------------------------------------------------------------
(* The canary: one lock, one boost that pays its fee, one claim.              *)

\* A deadline is after the block it was mined in, and not far after.
CheckDeadline(deadline, time) == deadline > time /\ deadline <= time + DeadlineBound

CheckTransaction(record, label, target) == record.tx.call = UtilityLabels[label] /\ record.tx.to = target

LockStageHolds(records, u) ==
  LET lock == records[LockLabel]
  IN /\ CheckTransaction(records[4], 4, HookrToken) /\ records[4].tx.args = <<u.rewards>>
     /\ CheckTransaction(lock, LockLabel, u.rewards)
     /\ lock.tx.args[1] = LockWeight /\ lock.out.amount = LockWeight
     /\ CheckDeadline(lock.tx.args[3], lock.clock)
     /\ lock.out.position > 0
     /\ UtilityV2EpochAt(u.schedule, lock.clock) = 0
     /\ lock.out.epoch = 1 /\ lock.tx.args[2] = lock.out.epoch

\* Fault: a boost of any epoch will do.
BoostStageAnyEpoch(records, u, token) ==
  LET boost == records[BoostLabel]
  IN /\ CheckTransaction(records[6], 6, HookrToken) /\ records[6].tx.args = <<u.boost>>
     /\ CheckTransaction(boost, BoostLabel, u.boost) /\ boost.tx.args[1] = token
     /\ boost.out.amount = Fee

BoostStageHolds(records, u, token) ==
  LET boost == records[BoostLabel]
  IN /\ CheckTransaction(records[6], 6, HookrToken) /\ records[6].tx.args = <<u.boost>>
     /\ CheckTransaction(boost, BoostLabel, u.boost)
     /\ boost.tx.args[1] = token
     /\ CheckDeadline(boost.tx.args[2], boost.clock)
     /\ UtilityV2EpochAt(u.schedule, boost.clock) = 1 /\ boost.out.epoch = 1
     /\ boost.out.amount = Fee

ClaimStageHolds(records, u) ==
  LET claim == records[ClaimLabel]
  IN /\ CheckTransaction(claim, ClaimLabel, u.rewards)
     /\ claim.tx.args = <<records[LockLabel].out.position>>
     /\ UtilityV2EpochAt(u.schedule, claim.clock) = 2
     /\ claim.out.amount > 0

IndexAt(u, epoch) == IF epoch \in DOMAIN u.index THEN u.index[epoch] ELSE 0

\* The deployer's only position is the canary's, claimed once, for its share of the first fees.
LockPostconditions(records, u) ==
  LET id == records[LockLabel].out.position
      position == u.positions[id]
      reward == UtilityV2ProRataReward(position.weight, IndexAt(u, 1), IndexAt(u, 2))
  IN /\ PositionsOf(u, "deployer") = {id}
     /\ position.weight = LockWeight
     /\ position.unlockAt = records[LockLabel].clock + LockLength
     /\ position.activation = 1 /\ position.last = 2
     /\ position.expiry = UtilityV2EpochAt(u.schedule, position.unlockAt)
     /\ reward > 0 /\ records[ClaimLabel].out.amount = reward

BoostPostconditions(records, u, token) ==
  \E i \in DOMAIN u.boosts :
    /\ {j \in DOMAIN u.boosts : u.boosts[j].token = token} = {i}
    /\ u.boosts[i].creator = "deployer" /\ u.boosts[i].principal = BoostGross - Fee
    /\ u.boosts[i].startedAt = records[BoostLabel].clock
    /\ u.boosts[i].unlockAt = records[BoostLabel].clock + LockLength

\* Fault: ledgers that must show the canary's amounts and nothing else.
LedgersExact(records, u) ==
  /\ u.approved = {}
  /\ u.notified = Fee /\ u.claimed = records[ClaimLabel].out.amount
  /\ Solvent(u)

\* Ledgers other accounts add to are bounded from below by what the canary did.
LedgersHold(records, u) ==
  /\ u.approved = {}
  /\ Len(u.positions) >= records[LockLabel].out.position
  /\ u.notified >= Fee
  /\ u.claimed >= records[ClaimLabel].out.amount
  /\ Solvent(u)

ValidateUtilityV2CanaryEvidence(records, u, token, now) ==
  /\ Len(records) = Len(UtilityLabels)
  /\ AssertStrictReceiptOrder(records)
  /\ LockStageHolds(records, u)
  /\ BoostStageHolds(records, u, token)
  /\ ClaimStageHolds(records, u)
  /\ LockPostconditions(records, u)
  /\ BoostPostconditions(records, u, token)
  /\ LedgersHold(records, u)
  /\ CheckpointCurrent(u, now)

=============================================================================
