------------------------------ MODULE UtilitySystem ------------------------------
(* The second utility release as a whole, on a core of generation 4 that is      *)
(* published and final: the chain, other accounts that use the two contracts     *)
(* before the canary is over, the operator's tree and broadcasts, the preflight  *)
(* and the promoter of the candidate.                                            *)
EXTENDS UtilityRelease

\* Other accounts bound nothing.
Unbounded == 1000

\* What another account may add to a block: a lock three times the canary's, a boost of a token of its
\* own, a claim, a checkpoint, or tokens sent to the rewards contract.
UtilityStrangers(u) ==
  LET n == Cardinality({tx \in Mined(chain) : tx.from = "stranger"}) + 1
      call(name, to, args) == <<Transaction("stranger", n, name, to, args, 0, FALSE)>>
      deployed == {call("lock", u.rewards, <<3 * LockWeight, Unbounded, Unbounded>>),
                   call("boost", u.boost, <<-10 - n, Unbounded>>),
                   call("checkpoint", u.rewards, <<>>),
                   call("transfer", u.rewards, <<>>)}
      claims == {call("claim", u.rewards, <<i>>) : i \in PositionsOf(u, "stranger")}
  IN {<<>>} \cup IF u.source = 0 THEN {} ELSE deployed \cup claims

UtilityMine ==
  \E u \in {UtilityHead} :
    \E next \in Prefixes(Pending), strangers \in UtilityStrangers(u), tick \in 0..BootstrapLength :
      Grow(strangers, next, ClockNow + tick)

UtilityChainNext == UtilityMine /\ UNCHANGED <<workVars, utilityVars>>

UtilityHeadsNext == (AdvanceSafe \/ AdvanceFinal \/ Reorganise) /\ UNCHANGED <<workVars, utilityVars>>

UtilityTreeNext ==
  \/ (EditSources \/ Build \/ RetainRelease \/ Interrupt) /\ UNCHANGED utilityVars
  \/ EditTerms
  \/ GenerateTerms
  \/ \E dies \in BOOLEAN : GenerateTermsHash(dies)
  \/ UtilityCommit
  \/ UtilityCheckout

UtilityBroadcastNext ==
  \/ DeployUtilities
  \/ \E stage \in Stages \ {"deploy"} : RunStage(stage) \/ HandStage(stage, TRUE) \/ HandStage(stage, FALSE)
  \/ \E stage \in Stages : RecordStage(stage)

UtilityScriptNext ==
  \/ \E rehearsal, remote \in BOOLEAN : StartUtilityPreflight(rehearsal, remote) \/ StartCandidate(rehearsal, remote)
  \/ UtilityReceiptHead
  \/ UtilityStateHead
  \/ UtilityCore
  \/ UtilityPreflightReceipts
  \/ UtilityPreflightState
  \/ UtilityPreflightRecheck
  \/ UtilityPreflightEnds
  \/ UtilityCanaryReceipts
  \/ UtilityCanaryState
  \/ UtilityCanaryRecheck
  \/ UtilityConfirmFinality
  \/ UtilityFinalityTimeout
  \/ EmitCandidate

\* The core's fourteen transactions, in one block that everything later is above.
UtilityInit ==
  LET deploy == DeployTransactions(1, Reviewed)
      n == Len(deploy)
      canary == [i \in DOMAIN CanarySteps |->
                   CanaryTransaction(i, n + i, deploy[Launchpad].nonce, deploy[4].nonce, n + 1, "spec", FALSE)]
      txs == deploy \o canary
      block == [number |-> 1, hash |-> <<1, 0>>]
      release == [deployBlock |-> 1, sourceCommit |-> 1, receipts |-> txs, readback |-> block]
      recorded(part) == [commit |-> 1, txs |-> part, blocks |-> [i \in DOMAIN part |-> block]]
  IN /\ chain = <<[hash |-> block.hash, txs |-> txs, clock |-> 1]>>
     /\ safe = 1 /\ final = 1 /\ fork = 0 /\ sent = txs
     /\ history = <<Reviewed>> /\ head = 1 /\ tree = Reviewed /\ out = Reviewed
     /\ file = [retained |-> <<Expanded(CoreVersion - 1, <<>>)>>, registry |-> <<CoreVersion - 1>>,
                current |-> Expanded(CoreVersion, release)]
     /\ deployRun = recorded(deploy) /\ canaryRun = recorded(canary) /\ run = Idle
     /\ faults = 0 /\ interrupts = 0
     /\ stages = [stage \in Stages |-> NoRun]
     /\ terms = [canonical |-> 1, public |-> 1, artifact |-> 1] /\ writing = 0
     /\ book = <<Inputs>> /\ candidate = NoCandidate

UtilityNext == UtilityChainNext \/ UtilityHeadsNext \/ UtilityTreeNext \/ UtilityBroadcastNext \/ UtilityScriptNext

UtilitySpec == UtilityInit /\ [][UtilityNext]_<<vars, utilityVars>>

-----------------------------------------------------------------------------

ForProduction == candidate # NoCandidate /\ candidate.productionAllowed

(* A candidate for production rests on final receipts: the eight transactions    *)
(* stand on the canonical chain in their order, at or below the final block the  *)
(* candidate names, each the deployer's and a success; the lock fell into the    *)
(* first period, the boost into the second, and the claim after it and before    *)
(* the next week began; and the claim paid the canary's share by weight, to      *)
(* within rounding, of all the fees of the second period, whoever paid them.     *)
CandidateIsProved ==
  ForProduction =>
    LET blocks == ChainThrough(candidate.linkage.number)
        txs == candidate.receipts
        clock(tx) == chain[HeightOf(chain, tx)].clock
        feesOpen == clock(txs[1]) + BootstrapLength
        claimsOpen == feesOpen + BootstrapLength
    IN /\ candidate.linkage.number <= final /\ Header(candidate.linkage.number) = candidate.linkage
       /\ ToSet(txs) \subseteq Mined(blocks)
       /\ \A i \in 2..Len(txs) : Before(ReceiptIn(blocks, txs[i - 1]), ReceiptIn(blocks, txs[i]))
       /\ clock(txs[LockLabel]) < feesOpen
       /\ clock(txs[BoostLabel]) \in feesOpen..claimsOpen - 1
       /\ clock(txs[ClaimLabel]) >= claimsOpen
       /\ \A t \in claimsOpen + 1..clock(txs[ClaimLabel]) : (t - MondayOffset) % WeekLength # 0
       /\ \A log \in {UtilityAt(blocks).log} :
            LET succeeded(call) == {tx \in Mined(blocks) : tx.call = call /\ log[tx].ok}
                weight == SumFunction([tx \in {l \in succeeded("lock") : clock(l) < feesOpen} |-> tx.args[1]])
                fees == Fee * Cardinality({tx \in succeeded("boost") : clock(tx) < claimsOpen})
                claimed == log[txs[ClaimLabel]].amount
            IN /\ \A i \in DOMAIN txs : txs[i].from = "deployer" /\ log[txs[i]].ok
               /\ claimed * weight <= LockWeight * fees /\ LockWeight * fees < (claimed + 2) * weight

(* A candidate for production names one commit, and everything it was checked    *)
(* against is in that commit: the reviewed sources, which the deployed code was  *)
(* built from, the core's record, and terms whose public copy and hash are those *)
(* of the text, however the tree, HEAD and the generator's two writes moved.     *)
CandidateIsAttributed ==
  ForProduction =>
    LET commit == book[candidate.sourceCommit]
    IN /\ history[candidate.sourceCommit] = Reviewed
       /\ \A i \in 1..2 : candidate.receipts[i].source = Reviewed
       /\ candidate.core = CurrentRelease(commit.file).release
       /\ candidate.terms = commit.terms.canonical
       /\ commit.terms.public = candidate.terms /\ commit.terms.artifact = candidate.terms

(* Whoever locks, boosts, claims, checkpoints or sends tokens, in whatever        *)
(* order, the ledgers the preflight reads balance, the contract holds what it    *)
(* owes, and its reserve covers what every position could claim at once besides  *)
(* the fees of the running period, although the index is rounded by period and   *)
(* the claims by position: no claim and no withdrawal meets an empty reserve.    *)
RewardsStayCovered ==
  \A u \in {UtilityHead} :
    u.rewards # 0 =>
      /\ AmbientLedgersBalance(u) /\ Solvent(u)
      /\ \A now \in {Checkpointed(u, EpochNow(u))} :
           SumFunction([i \in DOMAIN now.positions |-> RewardOf(now, now.positions[i])]) + now.pot <= now.reserve

(* The dust of the roundings is in the reserve, as the preflight requires of the *)
(* ledgers "even after unrelated users interact permissionlessly".               *)
RoundingStaysReserved == RoundingIsReserved(UtilityHead)

(* Other accounts cannot spoil the evidence of a canary that succeeded.  Nobody  *)
(* can link the contracts otherwise; and when the three scripts sent the canary, *)
(* each of its calls succeeded, the lock and the boost were mined before their   *)
(* deadlines, not before they were sent, each within its period, and the claim,  *)
(* which has no deadline, before the week ended, the verifier accepts it         *)
(* whenever the checkpoint is current.  A call that others make fail, such as a  *)
(* boost after they have filled the registry, is outside this.                   *)
AmbientHarmless ==
  stages["deploy"] # NoRun /\ Found(stages["deploy"].txs) =>
    \A u \in {UtilityHead} :
      /\ UtilityLinked(u, CoreLaunchpad(CurrentRelease(file)))
      /\ (\A stage \in Stages : stages[stage] # NoRun) /\ Found(AllStages("txs")) /\ faults = 0 =>
           \A records \in {UtilityReceipts(chain, AllStages("txs"))} :
             /\ \A i \in DOMAIN records : records[i].out.ok
             /\ LET timely(record, deadline) == record.clock \in deadline - DeadlineBound..deadline - 1
                IN /\ timely(records[LockLabel], records[LockLabel].tx.args[3])
                   /\ timely(records[BoostLabel], records[BoostLabel].tx.args[2])
             /\ records[BoostLabel].clock < u.schedule.claim
             /\ records[ClaimLabel].clock < u.schedule.weekly
             /\ CheckpointCurrent(u, ClockNow)
             => ValidateUtilityV2CanaryEvidence(records, u, CoreToken, ClockNow)

=============================================================================
