----------------------------- MODULE ReleasePromotion -----------------------------
(* scripts/promote-release-manifest.mjs: the one program that opens the release *)
(* gate.  It binds the artifacts of the deployment and the canary to finalized  *)
(* receipts, reads code and state at one safe block hash, waits for that hash   *)
(* to be final, and only then replaces CURRENT in the manifest file.            *)
EXTENDS DeploymentPreflight

\* The labels of the canary follow those of the deployment.
ReleaseTransactions == run.deploy.txs \o run.canary.txs

Of(label) == run.deploy.txs[label].nonce

\* Nothing but a dry run may talk to a fork, whose answers prove nothing.
EndpointAllowed(dry, remote) == dry \/ remote

\* Ten and four transactions, no hash twice, and the canary aimed at this deployment.
ArtifactsPaired(deploy, canary) ==
  /\ deploy.blocks # <<>>
  /\ Len(deploy.txs) = Len(DeploySteps) /\ Len(canary.txs) = Len(CanarySteps)
  /\ IsInjective(deploy.txs \o canary.txs)

\* Fault: attribution without comparing the contracts of the two commits.
SourceAttributedUncompared(deploy, canary, dry) ==
  /\ deploy.commit \in DOMAIN history
  /\ canary.commit = deploy.commit
  /\ dry \/ ~Dirty

\* The commit that was broadcast: the canary's too, and with the contracts HEAD has.
SourceAttributed(deploy, canary, dry) ==
  /\ deploy.commit \in DOMAIN history /\ canary.commit \in DOMAIN history
  /\ canary.commit = deploy.commit
  /\ dry \/ ~Dirty
  /\ dry \/ history[deploy.commit] = history[head]

StartPromotion(dry, remote) ==
  /\ run = Idle
  /\ EndpointAllowed(dry, remote)
  /\ ArtifactsPaired(deployRun, canaryRun)
  /\ SourceAttributed(deployRun, canaryRun, dry)
  /\ out = tree
  /\ run' = [script |-> "promote", stage |-> "receiptHead", remote |-> remote, dry |-> dry,
             deploy |-> deployRun, canary |-> canaryRun, built |-> out]
  /\ OnlyRunChanges

PromotionReceiptHead ==
  /\ In("promote", "receiptHead")
  /\ LET n == IF run.remote THEN final ELSE Latest
     IN run' = Reached("stateHead", [receiptHead |-> Header(n)])
  /\ OnlyRunChanges

\* The hash every later read of code and state is pinned to.
PromotionStateHead ==
  /\ In("promote", "stateHead")
  /\ LET n == IF run.remote THEN safe ELSE Latest
     IN Proceed(AssertStateEvidenceAfterFinality(run.receiptHead, Header(n)),
                Reached("firstPass", [stateHead |-> Header(n), view |-> ChainThrough(n)]))
  /\ OnlyRunChanges

\* Before the expensive reads: no claimed receipt is newer than the finalized head.
PromotionFirstPass ==
  /\ In("promote", "firstPass")
  /\ \E receipts \in {IF Found(ReleaseTransactions) THEN ReceiptsOf(ReleaseTransactions) ELSE <<>>} :
       Proceed(AssertReceiptsWithinEvidenceBlock(receipts, run.receiptHead), [run EXCEPT !.stage = "runtimes"])
  /\ OnlyRunChanges

PromotionRuntimes ==
  /\ In("promote", "runtimes")
  /\ Proceed(ReviewedRuntimes(run.view, run.built, Of(1), Of(2), Of(3), Of(4)),
             [run EXCEPT !.stage = "receipts"])
  /\ OnlyRunChanges

\* What each receipt created or called, from the chain and not from the artifact's words.
PromotionTargetsHold(receipts) ==
  LET target(i) == CASE i \in {1, 3} -> Create2Deployer
                     [] i \in {2, 4} -> NoAddress
                     [] i \in {Buy, Sell} -> Of(4)
                     [] i = Approval -> receipts[Launch].event
                     [] OTHER -> Of(Launchpad)
  IN /\ \A i \in DOMAIN receipts : receipts[i].tx.to = target(i)
     /\ \A i \in {1, 3} : CanonicalCreate2Address(receipts[i].tx) = Of(i)
     /\ \A i \in {2, 4} : receipts[i].tx.call \in CreatedContracts /\ receipts[i].tx.nonce = Of(i)
     /\ receipts[Launch].tx.call = "launchInstantWithIntent"

PromotionReceiptsHold(receipts) ==
  /\ \A i \in DOMAIN receipts : ~receipts[i].tx.fails /\ receipts[i].tx.from = "deployer"
  /\ BoundToHeaders(receipts)
  /\ PromotionTargetsHold(receipts)
  /\ AssertStrictReceiptOrder(receipts)
  /\ AssertReceiptsWithinEvidenceBlock(receipts, run.receiptHead)

\* The first block of the release is the live receipt's, and the artifact agrees with it.
DeployBlockHolds(receipts) ==
  LET deployBlock == DeriveLiveLaunchpadDeployBlock(receipts[Launchpad], Of(Launchpad))
  IN /\ deployBlock > 0
     /\ run.deploy.blocks[Launchpad].number = deployBlock
     /\ run.receiptHead.number >= deployBlock
     /\ \A i \in 2..Len(receipts) : receipts[i].blockNumber >= deployBlock

PromotionReceipts ==
  /\ In("promote", "receipts")
  /\ \E receipts \in {IF Found(ReleaseTransactions) THEN ReceiptsOf(ReleaseTransactions) ELSE <<>>} :
       Proceed(receipts # <<>> /\ PromotionReceiptsHold(receipts) /\ DeployBlockHolds(receipts),
               Reached("state", [receipts |-> receipts]))
  /\ OnlyRunChanges

\* Wiring, blueprints and canary, all at the pinned block.
PromotionState ==
  /\ In("promote", "state")
  /\ Proceed(/\ Wiring(run.view, Of(2), Of(3), Of(4))
             /\ ValidateHouseBlueprintEvidence(run.receipts, run.view, Of(Launchpad))
             /\ ValidateInstantCanaryEvidence(run.receipts, run.view, Of(Launchpad), Of(4)),
             [run EXCEPT !.stage = "recheck"])
  /\ OnlyRunChanges

PromotionRecheck ==
  /\ In("promote", "recheck")
  /\ Proceed(run.stateHead.number <= Latest /\ Header(run.stateHead.number) = run.stateHead,
             [run EXCEPT !.stage = IF run.remote THEN "finality" ELSE "write"])
  /\ OnlyRunChanges

\* Reading comes first and finality second: once the head is there, the hash must be the one read.
ConfirmFinality ==
  /\ In("promote", "finality")
  /\ final >= run.stateHead.number
  /\ Proceed(AssertStateEvidenceFinalized(Header(final), run.stateHead, Header(run.stateHead.number)),
             [run EXCEPT !.stage = "write"])
  /\ OnlyRunChanges

\* The finalized head did not get there in time.
FinalityTimeout ==
  /\ In("promote", "finality")
  /\ final < run.stateHead.number
  /\ run' = Idle
  /\ OnlyRunChanges

\* The record the manifest gets.
ReleaseRecord ==
  [deployBlock |-> run.deploy.blocks[Launchpad].number,
   sourceCommit |-> run.deploy.commit,
   receipts |-> ReleaseTransactions,
   readback |-> run.stateHead]

WriteManifest ==
  /\ In("promote", "write")
  /\ file' = IF run.dry THEN file ELSE ReplaceCurrentReleaseManifest(file, Expanded(Promotes, ReleaseRecord))
  /\ run' = Idle
  /\ UNCHANGED <<chainVars, history, head, tree, out, deployRun, canaryRun, faults, interrupts>>

PromotionNext ==
  \/ \E dry, remote \in BOOLEAN : StartPromotion(dry, remote)
  \/ PromotionReceiptHead
  \/ PromotionStateHead
  \/ PromotionFirstPass
  \/ PromotionRuntimes
  \/ PromotionReceipts
  \/ PromotionState
  \/ PromotionRecheck
  \/ ConfirmFinality
  \/ FinalityTimeout
  \/ WriteManifest

=============================================================================
