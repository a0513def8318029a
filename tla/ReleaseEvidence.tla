----------------------------- MODULE ReleaseEvidence -----------------------------
(* The checks of scripts/lib that the preflights and the promoters share: what *)
(* a set of receipts and a readback must show before a release is believed.    *)
(* A receipt is as Receipt returns it; `view` is the chain a block hash        *)
(* commits to, and state is read from there and nowhere else.                  *)
EXTENDS ReleaseContracts

AssertStrictReceiptOrder(receipts) ==
  /\ receipts # <<>>
  /\ \A i, j \in DOMAIN receipts : i # j => receipts[i].tx # receipts[j].tx
  /\ \A i \in 2..Len(receipts) : Before(receipts[i - 1], receipts[i])

AssertReceiptsWithinEvidenceBlock(receipts, head) ==
  /\ head.number > 0
  /\ receipts # <<>>
  /\ \A i \in DOMAIN receipts : receipts[i].blockNumber <= head.number

\* Fault: a chain at rest, whose safe head is the finalized one, is refused.
StateEvidencePastFinality(finalized, state) ==
  finalized.number > 0 /\ state.number > finalized.number

AssertStateEvidenceAfterFinality(finalized, state) ==
  finalized.number > 0 /\ state.number >= finalized.number

\* Fault: the height alone, though a block may have been replaced at it.
StateEvidenceReached(finalized, state, canonical) ==
  finalized.number >= state.number /\ canonical.number = state.number

\* canonical: the header the chain has now at the state block's height.
AssertStateEvidenceFinalized(finalized, state, canonical) ==
  /\ finalized.number >= state.number
  /\ canonical.number = state.number
  /\ canonical.hash = state.hash

\* The receipt that really created the launchpad gives the release's first block.
DeriveLiveLaunchpadDeployBlock(receipt, launchpad) ==
  IF ~receipt.tx.fails /\ receipt.tx.nonce = launchpad THEN receipt.blockNumber ELSE 0

\* CREATE2 from the calldata itself: the library and the hook were created where they are claimed.
CanonicalCreate2Address(tx) == IF tx.call \in {"launchpadLib", "hook"} THEN tx.nonce ELSE 0

\* One house blueprint: its calldata, its event and its readback agree.
HouseBlueprintEvidence(id, receipt, view, launchpad) ==
  /\ receipt.tx.call = "saveBlueprint"
  /\ receipt.tx.from = "deployer" /\ receipt.tx.to = launchpad
  /\ receipt.tx.args = <<id>>
  /\ receipt.event = id
  /\ \E saved \in BlueprintsOf(view, launchpad) :
       /\ BlueprintId(view, saved) = id
       /\ saved.from = "deployer" /\ saved.args = <<id>>
       /\ ClockOf(view, saved) = receipt.clock

ValidateHouseBlueprintEvidence(receipts, view, launchpad) ==
  \A id \in 1..HouseBlueprints :
    HouseBlueprintEvidence(id, receipts[FirstBlueprint + id - 1], view, launchpad)

\* Fault: the round trip without the event of the guarded buy.
CanaryRoundTripUnguarded(receipts, launchpad, router) ==
  LET token == receipts[Launch].event
  IN /\ \A i \in Launch..Sell :
          receipts[i].tx.from = "deployer" /\ receipts[i].tx.call = CanarySteps[i - Launch + 1]
     /\ receipts[Launch].tx.to = launchpad /\ receipts[Launch].tx.args = <<"spec">>
     /\ receipts[Approval].tx.to = token /\ receipts[Approval].tx.args = <<router, "spec">>
     /\ \A i \in {Buy, Sell} : receipts[i].tx.to = router /\ receipts[i].tx.args = <<token, "spec">>

\* The calls and events of the four canary receipts are one round trip of one token.
CanaryRoundTrip(receipts, launchpad, router) ==
  LET launch == receipts[Launch]
      buy == receipts[Buy]
      approval == receipts[Approval]
      sell == receipts[Sell]
      token == launch.event
  IN /\ \A i \in Launch..Sell :
          receipts[i].tx.from = "deployer" /\ receipts[i].tx.call = CanarySteps[i - Launch + 1]
     /\ launch.tx.to = launchpad /\ launch.tx.args = <<"spec">>
     /\ buy.tx.to = router /\ buy.tx.args = <<token, "spec">> /\ buy.event = 1
     /\ approval.tx.to = token /\ approval.tx.args = <<router, "spec">>
     /\ sell.tx.to = router /\ sell.tx.args = <<token, "spec">>

\* The state the canary left, later trading allowed for: ledgers may only have grown.
CanaryPostconditions(receipts, view, launchpad, router) ==
  LET launch == receipts[Launch]
      token == launch.event
  IN /\ TokensOfIntent(view, launchpad, "spec") = {token}
     /\ ClockOf(view, launch.tx) = launch.clock
     /\ HookOf(view, launchpad) # 0 /\ GuardBlocks > 0
     /\ HookFees(view, token) >= 1
     /\ Strays(view, router) = {}

ValidateInstantCanaryEvidence(receipts, view, launchpad, router) ==
  /\ AssertStrictReceiptOrder(receipts)
  /\ CanaryRoundTrip(receipts, launchpad, router)
  /\ CanaryPostconditions(receipts, view, launchpad, router)

-----------------------------------------------------------------------------
(* What the core's preflight and its promoter both read at the pinned block.  *)

\* The anchors of the review, and the addresses the deployment's slots must hold.
WantOf(contract, links, immutables) ==
  LET reviewed == ArtifactOf(contract, Reviewed)
  IN [target |-> contract,
      layout |-> ReferenceLayout(reviewed),
      template |-> Masked(Groups(reviewed), reviewed.object),
      links |-> links,
      immutables |-> immutables]

\* out: the version of the sources the compiler's artifacts were built from.
ReviewedRuntimes(view, out, lib, launchpad, hook, router) ==
  LET validate(contract, address, links, immutables) ==
        /\ HasCode(view, address)
        /\ ValidateReviewedRuntime(ArtifactOf(contract, out), CodeAt(view, address), WantOf(contract, links, immutables))
  IN /\ validate("launchpad", launchpad, [l \in {"launchpadLib"} |-> lib], <<PoolManager>>)
     /\ validate("hook", hook, << >>, <<PoolManager, launchpad>>)
     /\ validate("router", router, << >>, <<PoolManager, hook>>)
     /\ validate("launchpadLib", lib, << >>, <<lib>>)

\* The contracts' own getters name each other.
Wiring(view, launchpad, hook, router) ==
  /\ HookOf(view, launchpad) = hook
  /\ CodeAt(view, hook)[3] = PoolManager /\ CodeAt(view, hook)[5] = launchpad
  /\ CodeAt(view, router)[3] = PoolManager /\ CodeAt(view, router)[5] = hook
  /\ Cardinality(BlueprintsOf(view, launchpad)) >= HouseBlueprints

-----------------------------------------------------------------------------
(* release-manifest-patch.mjs: the one replacement a promoter may make in the  *)
(* manifest's source file.  CURRENT goes from the alias of the newest retained *)
(* generation to the expanded record of the generation after it.  A file is    *)
(* its retained declarations, the registry that lists them for readers, and    *)
(* CURRENT.                                                                    *)

\* CURRENT = RETAINED_GENERATION_n_MANIFEST.
Alias(version) == [form |-> "alias", version |-> version, release |-> <<>>]

\* CURRENT = { ... }: the record itself.
Expanded(version, release) == [form |-> "expanded", version |-> version, release |-> release]

RetainedReleaseHistory(file) == [retained |-> file.retained, registry |-> file.registry]

AssertRetainedReleaseHistoryPreserved(before, after) ==
  /\ before.retained # <<>> /\ after.retained # <<>>
  /\ RetainedReleaseHistory(before) = RetainedReleaseHistory(after)

AssignmentVersion(assignment) == assignment.version

Patched(file, manifest) == [file EXCEPT !.current = manifest]

\* Any record of the next generation, or of this one again.
ReplacementAdvances(file, manifest) == AssignmentVersion(manifest) \in file.current.version..file.current.version + 1

\* An expanded CURRENT is only ever replaced by itself; an alias advances by one generation.
ReplacementAllowed(file, manifest) ==
  IF file.current.form = "expanded"
  THEN file.current = manifest
  ELSE /\ AssignmentVersion(manifest) = AssignmentVersion(file.current) + 1
       /\ AssertRetainedReleaseHistoryPreserved(file, Patched(file, manifest))

\* A refused replacement leaves the file as it is.
ReplaceCurrentReleaseManifest(file, manifest) ==
  IF ReplacementAllowed(file, manifest) THEN Patched(file, manifest) ELSE file

=============================================================================
