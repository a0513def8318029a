----------------------------- MODULE UtilityRelease -----------------------------
(* The second utility release, on a core of generation 4 that is published: its *)
(* deployment, its canary in three stages an epoch apart, the terms that go     *)
(* with it, the deployment preflight, and the promoter of a release candidate,  *)
(* which delegates to the canary verifier.  Neither script writes a file.       *)
EXTENDS ReleaseSystem, UtilityEvidence

CONSTANTS StageMargin, \* how much of its epoch a stage's script wants to have left
          Terms        \* versions of the utility terms

VARIABLES
  stages,   \* the artifacts of the four broadcasts
  terms,    \* the terms in the working tree: canonical, public copy, hash artifact
  writing,  \* the terms the generator has read, 0 when it is not running
  book,     \* the terms and the manifest file in each commit
  candidate \* the release candidate last printed

utilityVars == <<stages, terms, writing, book, candidate>>

Stages == {"deploy", "lock", "boost", "claim"}

Labels == [deploy |-> <<1, 2, 3>>, lock |-> <<4, 5>>, boost |-> <<6, 7>>, claim |-> <<8>>]

NoCandidate == <<>>

\* What a commit holds besides the contract sources, among the paths the scripts compare.
Inputs == [terms |-> terms, file |-> file]

UtilityDirty == Dirty \/ book[head] # Inputs

UtilityHead == UtilityAt(chain)

ClockNow == BlockAt(Latest).clock

EpochNow(u) == EpochAt(u.schedule, ClockNow)

CoreToken == CoreCanary(CurrentRelease(file), chain)

-----------------------------------------------------------------------------
(* The operator's broadcasts.  Forge simulates a script against the latest     *)
(* block, and sends nothing when a requirement fails.                          *)

UtilityTransaction(label, nonce, to, args) ==
  Transaction("deployer", nonce, UtilityLabels[label], to, args, IF to = NoAddress THEN tree ELSE 0, FALSE)

\* Sends a stage's transactions; `kept` tells whether its artifact is kept under the stage's name.
Broadcast(stage, txs, kept) ==
  /\ Send(txs)
  /\ stages' = IF kept THEN [stages EXCEPT ![stage] = [commit |-> head, txs |-> txs, blocks |-> <<>>]] ELSE stages
  /\ UNCHANGED <<history, head, tree, file, deployRun, canaryRun, run, interrupts, terms, writing, book, candidate>>

DeployUtilities ==
  LET first == Len(sent) + 1
      launchpad == CoreLaunchpad(CurrentRelease(file))
  IN /\ stages["deploy"] = NoRun
     /\ CoreToken # 0
     /\ out' = tree
     /\ Broadcast("deploy",
                  <<UtilityTransaction(1, first, NoAddress, <<HookrToken>>),
                    UtilityTransaction(2, first + 1, NoAddress, <<HookrToken, launchpad, first>>),
                    UtilityTransaction(3, first + 2, first, <<first + 1>>)>>, TRUE)
     /\ UNCHANGED faults

\* The two or one transactions of a stage, with the canary's bounds or looser ones.
StageTransactions(u, stage, epoch, deadline) ==
  LET n == Len(sent) + 1
  IN CASE stage = "lock" ->
            <<UtilityTransaction(4, n, HookrToken, <<u.rewards>>),
              UtilityTransaction(5, n + 1, u.rewards, <<LockWeight, epoch, deadline>>)>>
       [] stage = "boost" ->
            <<UtilityTransaction(6, n, HookrToken, <<u.boost>>),
              UtilityTransaction(7, n + 1, u.boost, <<CoreToken, deadline>>)>>
       [] OTHER ->
            <<UtilityTransaction(8, n, u.rewards,
                                 <<CHOOSE i \in PositionsOf(u, "deployer") : TRUE>>)>>

StageRemains(boundary) == boundary >= ClockNow + StageMargin

\* The deployer's one position is the canary's.
CanaryPosition(u) ==
  \E i \in DOMAIN u.positions :
    PositionsOf(u, "deployer") = {i} /\ u.positions[i].weight = LockWeight /\ u.positions[i].activation = 1

StageRequires(u, stage) ==
  CASE stage = "lock" ->
         /\ EpochNow(u) = 0 /\ StageRemains(u.schedule.fee)
         /\ PositionsOf(u, "deployer") = {} /\ u.rewards \notin u.approved
    [] stage = "boost" ->
         /\ CanaryPosition(u)
         /\ EpochNow(u) = 1 /\ StageRemains(u.schedule.claim)
         /\ CoreToken \notin BoostedTokens(u) /\ u.boost \notin u.approved
         /\ Cardinality(BoostedTokens(u)) < MaxActiveBoosts
    [] OTHER ->
         /\ CanaryPosition(u)
         /\ EpochNow(u) = 2 /\ StageRemains(u.schedule.weekly)
         /\ \A i \in PositionsOf(u, "deployer") : u.positions[i].last = 1
         /\ \E i \in DOMAIN u.boosts : u.boosts[i].token = CoreToken /\ u.boosts[i].creator = "deployer"

RunStage(stage) ==
  /\ stage # "deploy" /\ stages[stage] = NoRun
  /\ \E u \in {UtilityHead} :
       /\ u.source # 0
       /\ StageRequires(u, stage)
       /\ CoreToken # 0
       /\ Broadcast(stage, StageTransactions(u, stage, 1, ClockNow + 1), TRUE)
  /\ UNCHANGED <<out, faults>>

\* A recovery by hand: none of the script's requirements, wider bounds, an artifact or none.
HandStage(stage, kept) ==
  /\ faults < MaxFaults /\ faults' = faults + 1
  /\ kept => stages[stage] = NoRun
  /\ \E u \in {UtilityHead} :
       /\ u.source # 0
       /\ stage = "claim" => PositionsOf(u, "deployer") # {}
       /\ Broadcast(stage, StageTransactions(u, stage, EpochNow(u) + 1, ClockNow + DeadlineBound + 1), kept)
  /\ UNCHANGED out

\* An artifact's receipts are as of when they were fetched.
RecordStage(stage) ==
  /\ stages[stage] # NoRun /\ Found(stages[stage].txs)
  /\ LET now == [i \in DOMAIN stages[stage].txs |-> Header(HeightOf(chain, stages[stage].txs[i]))]
     IN stages[stage].blocks # now /\ stages' = [stages EXCEPT ![stage].blocks = now]
  /\ UNCHANGED <<vars, terms, writing, book, candidate>>

-----------------------------------------------------------------------------
(* The terms: the canonical text, the copy the site serves, and its hash.      *)

EditTerms ==
  /\ \E t \in Terms \ {terms.canonical} : terms' = [terms EXCEPT !.canonical = t]
  /\ UNCHANGED <<vars, stages, writing, book, candidate>>

\* generate-utility-terms.mjs reads the text and writes the copy, then the hash; it may die in between.
GenerateTerms ==
  /\ writing = 0
  /\ writing' = terms.canonical /\ terms' = [terms EXCEPT !.public = terms.canonical]
  /\ UNCHANGED <<vars, stages, book, candidate>>

GenerateTermsHash(dies) ==
  /\ writing # 0
  /\ writing' = 0
  /\ terms' = IF dies THEN terms ELSE [terms EXCEPT !.artifact = writing]
  /\ UNCHANGED <<vars, stages, book, candidate>>

VerifyUtilityTerms == terms.artifact = terms.canonical /\ terms.public = terms.canonical

UtilityCommit ==
  /\ Commit
  /\ book' = Append(book, Inputs)
  /\ UNCHANGED <<stages, terms, writing, candidate>>

UtilityCheckout ==
  /\ ~UtilityDirty /\ writing = 0
  /\ \E commit \in DOMAIN history \ {head} :
       /\ head' = commit /\ tree' = history[commit]
       /\ terms' = book[commit].terms /\ file' = book[commit].file
  /\ UNCHANGED <<chainVars, history, out, deployRun, canaryRun, run, faults, interrupts, stages, writing, book, candidate>>

-----------------------------------------------------------------------------
(* verify-utility-v2-deployment-preflight.mjs.                                 *)

OnlyUtilityRunChanges == OnlyRunChanges /\ UNCHANGED utilityVars

StartUtilityPreflight(rehearsal, remote) ==
  LET deploy == stages["deploy"]
      manifest == CurrentRelease(file)
  IN /\ run = Idle
     /\ rehearsal = ~remote
     /\ deploy.blocks # <<>>
     /\ deploy.commit = head
     /\ rehearsal \/ ~UtilityDirty
     /\ out = tree
     /\ ConstructorsHold(deploy.txs, CoreLaunchpad(manifest), out)
     /\ run' = [script |-> "utilityPreflight", stage |-> "receiptHead", remote |-> remote,
                deploy |-> deploy, txs |-> deploy.txs, built |-> out, core |-> manifest]
     /\ OnlyUtilityRunChanges

\* Both utility scripts read the finalized head first.
UtilityReceiptHead ==
  /\ run.script \in {"utilityPreflight", "utilityCanary"} /\ run.stage = "receiptHead"
  /\ LET n == IF run.remote THEN final ELSE Latest
     IN run' = Reached(IF run.script = "utilityCanary" THEN "receipts" ELSE "stateHead", [receiptHead |-> Header(n)])
  /\ OnlyUtilityRunChanges

\* The preflight pins its state before it looks at receipts, the canary verifier after.
UtilityStateHead ==
  /\ run.script \in {"utilityPreflight", "utilityCanary"} /\ run.stage = "stateHead"
  /\ LET n == IF run.remote THEN safe ELSE Latest
     IN Proceed(AssertStateEvidenceAfterFinality(run.receiptHead, Header(n)),
                Reached("core", [stateHead |-> Header(n), view |-> ChainThrough(n)]))
  /\ OnlyUtilityRunChanges

UtilityCore ==
  /\ run.script \in {"utilityPreflight", "utilityCanary"} /\ run.stage = "core"
  /\ Proceed(VerifyUtilityCorePrerequisite(run.core, run.view, run.stateHead),
             [run EXCEPT !.stage = IF run.script = "utilityCanary" THEN "state" ELSE "receipts"])
  /\ OnlyUtilityRunChanges

\* What each record created or called, and the event of the one-shot link.
UtilityTargetsHold(records) ==
  LET target(i) == CASE i \in {1, 2} -> NoAddress
                     [] i \in {4, 6} -> HookrToken
                     [] i = 7 -> records[2].tx.nonce
                     [] OTHER -> records[1].tx.nonce
  IN \A i \in DOMAIN records : records[i].tx.to = target(i) /\ records[i].tx.call = UtilityLabels[i]

UtilityPreflightReceipts ==
  /\ In("utilityPreflight", "receipts")
  /\ \E records \in {IF Found(run.txs) THEN UtilityReceipts(chain, run.txs) ELSE <<>>} :
       Proceed(/\ records # <<>>
               /\ UtilityReceiptsHold(records, run.deploy.blocks, run.receiptHead)
               /\ UtilityTargetsHold(records),
               Reached("state", [records |-> records]))
  /\ OnlyUtilityRunChanges

ViewClock == run.view[Len(run.view)].clock

\* Code, schedule and links at the pinned block.
UtilityStateHolds(u) ==
  LET launchpad == CoreLaunchpad(run.core)
  IN /\ ScheduleHolds(u, run.records[1].clock)
     /\ UtilityRuntimesHold(u, run.txs, run.built, launchpad)
     /\ UtilityLinked(u, launchpad)

UtilityPreflightState ==
  /\ In("utilityPreflight", "state")
  /\ \E u \in {UtilityAt(run.view)} :
       Proceed(/\ UtilityStateHolds(u)
               /\ ValidateAmbientUtilityDeploymentAccounting(u)
               /\ CheckpointCurrent(u, ViewClock) /\ Solvent(u),
               [run EXCEPT !.stage = "recheck"])
  /\ OnlyUtilityRunChanges

\* The pinned block must still be canonical; this script does not wait for it to be final.
UtilityPreflightRecheck ==
  /\ In("utilityPreflight", "recheck")
  /\ Proceed(run.stateHead.number <= Latest /\ Header(run.stateHead.number) = run.stateHead,
             [script |-> "utilityPreflight", stage |-> IF run.remote THEN "passed" ELSE "rehearsed"])
  /\ OnlyUtilityRunChanges

UtilityPreflightEnds ==
  /\ run.script = "utilityPreflight" /\ run.stage \in {"passed", "rehearsed"}
  /\ run' = Idle
  /\ OnlyUtilityRunChanges

-----------------------------------------------------------------------------
(* promote-utility-v2-release-candidate.mjs, and the canary verifier it runs.  *)

AllStages(field) == stages["deploy"][field] \o stages["lock"][field] \o stages["boost"][field] \o stages["claim"][field]

\* The commits differ in nothing the scripts compare.
SameInputs(commit, other) == history[commit] = history[other] /\ book[commit] = book[other]

\* Fault: the broadcasts agree with each other, and HEAD need only be clean.
StagesAttributed(rehearsal) ==
  /\ \A stage \in Stages : SameInputs(stages["deploy"].commit, stages[stage].commit)
  /\ rehearsal \/ ~UtilityDirty

\* All four broadcasts and HEAD hold the sources and inputs of the deployment.
InputsAttributed(rehearsal) ==
  /\ \A stage \in Stages : SameInputs(stages["deploy"].commit, stages[stage].commit)
  /\ SameInputs(stages["deploy"].commit, head)
  /\ rehearsal \/ ~UtilityDirty

\* The terms are checked first, then git: the tree is taken not to change in between.
StartCandidate(rehearsal, remote) ==
  LET manifest == CurrentRelease(file)
  IN /\ run = Idle
     /\ rehearsal = ~remote
     /\ VerifyUtilityTerms
     /\ ValidateUtilityCoreManifest(manifest)
     /\ \A stage \in Stages : stages[stage].blocks # <<>>
     /\ InputsAttributed(rehearsal)
     /\ out = tree
     /\ ConstructorsHold(stages["deploy"].txs, CoreLaunchpad(manifest), out)
     /\ run' = [script |-> "utilityCanary", stage |-> "receiptHead", remote |-> remote, rehearsal |-> rehearsal,
                commit |-> stages["deploy"].commit, txs |-> AllStages("txs"), blocks |-> AllStages("blocks"),
                built |-> out, core |-> manifest, terms |-> terms.canonical]
     /\ OnlyUtilityRunChanges

UtilityCanaryReceipts ==
  /\ In("utilityCanary", "receipts")
  /\ \E records \in {IF Found(run.txs) THEN UtilityReceipts(chain, run.txs) ELSE <<>>} :
       Proceed(/\ records # <<>>
               /\ UtilityReceiptsHold(records, run.blocks, run.receiptHead)
               /\ UtilityTargetsHold(records),
               Reached("stateHead", [records |-> records]))
  /\ OnlyUtilityRunChanges

UtilityCanaryState ==
  /\ In("utilityCanary", "state")
  /\ \E u \in {UtilityAt(run.view)} :
       Proceed(/\ UtilityStateHolds(u)
               /\ ValidateUtilityV2CanaryEvidence(run.records, u, CoreCanary(run.core, run.view), ViewClock),
               [run EXCEPT !.stage = "recheck"])
  /\ OnlyUtilityRunChanges

UtilityCanaryRecheck ==
  /\ In("utilityCanary", "recheck")
  /\ Proceed(run.stateHead.number <= Latest /\ Header(run.stateHead.number) = run.stateHead,
             [run EXCEPT !.stage = IF run.remote THEN "finality" ELSE "emit"])
  /\ OnlyUtilityRunChanges

UtilityConfirmFinality ==
  /\ In("utilityCanary", "finality")
  /\ final >= run.stateHead.number
  /\ Proceed(AssertStateEvidenceFinalized(Header(final), run.stateHead, Header(run.stateHead.number)),
             [run EXCEPT !.stage = "emit"])
  /\ OnlyUtilityRunChanges

UtilityFinalityTimeout ==
  /\ In("utilityCanary", "finality")
  /\ final < run.stateHead.number
  /\ run' = Idle
  /\ OnlyUtilityRunChanges

\* Eight receipts, no two the same, none after the block the state was read at.
BuildUtilityV2ReleaseCandidate ==
  [productionAllowed |-> ~run.rehearsal, sourceCommit |-> run.commit, core |-> run.core.release,
   receipts |-> run.txs, linkage |-> run.stateHead, terms |-> run.terms]

CandidateWellFormed ==
  /\ Len(run.txs) = Len(UtilityLabels) /\ IsInjective(run.txs)
  /\ run.stateHead.number >= run.records[Len(run.records)].blockNumber

EmitCandidate ==
  /\ In("utilityCanary", "emit")
  /\ candidate' = IF CandidateWellFormed THEN BuildUtilityV2ReleaseCandidate ELSE candidate
  /\ run' = Idle
  /\ OnlyRunChanges /\ UNCHANGED <<stages, terms, writing, book>>

=============================================================================
