------------------------------- MODULE MCRelease -------------------------------
(* Instances of ReleaseSystem and of UtilitySystem for TLC.  A behaviour of the *)
(* core's release looks at reorganisations, at the artifacts and endpoints the  *)
(* scripts are given, or at the sources; one of the utilities' release looks at *)
(* the canary's stages among other accounts, at the other accounts alone, or at *)
(* the sources and the terms.                                                   *)
EXTENDS UtilitySystem

CONSTANTS Focuses,      \* the parts a run looks at
          MaxCoreBlocks \* bound: the longest chain in which the core is released

VARIABLE focus

StrangersMined(blocks) == {tx \in Mined(blocks) : tx.from = "stranger"}

Grown == Len(chain') > Len(chain)

Starts == run = Idle /\ run' # Idle

\* What is sent is mined together, or all but one transaction in a block before.
ReorgsInFocus ==
  /\ Grown => Len(sent) - Nonces(chain') <= 1 /\ chain'[Len(chain')].clock = 1
  /\ Grown => chain'[Len(chain')].txs # <<>> \/ (Missing = {} /\ Pending = <<>>)
  /\ Grown => StrangersMined(chain') = {}
  /\ fork' + interrupts' <= 1 /\ (fork' # fork => run # Idle)
  /\ safe' \in {safe, Len(chain')} /\ final' \in {final, safe}
  /\ sent' # sent /\ deployRun' = deployRun => run # run'
  /\ Starts => run'.remote /\ ("dry" \in DOMAIN run' => ~run'.dry)
  /\ UNCHANGED <<tree, history, head, faults>>
  /\ Starts /\ run'.script = "preflight" => CanarySteps[1] \notin {tx.call : tx \in ToSet(sent)}

\* The heads follow at once, and no script runs before they have.
StillInFocus ==
  /\ Grown => Len(sent) = Nonces(chain') /\ chain'[Len(chain')].txs # <<>>
  /\ safe' \in {safe, Len(chain)} /\ final' \in {final, Len(chain)} /\ final' # final => safe = Len(chain)
  /\ Starts => final = Len(chain) /\ Nonces(chain) = Len(sent)
  /\ run # Idle => UNCHANGED <<chain, safe, final, tree, out, head, deployRun, canaryRun>>
  /\ UNCHANGED <<fork, interrupts>>
  /\ Starts /\ run'.script = "preflight" => CanarySteps[1] \notin {tx.call : tx \in ToSet(sent)}

ArtifactsInFocus ==
  /\ UNCHANGED <<tree, history, head>>
  /\ Grown => Cardinality(StrangersMined(chain')) <= 1 /\ chain'[Len(chain')].clock <= 2
  /\ sent' # sent /\ deployRun' = deployRun => run # run' \/ 1 \notin Missing

SourcesInFocus ==
  /\ Grown => StrangersMined(chain') = {} /\ chain'[Len(chain')].clock = 1
  /\ UNCHANGED faults
  /\ Starts => run'.remote

Recorded ==
  \A stage \in Stages :
    stages[stage] # NoRun /\ Found(stages[stage].txs) => stages[stage].blocks # <<>>

\* The heads move when nothing runs, or while a script has yet to read or is waiting.
HeadsMove == run = Idle \/ run.stage \in {"stateHead", "finality"}

\* The chain goes on when nothing runs, its blocks are final, and artifacts are recorded.
Settled == run = Idle /\ final = Latest /\ Recorded

\* The blocks that hold the deployer's transactions later than they were sent.  A boost sent by hand
\* may always be late: its deadline is so far off that the block is still before it.
Late(blocks) ==
  LET looseBoost(tx, clock) == tx.call = "approveBoost" \/ (tx.call = "boost" /\ tx.args[2] > clock)
  IN {n \in 2..Len(blocks) :
        /\ blocks[n].clock > blocks[n - 1].clock
        /\ \E tx \in ToSet(blocks[n].txs) : tx.from = "deployer" /\ ~looseBoost(tx, blocks[n].clock)}

Disturbances ==
  Cardinality(Late(chain)) + faults + fork
    + IF \A tx \in StrangersMined(chain) : tx.call = "boost" THEN 0 ELSE Cardinality(StrangersMined(chain))

\* An epoch is waited out when its stage is sent.
WaitedOut(stage) == stages[stage] # NoRun /\ Pending = <<>>

Waits ==
  LET epoch == EpochNow(UtilityHead)
  IN WaitedOut(CASE epoch = 0 -> "lock" [] epoch = 1 -> "boost" [] OTHER -> "claim")

\* What is sent is mined together, at once or late; only waiting takes a block of its own; and one
\* thing disturbs the release: other accounts, a stage sent by hand, a late block, a reorganisation.
UtilityInFocus ==
  /\ Grown => /\ Nonces(chain') \in {Nonces(chain), Len(sent)}
              /\ Nonces(chain') = Nonces(chain) => chain'[Len(chain')].clock = ClockNow + BootstrapLength /\ Waits
  /\ Grown \/ fork' # fork \/ faults' # faults =>
       Disturbances' <= 1 /\ Cardinality(StrangersMined(chain')) <= MaxActiveBoosts
  /\ safe' \in {safe, Len(chain')} /\ final' \in {final, safe}
  /\ fork' # fork => run # Idle
  /\ safe' > safe \/ final' > final => HeadsMove
  /\ Starts => run'.remote /\ (final = Latest \/ Disturbances = 0)
  /\ Starts /\ run'.script = "utilityPreflight" => stages["lock"] = NoRun
  /\ faults' # faults => Settled /\ Pending = <<>>
  /\ UNCHANGED <<interrupts, tree, out, head, terms, writing, book, file>>

\* What differs from the first commit, in the tree or in a commit.
Edited ==
  {input \in {"sources", "terms", "file"} :
     CASE input = "sources" -> ToSet(history') \cup {tree'} # {history[1]}
       [] input = "terms" -> {b.terms : b \in ToSet(book')} \cup {terms'} # {book[1].terms}
       [] OTHER -> {b.file : b \in ToSet(book')} \cup {file'} # {book[1].file}}

\* Nobody else is about, and the heads follow at once.  Commits are made before the deployment; after
\* it the tree and the terms may stray from the commit, and another commit may be checked out.
TermsInFocus ==
  /\ Grown => /\ StrangersMined(chain') = {}
              /\ Nonces(chain') = Len(sent)
              /\ chain'[Len(chain')].clock = ClockNow + (IF Pending = <<>> THEN BootstrapLength ELSE 0)
              /\ Pending = <<>> => Waits
  /\ safe' \in {safe, Len(chain')} /\ final' \in {final, Len(chain)} /\ final' # final => safe = Len(chain)
  /\ UNCHANGED <<chain, safe, final>> => final = Latest /\ Pending = <<>>
  /\ Starts => stages["claim"] # NoRun
  /\ Starts /\ run'.script = "utilityPreflight" => ~run'.remote /\ Len(history) = 1
  /\ Cardinality(Edited) <= 1
  /\ run # Idle => UNCHANGED <<chain, tree, out, stages, terms, book, file>>
  /\ sent' # sent => book[head] = Inputs /\ writing = 0 /\ run = Idle
  /\ stages["deploy"] # NoRun => /\ UNCHANGED <<writing, book>>
                                 /\ head' = head => UNCHANGED file
  /\ stages["deploy"] # NoRun /\ stages["claim"].blocks = <<>> => UNCHANGED <<tree, out, terms>> \/ head' # head
  /\ interrupts' # interrupts => run.stage = "emit"
  /\ UNCHANGED <<fork, faults>>

\* Other accounts use the contracts while the release waits: no scripts, and the heads stay.  A block
\* waits for nothing or for the next period.  Five calls let two locks and two boosts meet a claim.
AmbientInFocus ==
  /\ Grown => /\ Nonces(chain') = Len(sent)
              /\ chain'[Len(chain')].clock \in {ClockNow, ClockNow + BootstrapLength}
              /\ Pending # <<>> => chain'[Len(chain')].clock = ClockNow /\ StrangersMined(chain') = {}
              /\ Pending = <<>> => StrangersMined(chain') # StrangersMined(chain)
              /\ \A call \in {"lock", "boost", "claim"} :
                   Cardinality({tx \in StrangersMined(chain') : tx.call = call}) <= 2
              /\ Cardinality({tx \in StrangersMined(chain') : tx.call \in {"checkpoint", "transfer"}}) <= 1
  /\ Cardinality(StrangersMined(chain')) <= 5
  /\ UNCHANGED <<safe, final, fork, tree, terms, book, file, run, writing>>
  /\ stages' # stages => stages'["deploy"] # NoRun /\ stages'["deploy"].blocks = <<>> /\ stages["deploy"] = NoRun
  /\ UNCHANGED <<faults, interrupts>>

CoreFocuses == {"reorgs", "artifacts", "sources"}

\* The canary's artifact as Forge writes it.
ScriptedRecord(commit) ==
  /\ Missing = {}
  /\ \E a \in Candidates(1), b \in Candidates(2), c \in Candidates(3), d \in Candidates(4) :
       RecordCanary(<<a, b, c, d>>, commit)

PreflightStep ==
  PreflightReceiptHead \/ PreflightStateHead \/ PreflightReceipts \/ PreflightState \/ PreflightRecheck

PromotionStep ==
  \/ PromotionReceiptHead \/ PromotionStateHead \/ PromotionFirstPass \/ PromotionRuntimes
  \/ PromotionReceipts \/ PromotionState \/ PromotionRecheck \/ ConfirmFinality
  \/ FinalityTimeout \/ WriteManifest

InFocus ==
  CASE focus = "reorgs" -> ReorgsInFocus
    [] focus = "artifacts" -> StillInFocus /\ ArtifactsInFocus
    [] focus = "sources" -> StillInFocus /\ SourcesInFocus
    [] focus = "utility" -> UtilityInFocus
    [] focus = "terms" -> TermsInFocus
    [] focus = "ambient" -> AmbientInFocus

\* The core's release needs fewer blocks than the utilities'.
BlocksInFocus == focus \in CoreFocuses => Len(chain') <= MaxCoreBlocks

CoreInit ==
  /\ ReleaseInit /\ focus \in Focuses \cap CoreFocuses
  /\ focus # "sources" => tree = Reviewed
  /\ stages = [stage \in Stages |-> NoRun]
  /\ terms = [canonical |-> 1, public |-> 1, artifact |-> 1] /\ writing = 0
  /\ book = <<>> /\ candidate = NoCandidate

MCInit == CoreInit \/ (UtilityInit /\ focus \in Focuses \ CoreFocuses)

\* The canary's artifact is assembled by hand where that is looked at, once everything is final.
RecordInFocus ==
  \/ focus = "artifacts" /\ run = Idle /\ canaryRun = NoRun /\ final = Latest /\ Pending = <<>> /\ RecordAnyCanary
  \/ focus = "reorgs" /\ ScriptedRecord(deployRun.commit)
  \/ focus = "sources" /\ canaryRun = NoRun /\ \E commit \in {head, deployRun.commit} : ScriptedRecord(commit)

CoreNext ==
  /\ focus \in CoreFocuses
  /\ \/ (focus = "reorgs" \/ run = Idle) /\ ChainNext
     \/ WorkspaceNext \/ RecordInFocus \/ PreflightNext \/ PromotionNext
  /\ UNCHANGED utilityVars

\* What AmbientInFocus leaves room for.
MoreToMine == Pending # <<>> \/ Cardinality(StrangersMined(chain)) < 5

UtilitiesNext ==
  /\ focus \notin CoreFocuses /\ candidate = NoCandidate
  /\ \/ (IF focus = "ambient" THEN MoreToMine ELSE Settled) /\ UtilityChainNext
     \/ focus # "ambient" /\ (UtilityHeadsNext \/ UtilityTreeNext \/ UtilityScriptNext)
     \/ UtilityBroadcastNext

MCNext == (CoreNext \/ UtilitiesNext) /\ InFocus /\ BlocksInFocus /\ UNCHANGED focus

(* The chain keeps mining what is sent and its heads keep following; the        *)
(* operator carries the release through, running a script again when it failed. *)
MCFairness ==
  LET Honest(A) == focus = "reorgs" /\ A /\ UNCHANGED <<utilityVars, focus>>
      Chain(A) == Honest(A /\ UNCHANGED workVars)
  IN /\ WF_vars(Chain(Pending # <<>> /\ Latest < MaxCoreBlocks /\ Grow(<<>>, Pending, 1)))
     /\ WF_vars(Chain(AdvanceSafe /\ safe' = Latest))
     /\ WF_vars(Chain(AdvanceFinal /\ final' = safe))
     /\ WF_vars(Honest(BroadcastDeploy))
     /\ WF_vars(Honest(RecordDeploy))
     /\ SF_vars(Honest(Missing # {} /\ StartPreflight(FALSE, TRUE)))
     /\ SF_vars(Honest(ScriptedCanary))
     /\ WF_vars(Honest(canaryRun = NoRun /\ ScriptedRecord(deployRun.commit)))
     /\ SF_vars(Honest(StartPromotion(FALSE, TRUE)))
     /\ WF_vars(Honest(PreflightStep \/ PromotionStep))

MCSpec == MCInit /\ [][MCNext]_<<vars, utilityVars, focus>> /\ MCFairness

(* An honest release opens: whatever is reorganised, however often a script is  *)
(* interrupted or times out, its manifest is published in the end.              *)
HonestReleaseOpens == focus = "reorgs" => <>(Releases # {})

=============================================================================
