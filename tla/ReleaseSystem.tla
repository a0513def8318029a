------------------------------ MODULE ReleaseSystem ------------------------------
(* The release of generation 4 as a whole: the chain, other accounts on it, the *)
(* operator's tree and broadcasts, the deployment preflight and the promoter.   *)
EXTENDS ReleasePromotion

\* What other accounts may add to a block: a blueprint, a trade of the token, a stray transfer.
Strangers ==
  LET n == Cardinality({tx \in Mined(chain) : tx.from = "stranger"}) + 1
      launched == {tx \in Succeeded(chain) : tx.call = "launchInstantWithIntent"}
  IN {<<>>}
     \cup {<<StrangerTransaction(n, "saveBlueprint", tx.nonce)>> : tx \in {c \in Succeeded(chain) : c.call = "launchpad"}}
     \cup {<<StrangerTransaction(n, "trade", tx.nonce)>> : tx \in launched}
     \cup {<<StrangerTransaction(n, "transfer", tx.nonce)>> : tx \in {c \in Succeeded(chain) : c.call = "router"}}

Mine ==
  \E next \in Prefixes(Pending), strangers \in Strangers, tick \in 0..1 :
    Grow(strangers, next, BlockAt(Latest).clock + tick)

ChainNext == (Mine \/ AdvanceSafe \/ AdvanceFinal \/ Reorganise) /\ UNCHANGED workVars

\* The transactions that are a canary step as the script sends it.
Candidates(i) ==
  {tx \in ToSet(sent) : tx.call = CanarySteps[i] /\ ~tx.fails /\ tx.args[Len(tx.args)] = "spec"}

\* The canary's artifact as Forge writes it, or assembled by hand: bound: with at most one label
\* that names something else the deployer sent, or that only a rehearsal's fork has.
RecordAnyCanary ==
  /\ Missing = {}
  /\ \E a \in Candidates(1), b \in Candidates(2), c \in Candidates(3), d \in Candidates(4),
        i \in DOMAIN CanarySteps, commit \in {head, deployRun.commit} :
       \E tx \in ToSet(sent) \cup {Rehearsed(CanarySteps[i])} :
         RecordCanary([<<a, b, c, d>> EXCEPT ![i] = tx], commit)

WorkspaceNext ==
  \/ EditSources
  \/ Commit
  \/ Checkout
  \/ Build
  \/ RetainRelease
  \/ BroadcastDeploy
  \/ RecordDeploy
  \/ ScriptedCanary
  \/ HandCanary
  \/ Interrupt

ReleaseInit ==
  /\ chain = <<[hash |-> <<1, 0>>, txs |-> <<>>, clock |-> 1]>>
  /\ safe = 1 /\ final = 1 /\ fork = 0 /\ sent = <<>>
  /\ tree \in Sources /\ history = <<tree>> /\ head = 1 /\ out = tree
  /\ file = [retained |-> <<Expanded(Promotes - 1, <<>>)>>, registry |-> <<Promotes - 1>>, current |-> Alias(Promotes - 1)]
  /\ deployRun = NoRun /\ canaryRun = NoRun /\ run = Idle
  /\ faults = 0 /\ interrupts = 0

ReleaseNext == ChainNext \/ WorkspaceNext \/ RecordAnyCanary \/ PreflightNext \/ PromotionNext

ReleaseSpec == ReleaseInit /\ [][ReleaseNext]_vars

-----------------------------------------------------------------------------

\* The records of the generation the promoter writes, in CURRENT or retained.
Releases ==
  {m.release : m \in {r \in ToSet(file.retained) \cup {file.current} : r.form = "expanded" /\ r.version = Promotes}}

(* The block whose state a published release names is final and canonical, for  *)
(* ever: whatever the chain did while the promoter read it and waited.          *)
PublishedStateIsFinal ==
  \A release \in Releases :
    /\ release.readback.number <= final
    /\ Header(release.readback.number) = release.readback

(* Every receipt a release lists stands on the final chain at or below that     *)
(* block, in the order of the labels, sent by the deployer and successful; the  *)
(* release begins with its launchpad; the four canary receipts are one guarded  *)
(* round trip of one token; the library, launchpad, hook, router and blueprint  *)
(* receipts did what their labels say.                                          *)
PublishedReceiptsStand ==
  \A release \in Releases :
    LET receipts == ReceiptsOf(release.receipts)
        labels == DeploySteps \o CanarySteps
    IN /\ Found(release.receipts)
       /\ \A i \in DOMAIN receipts :
            /\ receipts[i].blockNumber <= release.readback.number
            /\ receipts[i].tx.from = "deployer" /\ ~receipts[i].tx.fails
            /\ i # 5 => receipts[i].tx.call = labels[i]
            /\ i > 1 => Before(receipts[i - 1], receipts[i]) /\ receipts[i].blockNumber >= release.deployBlock
       /\ receipts[Launchpad].blockNumber = release.deployBlock
       /\ receipts[Buy].tx.args[1] = receipts[Launch].tx.nonce /\ receipts[Buy].event = 1
       /\ receipts[Sell].tx.args[1] = receipts[Launch].tx.nonce

(* The code at the release's addresses was built from the contract sources of   *)
(* the commit the release names, which are the reviewed ones, however HEAD, the *)
(* working tree and the compiler's output moved between broadcast and promotion. *)
PublishedSourceIsDeployed ==
  \A release \in Releases :
    /\ history[release.sourceCommit] = Reviewed
    /\ \A i \in 1..4 :
         LET live == CodeAt(chain, release.receipts[i].nonce)
         IN live[1] = history[release.sourceCommit]

(* A published record is never lost, changed or replaced: the file keeps every  *)
(* record it ever held, one to a generation, and lists it for readers.  Checking *)
(* another commit out is the one way back.                                      *)
RecordsStand ==
  [][LET records(f) == {r \in ToSet(f.retained) \cup {f.current} : r.form = "expanded"}
     IN head' = head =>
        /\ records(file) \subseteq records(file')
        /\ \A r, q \in records(file') : r.version = q.version => r = q
        /\ ToSet(file.registry) \subseteq ToSet(file'.registry)
        /\ {r.version : r \in ToSet(file'.retained)} = ToSet(file'.registry)]_vars

(* run-canary.sh spends the intent only on a deployment that is final, wired,   *)
(* built from the reviewed sources, and whose house blueprints have the numbers *)
(* the site will read them under.                                               *)
CanaryOnFinalDeployment ==
  [][run # Idle /\ run' = Idle /\ sent' # sent =>
       LET txs == deployRun.txs
       IN /\ Found(txs)
          /\ \A i \in DOMAIN txs : HeightOf(chain, txs[i]) <= final /\ ~txs[i].fails
          /\ \A i \in 1..HouseBlueprints : BlueprintId(chain, txs[FirstBlueprint + i - 1]) = i
          /\ HookOf(chain, txs[Launchpad].nonce) = txs[3].nonce
          /\ \A i \in 1..4 : txs[i].source = Reviewed]_vars

=============================================================================
