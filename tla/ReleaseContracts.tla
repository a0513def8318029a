----------------------------- MODULE ReleaseContracts -----------------------------
(* What the deployer's transactions do on the chain, as far as the scripts of *)
(* generation 3 look at it: the contracts a deployment creates, the blueprints *)
(* it saves, and the canary's launch, buy, approval and sell.  An address is   *)
(* the nonce of the transaction that created the contract.                     *)
EXTENDS ReleaseChain, RuntimeTemplate

CONSTANTS HouseBlueprints, \* how many house blueprints a deployment saves
          GuardBlocks,     \* how long after the launch a buy is guarded, on the chain's clock
          Sources,         \* versions of the contract sources
          Reviewed         \* the version the scripts' anchors were derived from

ASSUME BlueprintAssumption == HouseBlueprints \in Nat

ASSUME SourceAssumption == Sources \subseteq Nat \ {0} /\ Reviewed \in Sources

\* Addresses that are not the deployer's contracts; NoAddress is a creation's target.
PoolManager == -1
Create2Deployer == -2
NoAddress == -3

\* What an unlinked template holds where a library's address goes.
Placeholder == -4

CreatedContracts == {"launchpadLib", "launchpad", "hook", "router"}

DeploySteps ==
  <<"launchpadLib", "launchpad", "hook", "router", "setHook">>
    \o [i \in 1..HouseBlueprints |-> "saveBlueprint"]

CanarySteps == <<"launchInstantWithIntent", "buy", "approve", "sell">>

\* The place of each label in the release's receipts.
Launchpad == 2
FirstBlueprint == 6
Launch == Len(DeploySteps) + 1
Buy == Len(DeploySteps) + 2
Approval == Len(DeploySteps) + 3
Sell == Len(DeploySteps) + 4

\* A transaction: who sent it, what it calls, on what, with which arguments, and whether it reverts.
Transaction(from, nonce, call, to, args, source, fails) ==
  [from |-> from, nonce |-> nonce, call |-> call, to |-> to, args |-> args, source |-> source, fails |-> fails]

\* What the deploy script sends, its first transaction having the given nonce.
DeployTransactions(first, source) ==
  LET lib == first
      launchpad == first + 1
      hook == first + 2
      args(i) == CASE i = 1 -> <<lib>>
                   [] i = 2 -> <<PoolManager>>
                   [] i = 3 -> <<PoolManager, launchpad>>
                   [] i = 4 -> <<PoolManager, hook>>
                   [] i = 5 -> <<hook>>
                   [] OTHER -> <<i - 5>>
      to(i) == IF i \in {1, 3} THEN Create2Deployer ELSE IF i \in {2, 4} THEN NoAddress ELSE launchpad
  IN [i \in DOMAIN DeploySteps |-> Transaction("deployer", first + i - 1, DeploySteps[i], to(i), args(i), source, FALSE)]

\* A canary step as its script sends it; `bound` is the slippage bound and the amounts it signs.
CanaryTransaction(i, nonce, launchpad, router, token, bound, fails) ==
  LET to == CASE i = 1 -> launchpad
              [] i = 3 -> token
              [] OTHER -> router
      args == CASE i = 1 -> <<bound>>
                [] i = 3 -> <<router, bound>>
                [] OTHER -> <<token, bound>>
  IN Transaction("deployer", nonce, CanarySteps[i], to, args, 0, fails)

\* What another account does in between: a blueprint of its own, or a trade.
StrangerTransaction(nonce, call, to) == Transaction("stranger", nonce, call, to, <<>>, 0, FALSE)

-----------------------------------------------------------------------------
(* The state at a block, read off the transactions its hash commits to.       *)

Succeeded(blocks) == {tx \in Mined(blocks) : ~tx.fails}

Creation(blocks, address) ==
  {tx \in Mined(blocks) : tx.nonce = address /\ tx.from = "deployer" /\ ~tx.fails /\ tx.call \in CreatedContracts}

\* The compiler's artifact of a contract at a version of the sources: one opening cell that tells
\* the versions apart, then an immutable word for each constructor address, or a link.
ArtifactOf(contract, source) ==
  [target |-> contract,
   settings |-> ReviewedSettings,
   object |-> CASE contract = "launchpadLib" -> <<source, 0, 0>>
                [] contract = "launchpad" -> <<source, 0, 0, Placeholder>>
                [] OTHER -> <<source, 0, 0, 0, 0>>,
   immutables |-> IF contract \in {"launchpadLib", "launchpad"}
                  THEN {{[start |-> 2, length |-> 2]}}
                  ELSE {{[start |-> 2, length |-> 2]}, {[start |-> 4, length |-> 2]}},
   links |-> [l \in IF contract = "launchpad" THEN {"launchpadLib"} ELSE {} |-> {[start |-> 4, length |-> 1]}]]

\* The launchpad is linked to the library of its own broadcast, one nonce before it.
RuntimeOf(tx) ==
  CASE tx.call = "launchpad" -> <<tx.source, 0, tx.args[1], tx.nonce - 1>>
    [] tx.call = "launchpadLib" -> <<tx.source, 0, tx.args[1]>>
    [] OTHER -> <<tx.source, 0, tx.args[1], 0, tx.args[2]>>

HasCode(blocks, address) == Creation(blocks, address) # {}

CodeAt(blocks, address) == RuntimeOf(CHOOSE tx \in Creation(blocks, address) : TRUE)

\* The hook a launchpad was given: setHook works once.
HookOf(blocks, launchpad) ==
  LET calls == {tx \in Succeeded(blocks) : tx.call = "setHook" /\ tx.to = launchpad}
  IN IF calls = {} THEN 0 ELSE (CHOOSE tx \in calls : TRUE).args[1]

BlueprintsOf(blocks, launchpad) ==
  {tx \in Succeeded(blocks) : tx.call = "saveBlueprint" /\ tx.to = launchpad}

\* Blueprints are numbered in the order they are saved, whoever saves them.
BlueprintId(blocks, tx) ==
  Cardinality({saved \in BlueprintsOf(blocks, tx.to) : ~Before(ReceiptIn(blocks, tx), ReceiptIn(blocks, saved))})

ClockOf(blocks, tx) == ReceiptIn(blocks, tx).clock

\* The token an intent resolves to: a launch consumes its intent.
TokensOfIntent(blocks, launchpad, intent) ==
  {tx.nonce : tx \in {l \in Succeeded(blocks) : l.call = "launchInstantWithIntent" /\ l.to = launchpad /\ l.args[1] = intent}}

LaunchOf(blocks, token) ==
  {tx \in Succeeded(blocks) : tx.call = "launchInstantWithIntent" /\ tx.from = "deployer" /\ tx.nonce = token}

\* A buy pays the guard's fee only this soon after its token's launch.
Guarded(blocks, buy) ==
  \E launch \in LaunchOf(blocks, buy.args[1]) : ClockOf(blocks, buy) - ClockOf(blocks, launch) < GuardBlocks

\* What a transaction's logs tell: the blueprint's number, the launched token, the guarded fee.
EventOf(blocks, tx) ==
  CASE tx.fails -> 0
    [] tx.call = "saveBlueprint" /\ ~tx.fails -> BlueprintId(blocks, tx)
    [] tx.call = "launchInstantWithIntent" /\ ~tx.fails -> tx.nonce
    [] tx.call = "buy" /\ ~tx.fails -> IF Guarded(blocks, tx) THEN 1 ELSE 0
    [] OTHER -> 0

Receipt(blocks, tx) ==
  LET r == ReceiptIn(blocks, tx)
  IN [x \in DOMAIN r \cup {"event"} |-> IF x = "event" THEN EventOf(blocks, tx) ELSE r[x]]

\* The token's cumulative hook ledger: every trade adds to it.
HookFees(blocks, token) ==
  Cardinality({tx \in Succeeded(blocks) : \/ tx.call \in {"buy", "sell"} /\ tx.args[1] = token
                                          \/ tx.call = "trade" /\ tx.to = token})

\* Tokens or ether anybody left with a contract that should hold none.
Strays(blocks, contract) == {tx \in Succeeded(blocks) : tx.call = "transfer" /\ tx.to = contract}

=============================================================================
