# TLA+ models of the Hookr contracts

Hookr is a set of Solidity contracts around one shared Uniswap v4 hook. A
creator launches a token on one to eight pools in one transaction and freezes
each pool's rules at launch; a registry, run by an owner behind a timelock and
a guardian with brakes, decides what may be frozen in *later* pools. This
directory models the parts whose correctness depends on the order of many calls
by several accounts, checks them with TLC on small instances, and proves the
central results with TLAPS for every value of the constants.

Two bodies of code are modelled. The contracts of `hookr-1/`, the release that
runs on chain; and the release programs of `legacy/generation-3/scripts/`, which
decide, from receipts and state that move while they read, whether a deployment
may be opened to the public. The contracts at the top of the repository's `src/`
and the rest of `legacy/` are earlier generations; `bench/`, `labs/`,
`deployments/` and `snapshots/` hold measurements and records.

Contents: [parts](#the-parts-of-the-system), [modules](#modules-and-what-they-correspond-to),
[runs](#what-each-run-checks-and-shows), [bounds and fairness](#bounds-and-fairness),
[proofs](#what-is-proved), [disagreements](#where-the-code-and-its-comments-differ), [left out](#what-is-not-modelled-and-why), [plan](#plan).

## The parts of the system

Every call happens inside one transaction, which either applies all of its
writes or none. Concurrency is the interleaving of transactions by accounts that
do not cooperate, plus calls back into the contracts from inside one
transaction: the PoolManager calls the hook, the hook calls Rules, the lane calls
an executor nobody at Hookr wrote, tokens call their receivers. Time moves only
between blocks, and many transactions share a timestamp.

| Part | State | Operations | Must be true |
| --- | --- | --- | --- |
| `HookrRegistry` with `RegistryAdmin`, `RegistryChecks` | queued operations, roles, launchers, roots, root factories, pause, quote catalog and classes, settlement set, lanes and switches, admissions, revocations, bonds, external-hook records | 40 entry points: `queue`, `cancel`, the timed operations, the brakes, the factories' registrations | a brake holds a full delay whatever was queued before it; indexes match their arrays; a frozen or owned root never gains a permission; revocation is final; the guardian only restricts |
| `HookrGoverned` (and `HookrCompliance`, `HookrFeeAdvisory`, `HookrSessionAdvisory`, `HookrLpBoost`, `HookrPrograms`, `HookrPaymaster`, which inherit or repeat it) | owner, nominee, ready times, an epoch per subject | `queue`, `cancel`, consume, `_invalidateQueued`, handover | the same promise as the registry's, by epochs instead of timestamps |
| `HookrRoot`, `HookrLane` | per-pool frozen configuration, transient swap frame, principal locks, receipts, lane freeze, route gas ledger, King liquidity ledger | the hook callbacks, `initializePool`, arb-recapture frames, the lane's legs and settlement, sweeps | frames nest and unwind; what a swap takes equals what it settles to the Rules; an executor can skip no recapture and take no more than its share; principal stays locked |
| `HookrRules`, `HookrRecapture` | per-pool rules and anchors, claims per beneficiary and currency, totals, pots, pending donations | `bind`, `beforeSwap`, `settleSwap`, claims, `flushRecapture`, `settleEpoch`, `claimPool` | claims never exceed the PoolManager claims held; a pot is paid once to one winner; a donation releases no faster than its schedule |
| `HookrTreasury` | target, nominee, proposals (share floor, integrators, minimum fees, owned-root fee), sources | propose, cancel, accept, collect, forward | a proposal takes effect only after its delay and before it lapses; a handover clears pending proposals |
| `HookrLauncher`, `HookrFamilyLock`, `HookrFamilyRelease`, `HookrFamilyRouter`, `HookrRouter` | families and members, principal lock, ownership handover with claims; locks and their beneficiaries | launches, add, withdraw, transfer and accept, lock, release, sweep | principal does not leave a locked family; a handover moves rights once; idle balances are zero |
| `HookrLpBoost` | gauges, tranches, boosts, per-weight accumulator | notify, fund, stake, extend, withdraw, poke, pause | rewards paid never exceed rewards funded; weights and rates match the boosts and tranches still running |
| `HookrLiquidityVault` | shares per range, fee accumulators, claims, skim | deposit, withdraw, claim, poke, transfer | fees go to the shares outstanding when they were realised; liabilities are covered |
| `HookrPrograms`, `HookrProgramValidator`, `HookrReferralDistributor`, `HookrReferralRegistry`, `HookrMilestoneNFT` | budgets, daily proposals with versions, reservations, credits, caps | create, propose a day, challenge, approve, finalize, lapse, claim, release remainders | funded = paid + reserved + refundable at all times; a vetoed version pays only if that version is approved |
| `HookrPaymaster`, `HookrForwarder` | credits, token credits, precharges, revenue, rebate budget; brakes by kind | validation, `postOp`, deposits, withdrawals, configuration | ledgers sum to what the contract holds; one operation is settled once |
| `HookrRootFactory`, `HookrOwnedRootFactory`, `HookrPairRoot`, `HookrOwnedProfiles` | deployed roots and salts, owners, pause and public opening | `deploy`, `setPaused`, handover, `writeProfile`, `adoptPool` | a root is registered in the transaction that deploys it; a pool opens only where its owner allows |
| Hook Blocks (`hook-blocks/`, 21 folders) | each its own vault, queue or book | limit orders, pay later, vesting milestones, directional tax queue, recovery reserve, module market, fee bridges, zap vaults, revenue split and router, ... | each vault's liabilities are covered and each order, milestone or loan is settled once |
| Revenue tokenizers (`revenue-tokenizer/`, `revenue-tokenizer-4/`) | locked rights, income ledger, balance history, time shares | lock, sync, claim, wrap, unlock | income is paid once to who held the share when it was earned |
| Release programs (`legacy/generation-3/scripts/`) | a manifest source file; what a running script has read so far (heads, receipts, a pinned state hash); around them the chain, the git tree, the compiler's output, the broadcasts' artifacts | deployment preflight, canary, promotion; for the utilities the preflight, a canary in three stages and the candidate | only what is final is published, from one commit whose sources are the reviewed ones and the deployed ones; a published record is never lost; other accounts cannot spoil the evidence of a canary that succeeded |
| `HookrLockRewardsV2`, `HookrLaunchBoostV2` (`legacy/generation-3/`) | epochs, a reward index, pot, reserve and carry; positions; boosts | `lock`, `boost`, `claim`, checkpoints, the one-shot link | what the candidate's verifier computes is what the contracts did |
| Rules variants (`king-of-the-pool-whole-pot/`, `wallet-cap/`) | as `HookrRules` plus a per-wallet purchase count | as `HookrRules` | as `HookrRules`; a wallet's purchases stay under the cap during the guard |
| Lenses, quoters, `CREATE3` deployment | none that persists | views | agree with what they read |

How they interact. A launch goes `HookrLauncher` to `HookrRoot.initializePool`,
which asks `HookrRegistry` whether the launcher, the root, the quote and every
module are admitted and copies the answer into the pool, so the registry governs
later pools only. A swap goes router, `PoolManager`, `HookrRoot`, which asks
`HookrRules` for a fee, its advisories for a surcharge and its gates for
permission, and on a lane pool calls the executor inside a gas-capped frame
before and after. Rules keep what the swap took as claims; `HookrTreasury`,
creators and integrators claim later. The factories call back into the registry
in the transaction that deploys a root.

A release goes: Forge broadcasts ten transactions from a commit; the preflight
reads them back through an RPC endpoint, and only then `run-canary.sh` signs the
four transactions of a canary (launch, buy, approval, sell); the promoter reads
all fourteen back, pins one safe block hash, reads code and state there, waits
until that hash is final, and replaces `CURRENT` in the manifest file. The
utilities' release builds on the published core: three deployment transactions,
then a lock, a boost and a claim, each in an epoch of its own, then a verifier and
a printed candidate. Nothing is atomic: the chain grows, is reorganised and is
used by others between any two reads, and an operator may edit, commit, check out,
rebuild, retry or work by hand at any point.

What is hard to test here: an operation queued long before it runs, against
brakes, revocations, freezes and re-registrations that fall in between; the same
timestamp shared by a brake and a queueing; swap-and-pop arrays and their
indexes over long histories; a template whose admissions or bonds change before
they are copied; a lapsed bond that makes a stored admission read as empty
while the freeze it implies must outlast it; a signature submitted long after
its author's rights changed; two clocks that disagree (L2 blocks and seconds)
under a release schedule; a round trip and an epoch's end in one transaction;
a payment whose receiver calls back; a ring of checkpoints overwritten while
somebody may still ask about them; and remainders carried over long histories. For
the release programs: a block that is read and then replaced; a head that passes
another's height on a different fork; heads that are fetched one after the other;
artifacts that name transactions of an earlier broadcast, of a rehearsal's fork or
of another commit; sources rebuilt between the broadcast and the promotion; strangers
who trade, save blueprints, lock, boost and send tokens between the steps of a
canary; a canary that failed halfway and was finished by hand; transactions mined
after their epoch; a generator that dies between its two writes.

## Modules and what they correspond to

Operators whose comment starts with "Fault" are deliberate faults: the runs are
repeated with each put in the place of the definition it corrupts, and the
property must then fail. A variable described as a history variable stands for
no storage; no guard reads it.

### The registry

The registry is one contract over several tables. Each table is a module, all
over one timelock, and `HookrRegistry` composes them into the contract.

| Module | Models | Correspondence |
| --- | --- | --- |
| `RegistryTimelock` | `queue`, `_consume`, `cancel`, owner and guardian | An operation is the tuple of its kind and arguments, standing for its hash. `now` is `block.timestamp`, and one block may hold many steps. |
| `RegistryMarkets` | pause, launchers, roots, root factories, external-hook records | A set for each mapping to a flag, a record for `RootState`. `HoldsCode` models when a factory root's address first holds code. `heldSince` is a history variable: these brakes leave no timestamp in the code. |
| `RegistryQuotes` | quote catalog, quote classes, any-quote mode, settlement set | The array and the 1-based position mapping are both kept, and removal performs the code's swap and pop in its order of writes. |
| `RegistryLanes` | each root's lane and each executor's switch and gas cap | `_copyLane` is an operator used by owned-root registration. |
| `RegistryAdmissions` | admissions, revocations, bonds, part scopes, freezes | A bond's answer is an external variable that turns at any time. |
| `HookrRegistry` | the whole contract | One action per entry point; `By(caller)` is what one account can do, `ByFactory` what the factories do for anyone, `Environment` time and bonds. |
| `BrakedSwitches` | the abstract promise: a permission that a brake withdraws at once and only an announcement no older than the brake, aged a full delay, restores | |
| `HookrRegistryProperties`, `HookrRegistryProofs`, `MCHookrRegistry` | the properties and refinement mappings, the theorems, the instances | |

Checks on deployed code (codehash equality, permission flags, the registry and
PoolManager an address reports) depend on the address alone, so an instance
enumerates addresses that pass them. The terms of an admission are checked
against fixed ranges in the same way.

### Governance by epochs, and compliance

| Module | Models | Correspondence |
| --- | --- | --- |
| `HookrGoverned` | the abstract contract of that name: the timelock by epochs, the handover | The inheriting contract's epoch key is the parameter `EpochKey`. An announcement is made for an epoch; a brake ends the epoch, which strands what waits. `readyAt` maps an operation and an epoch to a time. |
| `HookrCompliance` | lists, attesters, officers, guardians, credentials, local sanctions and the external source | One action per entry point. A signature is a credential an attester may have signed (`Attestations`), submitted by anyone at any later time. The source's listings and failures are external variables. |
| `HookrComplianceGuard` | `bind` and the admission decision for buys, sells and adds on one pool | The terms are frozen at `bind`, as in the code, while the registry, the family's owner and the launch flag move on. |
| `HookrComplianceProofs`, `MCHookrCompliance` | theorems, instances | The lists' and roles' brakes implement the same `BrakedSwitches` as the registry's. |

### The recapture ledger

`HookrRecapture` models `HookrRecapture.sol`, the claims ledger of `HookrRules`,
and the calls of `HookrRoot` and `HookrLane` that reach them, for one pool.
`rules` is the contract's storage for the pool, and each private function of the
code (`_accrue`, `_lpShare`, `_roll`, `_crown`, `_track`, the split of a push) is
an operator from one such record to the next, as the code passes its storage
pointer along. Actions are the steps of a transaction at which foreign code may
run: a swap begins (flush and push), ends (the root settles), a payment is sent
(its receiver has control) and returns. `held` is what the PoolManager owes the
Rules in claims, which the code never reads as a total.

History variables: `lp` follows one watched position (when it came into range,
what it was offered and received, whether a sibling's leg brought it there), and
`seen` keeps what the lead and the last flush were. `FlushMayFail` lets the
root's call to the flush fail, which it tolerates; `HasSiblings` lets an executor's
frame of a sibling pool swap on this one. Each of the two parts of a release is
rounded up by less than a unit, which `WithinItsBlocks` allows for, per release.

`HookrRecaptureProofs` holds the theorems, over the laws of sums, quotients and
shares of `AccountingLaws`, and `MCHookrRecapture` the instances.

Left out of this module: the launch guard and Snipe, the dynamic fee, other
pools of the same Rules (they add to both sides of the same ledger), the two
cumulative counters behind the views, and `prizeBound`, a gas bound.

### The revenue token

| Module | Models | Correspondence |
| --- | --- | --- |
| `HookrBalanceHistory` | the mixin of that name, `seal`'s mints, blocks | A history is two slots and a sequence of archived checkpoints; the archive's count, a field of the current slot in the code, is the sequence's length. `was` and `wasEarning` are history variables: the value each block ended with. |
| `HookrDropBox` | `HookrDropBox`, `HookrDropHost` | `drops` is `_drops`; `boxHeld` is what the box holds of a currency. Rebasing currencies shrink and grow by themselves. |
| `HookrIncomeLedger` | `HookrIncomeLedger`, `HookrIncomeSync` | A record per asset for `Asset`. The doors deliver any amount: their calls are isolated by gas stipends and their answers are not read, so only the balance matters. |
| `HookrRevenueToken` | the token | A transfer is one action: release and settle every asset, move, checkpoint. |
| `HookrDropShares` | the abstract promise of a drop: split over what the last block closed with, fixed when it lands, paid in full once | |
| `HookrRevenueTokenProperties`, `HookrRevenueTokenProofs`, `MCHookrRevenueToken` | properties, theorems, instances | |

The binary search of `_valueAt` is a recursive function (`BinarySearch`), and
reading is defined by what the search is to find (`Archived`). What a drop pays is
mapped to `DropShares` through the search itself (`SearchedAt`, `PartFound`), so that
the refinement holds only if the search finds what the definition says; that it does
is proved (`SearchFinds`).

`OnlyTimeEarns` is stated while shares earn. When nobody held an earning share,
whoever buys first and claims gets what had come due meanwhile, also if it buys
and sells within the block; the notes' "a holder that buys and sells in one block
gets nothing" assumes another holder.

### Referral campaigns

`HookrReferralDistributor` models `HookrReferralDistributor.sol`. `epochs` is
`_epochs`, one record per funded day; a Merkle tree is the set of its leaves, each
of one payer's fees.
`stacks` is `_stacks`, keyed by fee stream, UTC day and payer. The campaigns that
may be created, and what an attestor may propose, are enumerated; a proposal may
hold a leaf over the wallet's cap or a sum that its leaves do not have, since the
code trusts neither. `approvals` holds reviewers' transactions on their way: each
names the version its sender had checked, and another proposal may land first.
Burns, gifts and rebases are an external action. What the referral registry
answers for a campaign, payer and referrer is the input `Referrals`; its codes and
nonces, and what a pool, root and Rules answer when a campaign is created, are left
out. `seen` is a history variable. Actions of the owed party and of anybody else
differ by `consent`: short of cash, only the former may take a part for the whole.

`HookrReferralDistributorProofs` holds the theorems, over `AccountingLaws`, and
`MCHookrReferralDistributor` the instance.

### The release programs

| Module | Models | Correspondence |
| --- | --- | --- |
| `ReleaseChain` | the chain as the scripts see it (external) | Blocks with a hash, a clock and transactions; the latest, safe and finalized heads. `Reorganise` drops blocks above the finalized head; what was sent is mined again. |
| `RuntimeTemplate` | `lib/runtime-template-evidence.mjs`, `lib/utility-v2-runtime-evidence.mjs` | A runtime is a sequence of cells; an immutable is a word of two, padding and value, a link is one. Layouts, masks and templates are compared as in the code, their hashes as the values themselves. |
| `ReleaseContracts` | what the deployment's and the canary's transactions do (external, from the calls and the reads of the scripts) | State at a block is a function of the transactions its hash commits to; an address is the nonce that created it. |
| `ReleaseEvidence` | the checks of `scripts/lib` on receipts, finality, blueprints and the canary; the replacement of `lib/release-manifest-patch.mjs` | One operator per exported function. A manifest file is its retained declarations, the registry of them and `CURRENT`. The file itself, `src/lib/release-manifest.ts`, is not in the repository. |
| `ReleaseWorkspace` | the operator: edits, commits, checkouts, builds, broadcasts, artifacts, the canary by `run-canary.sh` or by hand, a script that dies (external but for `run-canary.sh`) | `run` is the running script: its stage and what it has read. `Reached` is the next stage with what was just read. |
| `DeploymentPreflight` | `verify-deployment-preflight.mjs` | One action per awaited read; a failed check ends the script. |
| `ReleasePromotion` | `promote-release-manifest.mjs` | The same, from the guard on the endpoint to the write of the file. |
| `ReleaseSystem` | the release of the core and its properties | |
| `UtilityContracts` | the two contracts of the utilities | Deployment, link, lock, boost, claim and checkpoints as state after each block; a second deployment would be of other contracts; withdrawals, extensions, pruning and permits are left out, and so are the caller's own bound on a lock's end (`maxUnlockAt`), the bound of 64 epochs on an implicit checkpoint and the checkpoint of a part of what is due. |
| `UtilityEvidence` | the libraries of the second utility release | The core prerequisite, schedule, deployment accounting, canary evidence. |
| `UtilityRelease`, `UtilitySystem` | the staged broadcasts, the terms and their generator, `verify-utility-v2-deployment-preflight.mjs`, `verify-utility-v2-canary-evidence.mjs`, the promoter of the candidate; properties | `book` is what each commit holds of terms and manifest, which the scripts compare with the tree. The check of the terms and of git is one step, as nothing is awaited from the chain between them. |
| `ReleaseProofs`, `CandidateProofs`, `MCRelease` | the theorems, the instances | |

An endpoint that is not the chain is a fork: it may answer as it likes, so a
check made there has an arbitrary verdict (`Verdicts`). An endpoint that refuses an
answer ends the script as a crash does (`Interrupt`).

The broadcast is the one the verification programs expect: library, launchpad,
hook, router, `setHook` and the house blueprints on the launchpad, and a canary
that calls `launchInstantWithIntent`. The deployment script in the repository has
moved on: `DeployRobinhood.s.sol` also creates a `HookrBlueprints` registry and
saves the blueprints there, and `CanaryRobinhood.s.sol` calls `launchInstant`. Such a
broadcast is refused by the preflight for its count; `HonestReleaseOpens` is about
the expected one. Two looser points are kept as they are: the promoter does not
decode the calldata of `setHook` (the wiring it reads back shows what it did), so
`PublishedReceiptsStand` exempts that label; and the contracts accept a deadline in
the block it names while the verifier wants it later.

## What each run checks and shows

| Run | Question |
| --- | --- |
| `RegistryBrakes` | In each part (a launcher and the pause; a curated root queued for an external-hook record; a root a factory deploys; an asset listed in three ways with two lifts; classes; three currencies in a settlement set of two): can a brake be lifted early by any order of queueing, expiry, cancelling and braking? Do these switches implement `BrakedSwitches`? Do arrays and indexes agree? |
| `RegistryAdmissions` | Lanes, admissions, owned roots, a copied lane, and roles: are revocations final, bonds pinned once, freezes without a way around (also while a bond has lapsed), a closed lane closed for its delay, and does only the owner ever open anything? |
| `Compliance` | Does every brake on a list or a role hold against grants queued in earlier epochs? Do signed credentials replayed late never replace newer ones, nor outlive their lifetime? Can an unsanctioned, credentialed seller always leave, whatever the list, the issuer and the source do? |
| `ComplianceFreeze` | A violation: see below. |
| `RecaptureDonation` | Is what liquidity gets bounded by the blocks it stayed, nothing for liquidity added in the same L2 block, one release per block, and some release in each later second? |
| `RecaptureKing` | Are the Rules' claims covered and exactly accounted through splits, prizes, rollovers, releases, owner claims and re-entered payments? Does a round trip never lead, and a lead never pass into a later epoch? |
| `RecaptureLegs` | A violation: see below. |
| `RevenueToken` | Does the ring answer every recorded snapshot? Is a drop split as promised and never short for whoever claims last? Is income conserved to the unit, covered by what is held, earned by time alone, and its stream not stretched by dust? |
| `TokenWaiting` | A violation: see below. |
| `ReferralDays` | Is all cash of a currency owed to somebody by name, and a shortfall shared? Can a vetoed or superseded version pay? Does a leaf that can be credited always find its budget after an early release? Do the campaigns of one fee stream together stay below the fees? Does every funded day settle without its attestor and reviewer? |
| `Release` | Is what the promoter publishes final, on the canonical chain, in order, one guarded round trip of one token, and from the commit and the reviewed sources it names, however the chain, other accounts and the operator's tree move between reads? Is a published record never lost? Does the canary only follow a final and wired deployment? Does a release that its operator carries through open in the end, whatever is reorganised? For the utilities: does a candidate for production rest on final receipts in the right epochs, on one commit and on terms whose copies agree; and can other accounts not spoil the evidence of a canary that went by the scripts and succeeded? Does the reserve cover what all positions together can claim, although it is rounded by period and they by position? |
| `ReleaseRounding` | A violation: see below. |

A run covers several parts. Each behaviour picks one at the start (`focus`, in
the MC module) and moves only that part's tables, so that a run explores the
union of the parts rather than their product; the focus only restricts what is
done, never what a step does.

The refinements (`BrakesImplementSwitches`, `RolesImplementSwitches`) show that four encodings of a brake in the code (no
timestamp but a check at queue time, a timestamp per subject, a flag plus a
timestamp, an epoch) keep one promise. `DropSharesSpec` shows that a drop box
that reads shares back from an overwritten ring pays what an idealised box with
the closing balances in hand would.

## Where the code and its comments differ

Each of these runs checks one statement the repository makes and finds a
behaviour of the code against it. None loses funds.

* `ComplianceFreeze`: the guard's comment says that no role can freeze exits. A
  list's attester that revokes a credential it gave closes the sell of a pool
  with `KYC_ON_SELL`. `CredentialedExitsOpen` is what holds instead.
* `RecaptureLegs`: the notes of lane and recapture say that every position
  earns in proportion to the L2 blocks it stayed in range. A sibling's leg moves
  the price without a flush, so a stay that begins with one is paid for blocks
  before it. `WindowBound` is what holds instead, for every stay that begins with
  a liquidity change or a swap.
* `TokenWaiting`: the ledger's notes say that while no share earns, a stream and
  its last release stay put. An arrival in that time moves both, so the time
  that had passed no longer counts. `IncomeAccounted` still holds.
* `ReleaseRounding`: the tests of the lock rewards assert, and the preflight of the
  utilities requires of a contract that others already use, that the dust set aside by
  the checkpoints (`roundingCarry`) is still in the reserve. A checkpoint rounds by
  period and a claim once over all the periods it spans, so a position that spans two
  is paid dust of both: alone, with weight 3, it is paid 9 of two fees of 5 and leaves a
  reserve of 1 under a carry of 2. The preflight then refuses until other fees arrive.
  `RewardsStayCovered` is what holds instead.

## Bounds and fairness

Each instance takes the smallest sets where a part can go wrong.

* Registry and compliance: two lifts for one asset; three members for a swap and
  pop that moves a third one; one root with a module and a part of that module;
  two attesters and one wallet. `MaxTime` (per part, `Horizon`) is long enough
  for an operation to be queued, mature, be pre-empted, expire and be queued
  again before and after a brake; `MaxEpoch` allows two brakes. `Agenda` bounds
  what the owner may queue to the operations of the part; any account may call
  anything at any time. The list behind a pool's exits is announced at the start or
  never: when it comes to be does not matter to them. `Delay` and `Grace` are a tick or none: only their order
  matters, and the proofs cover every value.
* Recapture: four blocks over three seconds, with a release of four blocks and
  two blocks a second, so that a burst, a same-second block and a partial release
  all occur; an epoch of two ticks over five seconds lets two epochs be missed;
  `MaxPart` 2 makes a pending part overflow; `MaxOwed` bounds the ledger.
* Revenue token: seven blocks and a supply that moves as a whole between one
  holder and the PoolManager reach every order of current, predecessor and two
  archived checkpoints with snapshots between them. In the three-holder focus a
  supply of 4 split over drops of 3 rounds every share. A stream of 3 seconds ends
  before the clock does, and with a scale of 2 most splits leave a carry.
  `MaxReceived` 6 is reached, so the clamp of a recognition is too.
* Referral campaigns: a UTC day is a tick, and the clock runs past every window,
  delay and grace, so that the clock's bound hides no deadline. Two versions of a
  day let an approval be overtaken; a basis of 10 with rates of 3 to 5 and fees of
  2 to 7 makes every split round, and both caps bind. Balances of 2 and 4 lie
  below what is reserved at first and above what is left of it later.
  The run looks at the review of a day, at two campaigns on one payer's capacity,
  or at the cash of a currency that may shrink.

* Releases: each behaviour has one focus. `reorgs`: five blocks with heads that follow one
  by one, one reorganisation or one interruption at any step of a script, and retries. `artifacts`:
  one stray or failing canary transaction, a stranger's transaction, an
  artifact with one label of another transaction or of a rehearsal's fork, and the file
  retained early or late. `sources`: two versions of the sources, two commits, any order of
  edits, commits, checkouts, builds and broadcasts. `utility`: one disturbance of a
  release of eight blocks (another account's call, a stage by hand, a late block, or a
  reorganisation). `ambient`: a deployment that others lock, boost and claim on twice each,
  five calls in all, over three periods and a week, with a fee of 5 on weights of 3 that leaves dust in each. `terms`: one of sources, terms and manifest edited, before or
  after the commit, and the generator dying. One house blueprint stands for five; a
  capacity of two boosts is filled by two strangers; a bootstrap epoch of 2 ticks and
  a week of 4 off the bootstrap's beat let the third epoch be shorter than a week, so
  that a late claim can miss it.

The runs stop at their bounds, so they allow deadlock there. The `Release` run assumes, in
focus `reorgs` only, that what is sent is mined, that the heads follow, that an
artifact is recorded, and that the operator starts the next program again when it has
failed (strongly fair, since a script that runs or dies disables and enables it). Other
accounts are left out of that focus: a stray transfer to the router is refused by its
zero-balance check for good.
`ReferralDays` also assumes fairness: time passes, `finalizeDay` and `lapseDay` are open to anyone,
and a creator wants its cash back. Nothing is asked of the attestor and the
reviewer, who may stay away for ever or keep to a veto. `DaysSettle` is stated
for currencies that cannot shrink, and bites in the review part: where a balance
has gone to nothing, a release is refused and the day keeps its remainder. The
registry, compliance, recapture and token parts promise no progress (an owner may
never act, a pool may never be swapped), so no fairness is assumed of them.

## What is proved

The proofs hold for every set of accounts and other identities, every delay, rate,
window, supply and clock bound, under the modules' named `ASSUME`s only: positive
delays, windows and scales, natural caps, rates that are parts of a whole, disjoint
kinds of roots, a positive supply, allocations of natural amounts, finitely many
accounts where something is summed over them. Of the properties the runs check, the
theorems listed in `PROJECT.json` under "theorems" state all but those named at the
end of this section.

* `HookrRegistryProofs`. `TypeCorrect` and `IndexesStayInStep` are proved
  together, since a removal is well typed only if the position it reads is inside
  the array; the lemmas `PushAgrees` and `DropAgrees` carry the removal of the
  last and of the only member. `NoLiftWaits` and `BrakesHoldFullDelay` concern the
  brakes without a timestamp, for which the contract cannot compare a queued
  operation with the brake: what makes them hold is that `queue` refuses the lift
  while the permission is in force. The inductive invariant (`BrakeInvariant`)
  adds that what waits was queued no earlier than the brake, that no brake lies in
  the future, and that only a registered root is closed. Each step is shown to be
  quiet, an announcement, a lift or a brake, and each of the four to keep it.
  `BrakesRefineSwitches` sorts the steps in the same way for the records, the quotes,
  the classes, any-quote mode and the settlement set as well, whose brakes leave
  timestamps: each step of the contract is shown to be an abstract step or a stutter
  under each of the two mappings, and `NoLiftAheadOfBrake` supplies the abstract guard
  where the code keeps no timestamp. `SwitchesHoldFullDelay` draws the conclusion for
  all of these switches: a brake holds for a full delay, by an induction over abstract
  steps alone (`BrakesKept`: besides the promise, no brake lies in the future).
  `AdmissionsLiveOnce`, `FreezeHolds`, `LanesHold` and `GuardianRestrictsOnly` are
  about single steps. Their invariant (`AdmissionInvariant`) says that a closed lane
  has had its delay, that a root never registered has nothing written to it (so
  registering it and copying a template onto it overwrite nothing), that a
  revoked pair is empty, and that a Rules module admits nothing but Rules. Without
  the last, a guardian's revocation on one root could reach the parts of another
  that is frozen.
* `HookrComplianceProofs`. `ComplianceTypeCorrect`; `RolesRefineSwitches`: the
  epoch timelock of `HookrGoverned`, under the keys of `HookrCompliance`,
  implements `BrakedSwitches`; `RoleBrakesHoldFullDelay` from the invariant that
  ties each waiting operation to the epoch and the time of its announcement.
  `NewerStand`: no credential claims to be of the future (`IssuedOK`), which is why a
  revocation, dated now, is never older than what it revokes. `ExitsStayOpen` is about
  the guard: its terms name a list that exists, and lists are never deleted.
* `HookrRecaptureProofs`. One invariant (`RecaptureInvariant`) carries all six
  theorems. `LedgerOK`: in each currency the total of what is owed is worth the
  claims, the accrual, the pending donation and the pot, and is held; it gives
  `OwedIsAccounted`. The operators that pass the pool's record
  along are each given an effect (`Moves`, `Earns`, `Shares`), which compose over a
  transaction. `FlushOK`: the two clocks of the pending donation, blocks and the
  pace of seconds, run in step with the last flush, and inside a swap, or in the
  block liquidity was added in, nothing pending has aged; it gives `NothingJustInTime`
  and `ReleaseNeverStalls`. `StaysOK`: what a stay has received is within the share of
  the blocks, and of the seconds, that passed since it began, of all but the fresh
  part, plus the roundings, and
  `StaysKeepTheirWindow` follows from it. `KingOK`: while a transaction remembers the lead it
  began with it has sold nothing, and else who leads is who led when it began, or no
  one; it gives `LeadersEarnTheirLead`. `StaysKeepTheirWindow`, `NothingJustInTime` and
  `ReleaseNeverStalls` assume `~FlushMayFail`, as the run that checks them does: the
  root tolerates a flush that fails, and what it leaves pending is then offered whole
  to whoever is in range next. The other four hold with failing flushes too.
* `HookrRevenueTokenProofs`. `SnapshotsAnswered`: the ring and archive answer
  every recorded snapshot exactly. The invariant `HistoryOK` says, of one history
  against the record of what blocks ended with: the ring's blocks are ordered and
  not in the future (`RingOK`); the two slots agree with the record on all blocks
  they cover, and the archive on every snapshot before (`AgreesWith`); and a
  snapshot before the current checkpoint either was seen when it was written or is
  of the block just before it (`SeenOK`), which is the contract notes' argument
  that the keep test is exact. `ArchiveKeepsAnswers` is where the test is used;
  `WriteKeeps`, `SnapshotKeeps` and `NextBlockKeeps` carry the invariant through
  the three kinds of step. `DropsAskTheSame`: no step changes a balance an earlier
  drop reads, since records are written from the present block on and a drop asks
  about a block before. `SharesTypeCorrect`: no transfer takes the earning supply
  below zero. `BoxCoversItsDrops` adds to this that the running total is the sum of
  what the drops hold, of which each step changes one term.
  `DropsKeepTheirPromise`: the box implements `HookrDropShares`. Its invariant
  (`BoxInvariant`) adds three parts to those above. `ArchivesOK`: the blocks of an
  archive increase, and stay before the predecessor's, which is what a write moves
  there. Then the checkpoints at or before a block are the first ones (`Splits`), a
  search between two ends stops at the number of them, or at the end nearer to it
  (`Nearest`), and a minimal counterexample over the width of the range shows that the
  recursion has this solution and no other (`SearchSolved`, `SearchEnds`), hence
  `SearchReadsSnapshots`. `RecordsOK`: the record of the earning supply is, block by block,
  the sum of the record of the earners' balances. `PartsOK`: a drop divides by the record
  of its snapshot's block and has paid the parts of those who claimed. Parts rounded
  down add up to no more than the drop (`PartsFit`), so no claim is cut to what is left
  (`OwedIsPart`), and a claim is the abstract one; no step moves the record of a block
  that has ended (`RecordsFollow`), so no part moves (`PartsStay`).
  `BooksBalance` needs that the balances of the earners sum to the earning supply
  (`SupplyOK`), since a release credits the supply and a holder is credited by
  balance. Each step starts from the book as it is or as released (`Effect`), every
  credit at that index stands but for what is paid, and `TotalGrows` says that a
  growth of the index gives all holders together what it gives the supply.
  `SecondsAreSettled` follows, as a second release within a second releases nothing
  (`ReleasedIsFresh`). `ArrivalsWeigh` is the weighted mean, rounded up.
* `HookrReferralDistributorProofs`. One invariant (`DistributorInvariant`) carries the
  theorems. `DaysOK`: what the fees not yet credited can be owed is still in the day's
  budget, a day not finalized has moved nothing, and a released one has nothing left;
  that the parts of two rates, and of two amounts, rounded down, are at most the part
  of their sum (`PartsOfRates`, `PartsOfAmounts`) is what lets credits and releases
  alternate. `ReviewOK`: an approval on its way for a day's current version names its
  leaves, and a veto stands until the reviewer accepts. `StacksOK`: a stack's basis is
  the fees of a leaf credited on it, and what it paid is under the cap of that basis.
  `CashAccounted` is a part of the invariant: every step changes one term of its sum.
* `ReleaseProofs`, for every bound on chain and workspace and every number of house
  blueprints, from `VersionAssumption` and `BlueprintAssumption`, and for `RewardsCovered`
  `UtilityAssumption`.
  `PublishedStateFinal`: the block a published record names is
  final and canonical. The invariant says that the heads are in order (`ChainOK`), that
  the promoter has a well-formed state head from its pinning on, and that only a dry run
  comes to the write without having seen that very header under the finalized head
  (`RunOK`); `ChainSteps` shows that a header once `Published` stays so through growth
  and reorganisation, and `Proceeds` that a verdict of the real chain's endpoint is the
  check's own. `ManifestRecordsStand`: no step loses, changes or doubles a record, from
  the invariant of the file (`FileOK`): the registry lists what is retained, one record
  to a generation, and `CURRENT` is the newest's alias or later than all of them.
  `ReceiptsStand`, `SourceDeployed` and `CanarySpendsFinal` take a second invariant
  (`EvidenceInvariant`), which says what each script knows at each of its stages, in
  terms that no later step of the chain or the operator undoes. What was read of the
  deployer is identified by its nonce (`SentOK`), and a block by its hash (`BlocksOK`).
  A state read at a pinned hash is the chain's own below that block for as long as the
  chain has the hash, and a hash that is gone never comes back (`ViewOK`), so what was
  reviewed there is true of the chain once the hash is seen finalized. Receipts were
  held against a head that was finalized when it was read, and the finalized part only
  grows (`Extends`), so they are the chain's still (`ReceiptsOK`). A commit keeps its
  sources (`HistoryKept`), and the promoter's own read of them ties what it names to
  what was compiled (`Attributed`). `PromoterOK` and `PreflightOK` gather this by stage,
  for any endpoint that is not a fork's; a dry run and a rehearsal know nothing, and
  neither publishes nor sends. `PromotionKnows` and `PreflightKnows` are their steps,
  `ReleaseStands` and `DeploymentStands` what is left when the scripts have ended. That
  the launchpad's hook is the deployment's own rests on the model's one deployment to a
  chain and on `setHook` being the owner's to call (`HookIsSet`).
  `CandidateAttributed`: a candidate names one commit, which holds all it was checked
  against. Commits are only appended, so what one holds stands (`CommitsKept`); the
  promoter's commit is `Backed` from its start on: the tree, the compiler's output and
  HEAD were compared with it, and the four broadcasts with each other, so what it read of
  terms and core is the commit's, and code that passes the runtime check was built from
  the reviewed sources (`UtilityReviewed`). `CandidateOK` is what is left when it prints.
  `RewardsCovered`: the books of the lock rewards (`BooksOK`) are
  kept by every checkpoint, lock, boost and claim. Rounding is what makes them hard, as a
  period is rounded at its checkpoint and a claim over its periods together, so the
  invariant counts in the contract's own scale: what all positions are due before they are
  rounded, and the period's fees and what was claimed times `Q128`, is at most what was
  notified times `Q128` (`DuesCovered`). A checkpoint adds to the dues of the eligible
  positions their weight times the growth of the index, which is at most the period's fees
  (`DueGrows`, `CheckpointCovers`); a claim takes a whole number no greater than what is due.
  State at a block is a recursive function of the transactions below it; that it has
  one is proved first (`AtSolvable`, `AfterSolvable`), and then that the books are kept along
  a block and along any chain (`BlockKeepsBooks`, `TraceKeepsBooks`), by the first block at
  which they would not be. The invariant on the chain itself is only that its clocks never
  go back and its transactions are well formed (`LedgerInvariant`).
* `CandidateProofs`. `CandidateProved`: a candidate rests on evidence that is true of
  the final chain. Its invariant (`ProofInvariant`) says of the chain that a transaction
  is mined once and the deployer's in the order they were sent (`OrderInvariant`), of the
  script what it knows at each stage (`Knows`), and of a candidate what is left when the
  script has ended (`Rests`). The receipts are read below a head that was final, the state
  at a later pinned block, and the comparison is made between the two; so what the
  contracts' log tells of a transaction has to be the same on a prefix of the chain and on
  any longer one (`LogStands`, `PrefixTells`), and what was pinned has to be final when
  the candidate is printed, after which it stays so (`RestsStays`). The amount is the hard
  part. The contract paid the claim out of an index rounded at every checkpoint, and the
  script recomputes it from the two indices it reads; the property counts instead, in the
  log of everyone's calls, the weight locked in the first period and the fees boosted
  before the claims open. That the books and the log agree on these two is a second
  induction over the chain (`Story`), and the claim is then the canary's share to within
  the two roundings (`CanaryShare`).

`AccountingLaws` is about the operators these share: sums over finite sets (one term
changed, two sums added, a sum scaled) and quotients. The provers cannot
instantiate the library's induction theorems, whose parameter is an operator. What is
needed of a fold is proved by a minimal counterexample instead: the strict subsets of
a finite set are well founded, so a set of bad subsets has a minimal one
(`MinimalSubset`), whose own subsets are good. That is how the recursion a sum is
chosen by is shown to have a solution, and one only (`SumEquationSolvable`,
`SumEquationUnique`), and then how each law is. The power of the pot (`PowerSolved`)
is unfolded in the same way, over its exponents.

Model-checked only. Liveness (`DaysSettle`, `HonestReleaseOpens`), which is out of the
provers' reach. Of the utilities' release `AmbientHarmless`, that no ledger another
account adds to fails the evidence of an honest canary whose calls succeeded (a boost
that fails because others filled the registry before it is outside it). It says that a check passes, where the proved
properties say what follows when it has passed: a proof would have to follow every value
each of the verifier's comparisons reads, along the whole canary, through whatever others
send between the stages, and every one of those values exactly. No other invariant a run
checks is without a theorem.
`NoLiftWaits` is proved only: `BrakesImplementSwitches` fails wherever it would.

## What is not modelled and why

* Uniswap's tick and fee arithmetic, Solidity's memory and gas metering: they
  need another tool. Where a hazard is about gas (the lane's floors) the plan
  models the ledger of floors, not the meter.
* 128-bit ranges of the token's slots and books, implied by its supply and by
  `MAX_RECEIVED`; tokens that charge on transfer.
* Views, lenses and quoters hold no state, and what only they read is not kept
  (`rootAdvisories`). A transfer of nothing settles its two accounts as a poke does,
  and is modelled by one.
* Earlier generations of contracts, benches, labs, deployment scripts and records: superseded, or
  no protocol logic. Of generation 3 only what its release programs read is modelled.
* The retired utility release of generation 1: its promoter ends with an error, and its
  verifiers are those of generation 2 without stages and schedules. Exports of ABIs, size
  checks and the drawing of figures read no state back.
* Guards whose absence lets the model do more than the code: the window of 45 minutes in
  which the utilities' deployment script runs, the verifier's bound on the lock's end and
  its comparison of the boosts' principal with what was ever added, which only
  withdrawals could tell apart.
* ABI coding, hashing, URL and file-name checks of the release programs: a check on
  bytes is a comparison of the values they encode. The command-line form of the core
  prerequisite, which repeats its library; the canary's expiry
  (an intent is spent once, whenever).
* After a candidate is printed the instance of the utilities' release stops: nothing in
  the repository reads a candidate back.
* The fixed-point power with which a pot releases: the model takes the exact
  quotient, which the power equals when half is released (the default rate).
* Signature schemes (EIP-712, Permit2) appear as authorised calls.

## Plan

In order; each adds modules, runs and, where marked, theorems.

1. The registry and `BrakedSwitches`. Done.
2. `HookrGoverned`, `HookrCompliance` and its guard. Done; the other contracts
   that inherit `HookrGoverned` follow with items 8 and 10.
3. The recapture ledger of `HookrRules` and `HookrRecapture`, and its theorems. Done.
4. The revenue token: history, drops, income, and their theorems. Done.
5. Limit orders and pay-later. Hazards: a bounded pass over the pots the book
   leads must not skip an entry that swap-and-pop moved under its cursor, and a
   pot led again must lower `nextDue`; exercise races expiry, and partial
   exercises in any order must pay at least the pro-rata strike.
6. `HookrTreasury`: a proposal by an owner who has handed over, an integrator
   removed and listed again while a proposal waits, a source admitted from an
   entry that has lapsed.
7. `HookrReferralDistributor` and its theorems. Done. `HookrPrograms` is left.
8. `HookrLpBoost` and `HookrLiquidityVault`: accumulators against a reference
   ledger. Hazards: an extended boost moves its weight's drop to a later week;
   weeks walked lazily; fees when nobody holds a share; a transfer to oneself.
9. `HookrLauncher`, `HookrFamilyLock`, `HookrOwnedRootFactory`: a handover
   replaced or cancelled in between, a lock taken again while one is pending, a
   root paused or handed over against a launch in the same block.
10. `HookrPaymaster` (precharge against settlement, rebate budget), the advisories
    and the calendar, the dynamic fee and the launch guard.
11. Hook Blocks with a queue or a ledger: the tax queue's waiting clock, the
    recovery reserve's shared balance, vesting checkpoints and raised thresholds,
    the fee bridge's anchors, a fully slashed bond whose rewards still stream.
12. The release programs: `Release` and their theorems. Done; theorem left:
    `AmbientHarmless`. Left out so far: withdrawals and
    extensions of locks and boosts, which only matter to a release through solvency.
13. The tokenizer's doors, forwarder and position bundles.
