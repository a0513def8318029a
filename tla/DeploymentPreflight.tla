--------------------------- MODULE DeploymentPreflight ---------------------------
(* scripts/verify-deployment-preflight.mjs: the read-only check run-canary.sh   *)
(* makes before it loads a signer.  The chain may move between any two of its   *)
(* reads.  A failed check ends the script.                                      *)
EXTENDS ReleaseWorkspace

\* A fork answers as it likes; the real chain's endpoint answers what it holds.
Verdicts(remote, check) == IF remote THEN {check} ELSE BOOLEAN

\* The step of a script whose check must hold for it to go on.
Proceed(check, next) == \E ok \in Verdicts(run.remote, check) : run' = IF ok THEN next ELSE Idle

In(script, stage) == run.script = script /\ run.stage = stage

OnlyRunChanges ==
  UNCHANGED <<chainVars, history, head, tree, out, file, deployRun, canaryRun, faults, interrupts>>

Found(txs) == ToSet(txs) \subseteq Mined(chain)

ReceiptsOf(txs) == [i \in DOMAIN txs |-> Receipt(chain, txs[i])]

\* A receipt's block is the one the chain has at that height.
BoundToHeaders(receipts) == \A i \in DOMAIN receipts : receipts[i].blockHash = BlockAt(receipts[i].blockNumber).hash

-----------------------------------------------------------------------------

\* --rehearsal is for a loopback endpoint and needs one; anything else must be https.
StartPreflight(rehearsal, remote) ==
  /\ run = Idle
  /\ rehearsal = ~remote
  /\ deployRun.blocks # <<>>
  /\ deployRun.commit = head
  /\ rehearsal \/ ~Dirty
  /\ out = tree
  /\ run' = [script |-> "preflight", stage |-> "receiptHead", remote |-> remote,
             deploy |-> deployRun, built |-> out]
  /\ OnlyRunChanges

\* The receipts must be final, or merely mined in a rehearsal.  The script reads the
\* head again by its number: a finalized one is still there, and what a rehearsal
\* learns is not acted on, so the two reads are one.
PreflightReceiptHead ==
  /\ In("preflight", "receiptHead")
  /\ LET n == IF run.remote THEN final ELSE Latest
     IN run' = Reached("stateHead", [receiptHead |-> Header(n)])
  /\ OnlyRunChanges

\* Every state read below is of the block this hash names.
PreflightStateHead ==
  /\ In("preflight", "stateHead")
  /\ LET n == IF run.remote THEN safe ELSE Latest
     IN Proceed(AssertStateEvidenceAfterFinality(run.receiptHead, Header(n)),
                Reached("receipts", [stateHead |-> Header(n), view |-> ChainThrough(n)]))
  /\ OnlyRunChanges

\* Fault: the receipts need not be final.
PreflightReceiptsMined(receipts) ==
  /\ \A i \in DOMAIN receipts :
       /\ ~receipts[i].tx.fails /\ receipts[i].tx.from = "deployer"
       /\ [number |-> receipts[i].blockNumber, hash |-> receipts[i].blockHash] = run.deploy.blocks[i]
  /\ BoundToHeaders(receipts) /\ AssertStrictReceiptOrder(receipts)

PreflightReceiptsHold(receipts) ==
  /\ \A i \in DOMAIN receipts :
       /\ ~receipts[i].tx.fails /\ receipts[i].tx.from = "deployer"
       /\ [number |-> receipts[i].blockNumber, hash |-> receipts[i].blockHash] = run.deploy.blocks[i]
  /\ BoundToHeaders(receipts)
  /\ AssertStrictReceiptOrder(receipts)
  /\ AssertReceiptsWithinEvidenceBlock(receipts, run.receiptHead)

\* What each transaction called or created, and the hook that setHook named.
PreflightTargetsHold(txs) ==
  /\ \A i \in {1, 3} : txs[i].to = Create2Deployer /\ CanonicalCreate2Address(txs[i]) = run.deploy.txs[i].nonce
  /\ \A i \in {2, 4} : txs[i].to = NoAddress /\ txs[i].call \in CreatedContracts
  /\ \A i \in 5..Len(txs) : txs[i].to = run.deploy.txs[Launchpad].nonce
  /\ txs[5].call = "setHook" /\ txs[5].args = <<run.deploy.txs[3].nonce>>

PreflightReceipts ==
  /\ In("preflight", "receipts")
  /\ \E receipts \in {IF Found(run.deploy.txs) THEN ReceiptsOf(run.deploy.txs) ELSE <<>>} :
       Proceed(receipts # <<>> /\ PreflightReceiptsHold(receipts) /\ PreflightTargetsHold(run.deploy.txs),
               Reached("state", [receipts |-> receipts]))
  /\ OnlyRunChanges

PreflightState ==
  /\ In("preflight", "state")
  /\ LET at(label) == run.deploy.txs[label].nonce
     IN Proceed(/\ ReviewedRuntimes(run.view, run.built, at(1), at(2), at(3), at(4))
                /\ Wiring(run.view, at(2), at(3), at(4))
                /\ ValidateHouseBlueprintEvidence(run.receipts, run.view, at(2)),
                [run EXCEPT !.stage = "recheck"])
  /\ OnlyRunChanges

\* The pinned block must still be canonical; the script does not wait for it to be final.
PreflightRecheck ==
  /\ In("preflight", "recheck")
  /\ Proceed(run.stateHead.number <= Latest /\ Header(run.stateHead.number) = run.stateHead,
             [script |-> "preflight", stage |-> IF run.remote THEN "passed" ELSE "rehearsed"])
  /\ OnlyRunChanges

\* A rehearsal signs nothing, and a passed check need not be followed by a canary.
PreflightEnds ==
  /\ run.script = "preflight" /\ run.stage \in {"passed", "rehearsed"}
  /\ run' = Idle
  /\ OnlyRunChanges

PreflightNext ==
  \/ \E rehearsal, remote \in BOOLEAN : StartPreflight(rehearsal, remote)
  \/ PreflightReceiptHead
  \/ PreflightStateHead
  \/ PreflightReceipts
  \/ PreflightState
  \/ PreflightRecheck
  \/ PreflightEnds

=============================================================================
