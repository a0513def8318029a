----------------------------- MODULE ReleaseWorkspace -----------------------------
(* The release operator's working tree and broadcasts: the commits and the      *)
(* contract sources in them, the compiler's output, the manifest file, the      *)
(* artifacts of the deployment and of the canary, and the verification script   *)
(* that is running.  Forge and git are not part of the scripts; they are        *)
(* modelled from how the scripts read what they leave behind.                   *)
EXTENDS ReleaseEvidence

CONSTANTS MaxCommits,    \* bound: commits
          MaxFaults,     \* bound: canary transactions that fail or stray from the script
          MaxInterrupts, \* bound: scripts that die, or are refused an answer
          Promotes       \* the generation the promoter writes

ASSUME VersionAssumption == Promotes \in Nat \ {0}

VARIABLES
  history,    \* the contract sources of each commit
  head,       \* the commit checked out
  tree,       \* the contract sources in the working tree
  out,        \* the sources the compiler's artifacts were built from
  file,       \* the manifest file
  deployRun,  \* the deployment's artifact: its commit, transactions and their blocks
  canaryRun,  \* the canary's artifact
  run,        \* the verification script that is running
  faults,
  interrupts

workVars == <<history, head, tree, out, file, deployRun, canaryRun, run, faults, interrupts>>

vars == <<chainVars, workVars>>

NoRun == [commit |-> 0, txs |-> <<>>, blocks |-> <<>>]

Idle == [script |-> "none", stage |-> "none"]

\* The running script at its next stage, with what it has read.
Reached(stage, facts) ==
  [x \in DOMAIN run \cup DOMAIN facts |->
     IF x = "stage" THEN stage ELSE IF x \in DOMAIN facts THEN facts[x] ELSE run[x]]

Dirty == tree # history[head]

\* A transaction a rehearsal on a fork recorded: no chain but the fork has it.
Rehearsed(call) == Transaction("deployer", 0, call, NoAddress, <<>>, 0, FALSE)

-----------------------------------------------------------------------------

EditSources ==
  /\ \E source \in Sources \ {tree} : tree' = source
  /\ UNCHANGED <<chainVars, history, head, out, file, deployRun, canaryRun, run, faults, interrupts>>

Commit ==
  /\ Len(history) < MaxCommits
  /\ head = Len(history)
  /\ history' = Append(history, tree)
  /\ head' = head + 1
  /\ UNCHANGED <<chainVars, tree, out, file, deployRun, canaryRun, run, faults, interrupts>>

Checkout ==
  /\ ~Dirty
  /\ \E commit \in DOMAIN history \ {head} : head' = commit /\ tree' = history[commit]
  /\ UNCHANGED <<chainVars, history, out, file, deployRun, canaryRun, run, faults, interrupts>>

Build ==
  /\ out # tree
  /\ out' = tree
  /\ UNCHANGED <<chainVars, history, head, tree, file, deployRun, canaryRun, run, faults, interrupts>>

\* The reviewed change that retains the outgoing generation, before the next may replace it.
RetainRelease ==
  /\ file.current.form = "expanded"
  /\ file' = [retained |-> <<file.current>> \o file.retained,
              registry |-> <<file.current.version>> \o file.registry,
              current |-> Alias(file.current.version)]
  /\ UNCHANGED <<chainVars, history, head, tree, out, deployRun, canaryRun, run, faults, interrupts>>

\* Forge builds the tree, sends the ten transactions and names the commit.
BroadcastDeploy ==
  /\ deployRun = NoRun
  /\ LET txs == DeployTransactions(Len(sent) + 1, tree)
     IN Send(txs) /\ deployRun' = [commit |-> head, txs |-> txs, blocks |-> <<>>]
  /\ out' = tree
  /\ UNCHANGED <<history, head, tree, file, canaryRun, run, faults, interrupts>>

\* The artifact's receipts are as of when they were fetched.
RecordDeploy ==
  /\ deployRun # NoRun /\ ToSet(deployRun.txs) \subseteq Mined(chain)
  /\ LET now == [i \in DOMAIN deployRun.txs |-> Header(HeightOf(chain, deployRun.txs[i]))]
     IN deployRun.blocks # now /\ deployRun' = [deployRun EXCEPT !.blocks = now]
  /\ UNCHANGED <<chainVars, history, head, tree, out, file, canaryRun, run, faults, interrupts>>

NonceOf(label) == deployRun.txs[label].nonce

\* The canary steps that are still missing, the first of them next.
Missing ==
  {i \in DOMAIN CanarySteps :
     ~\E tx \in ToSet(sent) : tx.call = CanarySteps[i] /\ ~tx.fails /\ tx.args[Len(tx.args)] = "spec"}

CanaryToken ==
  LET launches == {tx \in ToSet(sent) : tx.call = "launchInstantWithIntent" /\ ~tx.fails}
  IN IF launches = {} THEN Len(sent) + 1 ELSE (CHOOSE tx \in launches : TRUE).nonce

\* The steps from `first` to `last` are sent; the last of them as told.
SendCanary(first, last, bound, fails) ==
  /\ fails \/ bound = "loose" => faults < MaxFaults
  /\ faults' = IF fails \/ bound = "loose" THEN faults + 1 ELSE faults
  /\ Send([k \in 1..last - first + 1 |->
             LET i == first + k - 1
             IN CanaryTransaction(i, Len(sent) + k, NonceOf(Launchpad), NonceOf(4), CanaryToken,
                                  IF i = last THEN bound ELSE "spec", i = last /\ fails)])

\* run-canary.sh signs only after the deployment preflight has passed.
ScriptedCanary ==
  /\ run.script = "preflight" /\ run.stage = "passed"
  /\ run' = Idle
  /\ 1 \in Missing /\ \A i \in DOMAIN CanarySteps : i \in Missing
  /\ \E last \in DOMAIN CanarySteps, fails \in BOOLEAN :
       /\ ~fails => last = Len(CanarySteps)
       /\ SendCanary(1, last, "spec", fails)
  /\ UNCHANGED <<history, head, tree, out, file, deployRun, canaryRun, interrupts>>

\* The missing steps are sent by hand, as when a scripted canary stopped halfway: its intent is spent.
HandCanary ==
  /\ deployRun # NoRun /\ Missing # {}
  /\ LET first == CHOOSE i \in Missing : \A j \in Missing : i <= j
     IN \E last \in first..Len(CanarySteps), bound \in {"spec", "loose"}, fails \in BOOLEAN :
          /\ bound = "spec" /\ ~fails => last = Len(CanarySteps)
          /\ SendCanary(first, last, bound, fails)
  /\ UNCHANGED <<history, head, tree, out, file, deployRun, canaryRun, run, interrupts>>

\* The canary's artifact, the script's or assembled by hand: any transactions under the labels.
RecordCanary(txs, commit) ==
  /\ canaryRun' = [commit |-> commit, txs |-> txs, blocks |-> <<>>]
  /\ canaryRun' # canaryRun
  /\ UNCHANGED <<chainVars, history, head, tree, out, file, deployRun, run, faults, interrupts>>

\* The script dies, or its endpoint refuses an answer: it serves no state at finalized heights.
Interrupt ==
  /\ run # Idle /\ interrupts < MaxInterrupts
  /\ run' = Idle /\ interrupts' = interrupts + 1
  /\ UNCHANGED <<chainVars, history, head, tree, out, file, deployRun, canaryRun, faults>>

=============================================================================
