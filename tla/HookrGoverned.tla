---------------------------- MODULE HookrGoverned ----------------------------
(* The timelock most Hookr contracts inherit: an owner queues operations     *)
(* that add power and executes them after a delay; a restrictive action      *)
(* advances an epoch, and an operation is only executed in the epoch it was  *)
(* queued in.  The derived contract says which epoch key each operation      *)
(* reads (_epochKey) and which operations may be queued (_checkQueue): here  *)
(* the key is a parameter of the timelock's steps.                           *)
(*                                                                           *)
(* The code's operation id is the hash of chain, contract, kind, epoch and   *)
(* arguments.  Here an operation is the tuple <<kind, arguments...>>, and    *)
(* readyAt keeps one ready time for each operation and epoch.  EIP-7702      *)
(* delegation is a property of an address, so Accounts holds no delegated    *)
(* one.                                                                      *)
EXTENDS Naturals

CONSTANTS Accounts,   \* accounts that may hold a role
          NoOne,      \* address(0)
          Deployer,   \* the owner the constructor sets
          Delay,      \* the immutable delay
          Grace,      \* GRACE
          MaxTime,    \* bound: the clock stops here
          MaxEpoch    \* bound: an epoch key at this epoch is not advanced

ASSUME DelayAssumption == Delay \in Nat \ {0}
ASSUME GraceAssumption == Grace \in Nat
ASSUME BoundAssumption == MaxTime \in Nat \ {0} /\ MaxEpoch \in Nat
ASSUME AccountAssumption == Deployer \in Accounts /\ NoOne \notin Accounts

VARIABLES now,          \* block.timestamp
          owner,        \* Governance.owner
          pendingOwner, \* Governance.pendingOwner
          readyAt,      \* Governance.readyAt, by operation and epoch
          epoch         \* Governance.epoch

governanceVars == <<now, owner, pendingOwner, readyAt, epoch>>

Epochs == 0..MaxEpoch

TransferKey == <<"TRANSFER_OWNER">>

TransferOperations == {<<"TRANSFER_OWNER", a>> : a \in Accounts}

GovernedInit(operations, keys) ==
  /\ now = 1
  /\ owner = Deployer
  /\ pendingOwner = NoOne
  /\ readyAt = [op \in operations |-> [e \in Epochs |-> 0]]
  /\ epoch = [k \in keys |-> 0]

GovernedTypeOK(operations, keys) ==
  /\ now \in 1..MaxTime
  /\ owner \in Accounts
  /\ pendingOwner \in Accounts \cup {NoOne}
  /\ readyAt \in [operations -> [Epochs -> Nat]]
  /\ epoch \in [keys -> Epochs]

-----------------------------------------------------------------------------

OnlyOwner(caller) == caller = owner

\* The ready time of an operation as execution reads it: in the current epoch.
Ready(op, key) == readyAt[op][epoch[key]]

SetReady(op, key, time) == readyAt' = [readyAt EXCEPT ![op] = [@ EXCEPT ![epoch[key]] = time]]

\* The timelock half of queue(): new in this epoch, or expired.
Announce(op, key) ==
  /\ Ready(op, key) = 0 \/ now > Ready(op, key) + Grace
  /\ SetReady(op, key, now + Delay)

\* Fault: the age of the operation is not checked.
ConsumeEarly(op, key) ==
  /\ Ready(op, key) # 0
  /\ now <= Ready(op, key) + Grace
  /\ SetReady(op, key, 0)

\* _consume: ready, not expired, and once.
Consume(op, key) ==
  /\ Ready(op, key) # 0
  /\ now >= Ready(op, key)
  /\ now <= Ready(op, key) + Grace
  /\ SetReady(op, key, 0)

\* Fault: a brake leaves what was queued before it.
InvalidateNothing(key) == UNCHANGED epoch

\* _invalidateQueued: every operation that reads this key and was queued so
\* far is void.
InvalidateQueued(key) ==
  /\ epoch[key] < MaxEpoch
  /\ epoch' = [epoch EXCEPT ![key] = @ + 1]

-----------------------------------------------------------------------------

Tick ==
  /\ now < MaxTime
  /\ now' = now + 1
  /\ UNCHANGED <<owner, pendingOwner, readyAt, epoch>>

\* An operation is cancelled by its id, so also in an earlier epoch.
Cancel(caller, op, e) ==
  /\ OnlyOwner(caller)
  /\ readyAt[op][e] # 0
  /\ readyAt' = [readyAt EXCEPT ![op] = [@ EXCEPT ![e] = 0]]
  /\ UNCHANGED <<now, owner, pendingOwner, epoch>>

TransferOwnership(caller, next) ==
  /\ OnlyOwner(caller)
  /\ Consume(<<"TRANSFER_OWNER", next>>, TransferKey)
  /\ pendingOwner' = next
  /\ UNCHANGED <<now, owner, epoch>>

CancelNomination(caller) ==
  /\ OnlyOwner(caller)
  /\ pendingOwner' = NoOne
  /\ UNCHANGED <<now, owner, readyAt, epoch>>

AcceptOwnership(caller) ==
  /\ caller = pendingOwner
  /\ owner' = caller
  /\ pendingOwner' = NoOne
  /\ UNCHANGED <<now, readyAt, epoch>>

Handover(caller) ==
  \/ \E next \in Accounts : TransferOwnership(caller, next)
  \/ CancelNomination(caller)
  \/ AcceptOwnership(caller)

=============================================================================
