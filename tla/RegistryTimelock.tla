-------------------------- MODULE RegistryTimelock --------------------------
(* The timelock every part of HookrRegistry runs on: the clock, the ready    *)
(* times of the queued operations, and the accounts that hold authority.     *)
(*                                                                           *)
(* An operation is a tuple <<kind, arguments...>>.  The code identifies it   *)
(* by keccak256(chainid, registry, kind, arguments); equal tuples stand for  *)
(* equal hashes.  Time is block.timestamp in abstract units: transactions of *)
(* one block share a value of `now', and `now' starts at 1 so that zero is   *)
(* "never", as it is in the code.                                            *)
EXTENDS Naturals

CONSTANTS Accounts,   \* accounts that may hold the owner or guardian role
          NoOne,      \* address(0)
          Deployer,   \* the owner the constructor sets
          Delay,      \* the registry's immutable delay
          Grace,      \* GRACE_PERIOD
          MaxTime     \* bound: the clock stops here

ASSUME DelayAssumption == Delay \in Nat \ {0}
ASSUME GraceAssumption == Grace \in Nat
ASSUME MaxTimeAssumption == MaxTime \in Nat \ {0}
ASSUME AccountAssumption == Deployer \in Accounts /\ NoOne \notin Accounts

VARIABLES now,          \* block.timestamp
          readyAt,      \* State.readyAt: zero when the operation is not queued
          owner,        \* State.owner
          pendingOwner, \* State.pendingOwner
          guardian      \* State.guardian

timelockVars == <<now, readyAt, owner, pendingOwner, guardian>>
roleVars == <<owner, pendingOwner, guardian>>

GovernanceOperations ==
  {<<"TRANSFER_OWNER", a>> : a \in Accounts}
    \cup {<<"SET_GUARDIAN", a>> : a \in Accounts \cup {NoOne}}

OnlyOwner(caller) == caller = owner

OnlyBrake(caller) == caller \in {owner, guardian} \ {NoOne}

TimelockInit(operations) ==
  /\ now = 1
  /\ readyAt = [op \in operations |-> 0]
  /\ owner = Deployer
  /\ pendingOwner = NoOne
  /\ guardian = NoOne

TimelockTypeOK(operations) ==
  /\ now \in 1..MaxTime
  /\ readyAt \in [operations -> Nat]
  /\ owner \in Accounts
  /\ pendingOwner \in Accounts \cup {NoOne}
  /\ guardian \in Accounts \cup {NoOne}

-----------------------------------------------------------------------------

Expired(op) == now > readyAt[op] + Grace

\* The timelock half of queue(): the operation is new, or it expired.
Announce(op) ==
  /\ readyAt[op] = 0 \/ Expired(op)
  /\ readyAt' = [readyAt EXCEPT ![op] = now + Delay]

\* Fault: the operation stays queued after it ran.
ConsumeRepeatedly(op, brakeAt) ==
  /\ readyAt[op] # 0
  /\ now >= readyAt[op]
  /\ readyAt[op] > brakeAt + Delay
  /\ ~Expired(op)
  /\ UNCHANGED readyAt

\* Fault: a brake does not pre-empt what was queued before it.
ConsumeDespiteBrake(op, brakeAt) ==
  /\ readyAt[op] # 0
  /\ now >= readyAt[op]
  /\ ~Expired(op)
  /\ readyAt' = [readyAt EXCEPT ![op] = 0]

\* HookrRegistryAdmin._consume: matured, queued after the brake that can
\* pre-empt it (zero for none), not expired; consumed once.
ConsumeAfter(op, brakeAt) ==
  /\ readyAt[op] # 0
  /\ now >= readyAt[op]
  /\ readyAt[op] > brakeAt + Delay
  /\ ~Expired(op)
  /\ readyAt' = [readyAt EXCEPT ![op] = 0]

Consume(op) == ConsumeAfter(op, 0)

-----------------------------------------------------------------------------

\* Time passes between blocks.
Tick ==
  /\ now < MaxTime
  /\ now' = now + 1
  /\ UNCHANGED <<readyAt, roleVars>>

Cancel(caller, op) ==
  /\ OnlyBrake(caller)
  /\ readyAt[op] # 0
  /\ readyAt' = [readyAt EXCEPT ![op] = 0]
  /\ UNCHANGED <<now, roleVars>>

TransferOwnership(caller, next) ==
  /\ OnlyOwner(caller)
  /\ Consume(<<"TRANSFER_OWNER", next>>)
  /\ pendingOwner' = next
  /\ UNCHANGED <<now, owner, guardian>>

CancelOwnershipTransfer(caller) ==
  /\ OnlyOwner(caller)
  /\ pendingOwner # NoOne
  /\ pendingOwner' = NoOne
  /\ UNCHANGED <<now, readyAt, owner, guardian>>

\* Fault: anyone may complete a handover, even when nobody is nominated.
AcceptOwnershipUnchecked(caller) ==
  /\ owner' = pendingOwner
  /\ pendingOwner' = NoOne
  /\ UNCHANGED <<now, readyAt, guardian>>

AcceptOwnership(caller) ==
  /\ caller = pendingOwner
  /\ owner' = caller
  /\ pendingOwner' = NoOne
  /\ UNCHANGED <<now, readyAt, guardian>>

SetGuardian(caller, next) ==
  /\ OnlyOwner(caller)
  /\ Consume(<<"SET_GUARDIAN", next>>)
  /\ guardian' = next
  /\ UNCHANGED <<now, owner, pendingOwner>>

RemoveGuardian(caller) ==
  /\ OnlyOwner(caller)
  /\ guardian' = NoOne
  /\ UNCHANGED <<now, readyAt, owner, pendingOwner>>

Governance(caller) ==
  \/ \E next \in Accounts : TransferOwnership(caller, next)
  \/ CancelOwnershipTransfer(caller)
  \/ AcceptOwnership(caller)
  \/ \E next \in Accounts \cup {NoOne} : SetGuardian(caller, next)
  \/ RemoveGuardian(caller)

=============================================================================
