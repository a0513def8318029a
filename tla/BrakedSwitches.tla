---------------------------- MODULE BrakedSwitches ----------------------------
(* What the timelocks of this repository promise about a family of           *)
(* permissions: a brake withdraws one at once; only an operation announced   *)
(* no earlier than its last brake restores it, and only when the             *)
(* announcement has stood for a full delay and has not expired.  The         *)
(* registry keeps many such switches in different encodings, and             *)
(* HookrGoverned keeps them by epochs; each is shown to implement this.      *)
EXTENDS Naturals

CONSTANTS Switches,
          LiftsOf,      \* [Switches -> sets of operations that switch it on]
          Delay, Grace

VARIABLES now,
          on,           \* [Switches -> BOOLEAN]: the permission
          brakedAt,     \* [Switches -> Nat]: its last brake, zero for never
          announcedAt   \* when each lift was announced, zero for not announced

switchVars == <<now, on, brakedAt, announcedAt>>

AllLifts == UNION {LiftsOf[s] : s \in Switches}

SwitchInit ==
  /\ now \in Nat \ {0}
  /\ on \in [Switches -> BOOLEAN]
  /\ brakedAt = [s \in Switches |-> 0]
  /\ announcedAt = [l \in AllLifts |-> 0]

TimePasses ==
  /\ now' \in Nat /\ now' > now
  /\ UNCHANGED <<on, brakedAt, announcedAt>>

\* An announcement that still stands is not renewed, so its age only grows.
AnnounceLift(l) ==
  /\ announcedAt[l] = 0 \/ now > announcedAt[l] + Delay + Grace
  /\ announcedAt' = [announcedAt EXCEPT ![l] = now]
  /\ UNCHANGED <<now, on, brakedAt>>

Withdraw(l) ==
  /\ announcedAt' = [announcedAt EXCEPT ![l] = 0]
  /\ UNCHANGED <<now, on, brakedAt>>

\* Each announcement lifts once.
Lift(s, l) ==
  /\ announcedAt[l] # 0
  /\ announcedAt[l] >= brakedAt[s]
  /\ now >= announcedAt[l] + Delay
  /\ now <= announcedAt[l] + Delay + Grace
  /\ on' = [on EXCEPT ![s] = TRUE]
  /\ announcedAt' = [announcedAt EXCEPT ![l] = 0]
  /\ UNCHANGED <<now, brakedAt>>

\* A brake may also void announcements of the operations that would undo it.
Brake(s) ==
  /\ on' = [on EXCEPT ![s] = FALSE]
  /\ brakedAt' = [brakedAt EXCEPT ![s] = now]
  /\ \E void \in SUBSET LiftsOf[s] :
       announcedAt' = [l \in AllLifts |-> IF l \in void THEN 0 ELSE announcedAt[l]]
  /\ UNCHANGED now

\* A withdrawal that is not a brake, itself an announced operation.
SwitchOff(s) ==
  /\ on' = [on EXCEPT ![s] = FALSE]
  /\ UNCHANGED <<now, brakedAt, announcedAt>>

SwitchNext ==
  \/ TimePasses
  \/ \E l \in AllLifts : AnnounceLift(l) \/ Withdraw(l)
  \/ \E s \in Switches :
       \/ \E l \in LiftsOf[s] : Lift(s, l)
       \/ Brake(s)
       \/ SwitchOff(s)

SwitchSpec == SwitchInit /\ [][SwitchNext]_switchVars

\* Once braked, a permission stays withdrawn for at least one full delay.
HoldsFullDelay ==
  \A s \in Switches : brakedAt[s] # 0 /\ now < brakedAt[s] + Delay => ~on[s]

=============================================================================
