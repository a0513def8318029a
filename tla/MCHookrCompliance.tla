--------------------------- MODULE MCHookrCompliance ---------------------------
(* Instances of HookrCompliance and its guard for TLC.  A behaviour looks at  *)
(* the list and guardian brakes, at the grants to one account, at the         *)
(* credentials of one wallet, at the exits of a pool whose terms name a list, *)
(* or at the sanction screen of a pool without one while its family changes   *)
(* hands: the owner queues the operations of that part only, and the epochs   *)
(* and brakes of the rest stay as they are.                                   *)
EXTENDS HookrComplianceGuard

\* Model values.
CONSTANTS o, a,  \* the owner, itself an attester, and an account that is given roles
          l1, w1, w2, s1, t1

RoleAgenda ==
  {<<"CREATE_LIST", l1>>, <<"RESUME_LIST", l1>>, <<"GRANT_GUARDIAN", a>>}

GrantAgenda ==
  {<<"CREATE_LIST", l1>>, <<"GRANT_ATTESTER", l1, a>>, <<"GRANT_OFFICER", a>>}

CredentialAgenda ==
  {<<"CREATE_LIST", l1>>, <<"GRANT_ATTESTER", l1, a>>, <<"GRANT_ATTESTER", l1, o>>, <<"VOID_CREDENTIALS", l1, a>>}

ExitAgenda ==
  {<<"CREATE_LIST", l1>>, <<"GRANT_ATTESTER", l1, a>>, <<"SET_SANCTIONS_SOURCE", s1>>}

ScreenAgenda == {<<"GRANT_OFFICER", a>>, <<"SET_SANCTIONS_SOURCE", s1>>}

ExitTerms ==
  {[list |-> l1, requireAll |-> {t1}, blockAny |-> {}, flags |-> {"CHECK_BENEFICIARY", "KYC_ON_SELL"}]}

ScreenTerms ==
  {[list |-> NoOne, requireAll |-> {}, blockAny |-> {}, flags |-> {"CHECK_BENEFICIARY"}]}

-----------------------------------------------------------------------------

CONSTANT Focuses \* the parts a run looks at

VARIABLE focus

Agendas ==
  [roles |-> RoleAgenda, grants |-> GrantAgenda, credentials |-> CredentialAgenda,
   exits |-> ExitAgenda, screens |-> ScreenAgenda]

Horizon == [roles |-> 4, grants |-> 4, credentials |-> 3, exits |-> 3, screens |-> 2]

LastEpoch == [roles |-> 2, grants |-> 1, credentials |-> 1, exits |-> 1, screens |-> 1]

AgendaOfFocuses == UNION {Agendas[f] : f \in Focuses}

TermsOfFocuses == ExitTerms \cup ScreenTerms

\* One attester can be braked; the other stays, and its grant is announced at the start.
Braked == Agendas[focus] \ {<<"GRANT_ATTESTER", l1, o>>}

\* No pool is bound; one wallet, without tiers, and no source.
ListInFocus ==
  /\ UNCHANGED <<terms, familyOwner, launching, sourceVars>>
  /\ focus # "credentials" => UNCHANGED <<credentials, sanctioned>>
  /\ focus = "credentials" =>
       /\ readyAt'[<<"GRANT_ATTESTER", l1, o>>][0] <= Delay + 1
       /\ credentials'[l1][w1].tiers = {} /\ w2 \notin sanctioned'

\* The pool's exits: its owner and one other wallet, whom nothing but its family concerns.
\* The list is announced at the start, or not at all.
ExitInFocus ==
  /\ focus = "exits" =>
       /\ terms' \in ExitTerms \cup {NotBound}
       /\ familyOwner' = w1
       /\ w2 \notin sanctioned'
       /\ \A s \in Sources : w2 \notin sourceLists'[s]
       /\ UNCHANGED launching
       /\ readyAt'[<<"CREATE_LIST", l1>>][0] <= Delay + 1
  /\ focus = "screens" => terms' \in ScreenTerms \cup {NotBound}
  /\ UNCHANGED credentials \/ credentials'[l1][w1].expiresAt <= now + 1

InFocus ==
  /\ \A op \in ComplianceOperations \ Agendas[focus] : readyAt'[op] = readyAt[op]
  /\ now' <= Horizon[focus]
  /\ \A s \in Switches :
       /\ s \notin Braked => epoch'[s] = epoch[s] /\ heldSince'[s] = heldSince[s]
       /\ epoch'[s] <= LastEpoch[focus]
  /\ \A l \in Lists : credentials'[l][w2] = credentials[l][w2]
  /\ IF focus \in {"exits", "screens"} THEN ExitInFocus ELSE ListInFocus

MCInit ==
  /\ GuardInit
  /\ focus \in Focuses
  /\ focus # "screens" => familyOwner = w1

MCNext == GuardNext /\ InFocus /\ UNCHANGED focus

MCSpec == MCInit /\ [][MCNext]_<<guardVars, focus>>

=============================================================================
