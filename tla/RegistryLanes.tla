---------------------------- MODULE RegistryLanes ----------------------------
(* The recapture lanes of HookrRegistry: for each root the executor its new  *)
(* pools freeze, and for each root and executor the live switch and gas cap  *)
(* that every pool which froze the executor reads on each swap.  A lane that *)
(* reads as open runs code inside swaps, so each way of stopping one leaves  *)
(* a timestamp that a queued opening or switch-on must come after.           *)
EXTENDS RegistryMarkets

CONSTANTS Executors,
          MinGas, MaxGas \* MIN_LANE_GAS, MAX_LANE_GAS, in abstract steps

ASSUME LaneAssumption ==
  /\ MinGas \in Nat \ {0}
  /\ MaxGas \in Nat
  /\ MinGas <= MaxGas
  /\ NoOne \notin Executors

VARIABLES lanes,   \* State.lanes: [executor, closedAt]
          switches \* State.laneSwitches: [on, gasCap, brakedAt]

laneVars == <<lanes, switches>>

GasCaps == MinGas..MaxGas

LaneOperations ==
  {<<"OPEN_LANE", r, e, g>> : r \in Roots, e \in Executors, g \in GasCaps}
    \cup {<<"LANE_ON", r, e, g>> : r \in Roots, e \in Executors, g \in GasCaps}

LaneState == [executor : Executors \cup {NoOne}, closedAt : Nat]
SwitchState == [on : BOOLEAN, gasCap : {0} \cup GasCaps, brakedAt : Nat]

LaneInit ==
  /\ lanes = [r \in Roots |-> [executor |-> NoOne, closedAt |-> 0]]
  /\ switches = [r \in Roots |-> [e \in Executors |-> [on |-> FALSE, gasCap |-> 0, brakedAt |-> 0]]]

LaneTypeOK ==
  /\ lanes \in [Roots -> LaneState]
  /\ switches \in [Roots -> [Executors -> SwitchState]]

CheckLane(r) ==
  /\ roots[r].active
  /\ roots[r].frozen => registrar[r] # NoOne

CheckLaneOn(r, e) == roots[r].registered /\ switches[r][e].gasCap # 0

CheckLaneOperation(op) ==
  /\ op[1] = "OPEN_LANE" => CheckLane(op[2])
  /\ op[1] = "LANE_ON" => CheckLaneOn(op[2], op[3])

\* activeLaneOf: the executor a new pool of r freezes, NoOne for none.
ActiveLane(r) ==
  LET e == lanes[r].executor
  IN  IF e # NoOne /\ switches[r][e].on THEN e ELSE NoOne

-----------------------------------------------------------------------------

OpenLane(caller, r, e, g) ==
  /\ OnlyOwner(caller)
  /\ CheckLane(r)
  /\ readyAt[<<"OPEN_LANE", r, e, g>>] > lanes[r].closedAt + Delay
  /\ ConsumeAfter(<<"OPEN_LANE", r, e, g>>, switches[r][e].brakedAt)
  /\ lanes' = [lanes EXCEPT ![r] = [executor |-> e, closedAt |-> @.closedAt]]
  /\ switches' = [switches EXCEPT ![r][e] = [on |-> TRUE, gasCap |-> g, brakedAt |-> @.brakedAt]]
  /\ UNCHANGED <<now, roleVars, marketVars>>

CloseLane(caller, r) ==
  /\ OnlyBrake(caller)
  /\ roots[r].registered
  /\ lanes' = [lanes EXCEPT ![r] = [executor |-> NoOne, closedAt |-> now]]
  /\ UNCHANGED <<now, readyAt, roleVars, marketVars, switches>>

StopExecutor(caller, r, e) ==
  /\ OnlyBrake(caller)
  /\ roots[r].registered
  /\ switches' = [switches EXCEPT ![r][e] = [on |-> FALSE, gasCap |-> @.gasCap, brakedAt |-> now]]
  /\ UNCHANGED <<now, readyAt, roleVars, marketVars, lanes>>

TuneExecutor(caller, r, e, g) ==
  /\ OnlyBrake(caller)
  /\ roots[r].registered
  /\ g >= MinGas
  /\ g < switches[r][e].gasCap
  /\ switches' = [switches EXCEPT ![r][e] = [on |-> @.on, gasCap |-> g, brakedAt |-> now]]
  /\ UNCHANGED <<now, readyAt, roleVars, marketVars, lanes>>

StartExecutor(caller, r, e, g) ==
  /\ OnlyOwner(caller)
  /\ CheckLaneOn(r, e)
  /\ ConsumeAfter(<<"LANE_ON", r, e, g>>, switches[r][e].brakedAt)
  /\ switches' = [switches EXCEPT ![r][e] = [on |-> TRUE, gasCap |-> g, brakedAt |-> @.brakedAt]]
  /\ UNCHANGED <<now, roleVars, marketVars, lanes>>

\* Fault: the copied switch keeps the template's state.
CopyLaneRunning(r, template) ==
  LET e == ActiveLane(template)
  IN  IF e = NoOne
      THEN UNCHANGED laneVars
      ELSE /\ lanes' = [lanes EXCEPT ![r] = [executor |-> e, closedAt |-> 0]]
           /\ switches' = [switches EXCEPT ![r][e] = switches[template][e]]

\* HookrRegistryAdmin._copyLane: an owned root takes its template's open lane
\* with the switch off and the registration as the last brake.
CopyLane(r, template) ==
  LET e == ActiveLane(template)
  IN  IF e = NoOne
      THEN UNCHANGED laneVars
      ELSE /\ lanes' = [lanes EXCEPT ![r] = [executor |-> e, closedAt |-> 0]]
           /\ switches' = [switches EXCEPT ![r][e] =
                [on |-> FALSE, gasCap |-> switches[template][e].gasCap, brakedAt |-> now]]

LaneAction(caller) ==
  \E r \in Roots :
    \/ CloseLane(caller, r)
    \/ \E e \in Executors :
         \/ StopExecutor(caller, r, e)
         \/ \E g \in GasCaps :
              \/ OpenLane(caller, r, e, g)
              \/ TuneExecutor(caller, r, e, g)
              \/ StartExecutor(caller, r, e, g)

=============================================================================
