-------------------------- MODULE SimulationService --------------------------
(***************************************************************************)
(* The simulation service of crates/simulation/src/lib.rs: the vehicle an  *)
(* operator describes, the running ECUs built from it, and the two indexes *)
(* requests are routed by.  One mutex guards it, so each of its methods is *)
(* one action.  What a request does inside an ECU is VirtualEcu's subject: *)
(* here it leaves the ECU in some state of its own.                        *)
(*                                                                         *)
(* An ECU of the vehicle is a member of Ecus, which fixes its addresses    *)
(* (NoId where it has none).  The 64-bit revision counters are compared    *)
(* for equality only: unsaved says that the model's differs from the saved *)
(* one, bridge.isStale that the configuration's differs from the one a CAN *)
(* bridge built its endpoints at.                                          *)
(***************************************************************************)
EXTENDS VehicleTopology

CONSTANTS
  CanIds, LogicalAddresses, NoId,
  RequestId, ResponseId, FunctionalId, LogicalAddress,   \* of each ECU
  GatewayLinkId, BehindGatewayLinkId,  \* the ids SetVehicleGateway declares
  DefaultState, UsedState,  \* diagnostic state after a reset, after a request
  DefaultTiming, NoOverrides,
  \* What operators and testers may ask for.
  Loadable,       \* vehicles a file or a capture describes
  Addable,        \* ECUs to add, each with its placement
  Placements,     \* placements of an ECU
  Declarable,     \* networks to declare, each with whether it is an entry point
  GatewayKeys,    \* ECUs to be named the vehicle's gateway
  PowerStates,    \* switching ECUs on and off
  BusStates,      \* whether an ECU may transmit
  PermissiveModes,
  RequestLengths  \* whether a request is too long for one CAN frame

ASSUME AddressAssumption ==
  /\ CanIds \cap LogicalAddresses = {}
  /\ NoId \notin CanIds \cup LogicalAddresses
  /\ RequestId \in [Ecus -> CanIds \cup {NoId}]
  /\ ResponseId \in [Ecus -> CanIds \cup {NoId}]
  /\ FunctionalId \in [Ecus -> CanIds \cup {NoId}]
  /\ LogicalAddress \in [Ecus -> LogicalAddresses \cup {NoId}]
  /\ \A e \in Ecus : RequestId[e] = NoId =>
       ResponseId[e] = NoId /\ FunctionalId[e] = NoId

EcuKeys == CanIds \cup LogicalAddresses
Placement == [network : NetworkIds \cup {NoNetwork}, behind : SUBSET NetworkIds]

ASSUME InputAssumption ==
  /\ {GatewayLinkId, BehindGatewayLinkId} \subseteq NetworkIds
  /\ GatewayLinkId # BehindGatewayLinkId
  /\ GatewayKeys \subseteq EcuKeys
  /\ DefaultState # UsedState
  /\ DefaultTiming \in Timings
  /\ NoOverrides \in Overrides
  /\ \A v \in Loadable : IsVehicle(v) /\ v.isLoaded /\ ValidateTopology(v)
  /\ Placements \subseteq Placement
  /\ Addable \subseteq {e \in Ecus : LogicalAddress[e] = NoId} \X Placement
  /\ Declarable \subseteq NetworkIds \X BOOLEAN
  /\ PowerStates \cup BusStates \cup PermissiveModes \cup RequestLengths
       \subseteq BOOLEAN

VARIABLES
  vehicle,                 \* m_optVehicle
  running,                 \* m_mapEcus
  keyByLogicalAddress,     \* m_mapKeyByLogicalAddress
  functionalTargets,       \* m_mapFunctionalTargets
  isRunning,               \* m_bIsRunning
  isPermissive,            \* m_bIsPermissive
  unsaved,                 \* m_u64ModelRevision # m_u64SavedRevision
  bridge,                  \* a CAN bridge's copy of the endpoints
  reply                    \* what the last call returned

modelVars == <<vehicle, running, keyByLogicalAddress, functionalTargets>>
vars == <<modelVars, isRunning, isPermissive, unsaved, bridge, reply>>

Nothing == [x \in {} |-> x]
Blank(isLoaded) == [isLoaded |-> isLoaded, ecus |-> Nothing, networks |-> Nothing]
NoVehicle == Blank(FALSE)
EmptyVehicle == Blank(TRUE)
IsLoaded == vehicle.isLoaded

-----------------------------------------------------------------------------
(***************************************************************************)
(* EcuKey, and what is derived from the running ECUs                       *)
(***************************************************************************)
\* An ECU is stored under its CAN identifier if it has one, under its logical
\* address otherwise.
KeyOf(e) == IF RequestId[e] # NoId THEN RequestId[e] ELSE LogicalAddress[e]

\* Mutated form of MatchesKey: an ECU is found by its identifier only.
MatchesCanKey(e, key) == key = RequestId[e]

MatchesKey(e, key) == key \in {RequestId[e], LogicalAddress[e]}

RunningEcu == [ecu : Ecus, config : Config, permissive : BOOLEAN,
               canTransmit : BOOLEAN, state : {DefaultState, UsedState}]

\* VirtualEcu::New
NewEcu(e, config) ==
  [ecu |-> e, config |-> config, permissive |-> FALSE, canTransmit |-> TRUE,
   state |-> DefaultState]

Listens(ecus, key, id) == FunctionalId[ecus[key].ecu] = id

\* An ECU's own request identifier that another listens on as a broadcast.
Shadowed(ecus) ==
  {key \in DOMAIN ecus \cap CanIds : \E k \in DOMAIN ecus : Listens(ecus, k, key)}

BuildFunctionalTargetMap(ecus) ==
  [id \in {FunctionalId[ecus[k].ecu] : k \in DOMAIN ecus} \ {NoId} |->
     {k \in DOMAIN ecus : Listens(ecus, k, id)}]

ClaimantsOf(ecus, address) ==
  {k \in DOMAIN ecus : LogicalAddress[ecus[k].ecu] = address}

HasDuplicateAddress(ecus) ==
  \E j, k \in DOMAIN ecus :
    /\ j # k
    /\ LogicalAddress[ecus[j].ecu] = LogicalAddress[ecus[k].ecu]
    /\ LogicalAddress[ecus[j].ecu] # NoId

BuildLogicalAddressIndex(ecus) ==
  [address \in {LogicalAddress[ecus[k].ecu] : k \in DOMAIN ecus} \ {NoId} |->
     CHOOSE k \in ClaimantsOf(ecus, address) : TRUE]

\* Mutated form of RebuildFunctionalTargets: the address index is forgotten.
RebuildTargetsOnly(ecus) ==
  /\ UNCHANGED keyByLogicalAddress
  /\ IF Shadowed(ecus) # {}
     THEN reply' = "refused" /\ UNCHANGED functionalTargets
     ELSE reply' = "ok" /\ functionalTargets' = BuildFunctionalTargetMap(ecus)

(***************************************************************************)
(* RebuildFunctionalTargets: either step may refuse, and what the earlier  *)
(* one stored stays.                                                       *)
(***************************************************************************)
RebuildFunctionalTargets(ecus) ==
  IF Shadowed(ecus) # {}
  THEN /\ reply' = "refused"
       /\ UNCHANGED <<functionalTargets, keyByLogicalAddress>>
  ELSE /\ functionalTargets' = BuildFunctionalTargetMap(ecus)
       /\ IF HasDuplicateAddress(ecus)
          THEN reply' = "refused" /\ UNCHANGED keyByLogicalAddress
          ELSE /\ reply' = "ok"
               /\ keyByLogicalAddress' = BuildLogicalAddressIndex(ecus)

\* The counters: a bridge's copy of the endpoints, and the saved model, are
\* behind from here on.
BumpConfigGeneration == bridge' = [bridge EXCEPT !.isStale = TRUE]
BumpModelRevision == unsaved' = TRUE
MarkedSaved == unsaved' = FALSE

Refuse == reply' = "refused" /\ UNCHANGED <<modelVars, isRunning, isPermissive,
                                            unsaved, bridge>>

-----------------------------------------------------------------------------
(***************************************************************************)
(* Loading and clearing                                                    *)
(***************************************************************************)
Routable(v) == {e \in DOMAIN v.ecus : KeyOf(e) # NoId}

SharesIdentifiers(d, e) ==
  \/ KeyOf(d) = KeyOf(e)
  \/ ResponseId[d] = ResponseId[e] /\ ResponseId[d] # NoId

\* BuildEcuMap, with the permissive mode LoadVehicle applies afterwards.
BuildEcuMap(v) ==
  [key \in {KeyOf(e) : e \in Routable(v)} |->
     LET e == CHOOSE x \in Routable(v) : KeyOf(x) = key
     IN  [NewEcu(e, v.ecus[e]) EXCEPT !.permissive = isPermissive]]

IsAccepted(v) ==
  /\ Routable(v) # {}
  /\ \A d, e \in Routable(v) : d # e => ~SharesIdentifiers(d, e)
  /\ Shadowed(BuildEcuMap(v)) = {}
  /\ ~HasDuplicateAddress(BuildEcuMap(v))

LoadVehicle(v) ==
  IF ~IsAccepted(v) THEN Refuse
  ELSE /\ vehicle' = v
       /\ running' = BuildEcuMap(v)
       /\ keyByLogicalAddress' = BuildLogicalAddressIndex(BuildEcuMap(v))
       /\ functionalTargets' = BuildFunctionalTargetMap(BuildEcuMap(v))
       /\ isRunning' = TRUE
       /\ BumpConfigGeneration /\ MarkedSaved
       /\ reply' = "loaded"
       /\ UNCHANGED isPermissive

\* Clear leaves keyByLogicalAddress as it was, and so does CreateEmptyVehicle.
Discard(v) ==
  /\ vehicle' = v
  /\ running' = Nothing
  /\ functionalTargets' = Nothing
  /\ BumpConfigGeneration /\ MarkedSaved
  /\ reply' = "loaded"
  /\ UNCHANGED <<keyByLogicalAddress, isRunning, isPermissive>>

Clear == Discard(NoVehicle)

CreateEmptyVehicle == Discard(EmptyVehicle)

-----------------------------------------------------------------------------
(***************************************************************************)
(* Editing the set of ECUs                                                 *)
(***************************************************************************)
RejectDuplicateIdentifiers(e) ==
  \E k \in DOMAIN running : \/ k = RequestId[e]
                            \/ ResponseId[running[k].ecu] = ResponseId[e]

Put(map, key, value) ==
  [k \in DOMAIN map \cup {key} |-> IF k = key THEN value ELSE map[k]]
Without(map, keys) == [k \in DOMAIN map \ keys |-> map[k]]

\* The configuration PostAddEcu builds from the request's placement.
NewConfig(placement) ==
  [network |-> placement.network, behind |-> placement.behind,
   enabled |-> TRUE, timing |-> DefaultTiming, overrides |-> NoOverrides]

\* Mutated form of AddEcu: the ECU runs before its identifiers are checked.
AddEcuThenCheck(e, placement) ==
  /\ running' = Put(running, RequestId[e], NewEcu(e, NewConfig(placement)))
  /\ IF ~IsLoaded \/ RejectDuplicateIdentifiers(e)
     THEN /\ reply' = "refused"
          /\ UNCHANGED <<vehicle, keyByLogicalAddress, functionalTargets, unsaved,
                         bridge>>
     ELSE /\ vehicle' = [vehicle EXCEPT !.ecus = Put(@, e, NewConfig(placement))]
          /\ BumpConfigGeneration /\ BumpModelRevision
          /\ RebuildFunctionalTargets(running')
  /\ UNCHANGED <<isRunning, isPermissive>>

\* Mutated form of AddEcu: the revision moves only if the indexes could be rebuilt.
AddEcuThenBump(e, placement) ==
  IF ~IsLoaded \/ RequestId[e] = NoId \/ RejectDuplicateIdentifiers(e)
  THEN Refuse
  ELSE /\ running' = Put(running, RequestId[e], NewEcu(e, NewConfig(placement)))
       /\ vehicle' = [vehicle EXCEPT !.ecus = Put(@, e, NewConfig(placement))]
       /\ RebuildFunctionalTargets(running')
       /\ IF reply' = "ok" THEN BumpConfigGeneration /\ BumpModelRevision
          ELSE UNCHANGED <<bridge, unsaved>>
       /\ UNCHANGED <<isRunning, isPermissive>>

\* The ECU is in the vehicle and running before the indexes are rebuilt, and
\* stays there when that is refused.
AddEcu(e, placement) ==
  IF ~IsLoaded \/ RequestId[e] = NoId \/ RejectDuplicateIdentifiers(e)
  THEN Refuse
  ELSE /\ running' = Put(running, RequestId[e],
                         [NewEcu(e, NewConfig(placement))
                            EXCEPT !.permissive = isPermissive])
       /\ vehicle' = [vehicle EXCEPT !.ecus = Put(@, e, NewConfig(placement))]
       /\ BumpConfigGeneration /\ BumpModelRevision
       /\ RebuildFunctionalTargets(running')
       /\ UNCHANGED <<isRunning, isPermissive>>

RemoveEcu(key) ==
  IF key \notin DOMAIN running THEN Refuse
  ELSE /\ running' = Without(running, {key})
       /\ vehicle' = [vehicle EXCEPT !.ecus =
                        Without(@, {e \in DOMAIN @ : MatchesKey(e, key)})]
       /\ BumpConfigGeneration /\ BumpModelRevision
       /\ RebuildFunctionalTargets(running')
       /\ UNCHANGED <<isRunning, isPermissive>>

-----------------------------------------------------------------------------
(***************************************************************************)
(* Settings of an ECU: written to the running ECU and to the vehicle       *)
(***************************************************************************)
With(config, field, value) == [config EXCEPT ![field] = value]

Configure(keys, field, value) ==
  /\ running' = [k \in DOMAIN running |->
                   IF k \in keys
                   THEN [running[k] EXCEPT !.config = With(@, field, value)]
                   ELSE running[k]]
  /\ vehicle' = [vehicle EXCEPT !.ecus =
                   [e \in DOMAIN @ |->
                      IF \E k \in keys : MatchesKey(e, k)
                      THEN With(@[e], field, value) ELSE @[e]]]
  /\ BumpModelRevision
  /\ reply' = "ok"
  /\ UNCHANGED <<keyByLogicalAddress, functionalTargets, isRunning, isPermissive>>

\* RenameEcu and SetEcuSecurityLevels differ in the setting they replace only.
SetEcuOverrides(key, overrides) ==
  IF key \notin DOMAIN running THEN Refuse
  ELSE Configure({key}, "overrides", overrides) /\ UNCHANGED bridge

SetEcuEnabled(key, isEnabled) ==
  IF key \notin DOMAIN running THEN Refuse
  ELSE Configure({key}, "enabled", isEnabled) /\ UNCHANGED bridge

\* Mutated form of SetEcuTiming: no transport is told.
SetEcuTimingQuietly(key, timing) ==
  IF key \notin DOMAIN running THEN Refuse
  ELSE Configure({key}, "timing", timing) /\ UNCHANGED bridge

SetEcuTiming(key, timing) ==
  IF key \notin DOMAIN running THEN Refuse
  ELSE Configure({key}, "timing", timing) /\ BumpConfigGeneration

\* Timings stand for the flow control in them here.
SetFlowControlForEveryEcu(timing) ==
  LET changed == {k \in DOMAIN running : running[k].config.timing # timing}
  IN  IF changed = {}
      THEN /\ reply' = "ok"
           /\ UNCHANGED <<modelVars, isRunning, isPermissive, unsaved, bridge>>
      ELSE Configure(changed, "timing", timing) /\ BumpConfigGeneration

-----------------------------------------------------------------------------
(***************************************************************************)
(* The wiring: edited on a copy of the vehicle that is stored only if it   *)
(* still describes something that could exist                              *)
(***************************************************************************)
\* Mutated form of CanCommit: loops are not looked for.
CanCommitLoops(v) ==
  LET edited == NormalizeEntryPoints(v)
  IN  NamesDeclaredNetworks(edited) /\ RejectSharedGateways(edited)

CanCommit(v) == ValidateTopology(NormalizeEntryPoints(v))

CommitVehicleEdit(v) ==
  /\ vehicle' = NormalizeEntryPoints(v)
  /\ reply' = "ok"
  /\ UNCHANGED <<keyByLogicalAddress, functionalTargets, isRunning,
                 isPermissive, bridge>>

UpsertNetwork(n, isEntryPoint) ==
  LET edited == [vehicle EXCEPT !.networks = Put(@, n, isEntryPoint)]
  IN  IF ~IsLoaded \/ ~CanCommit(edited) THEN Refuse
      ELSE /\ CommitVehicleEdit(edited)
           /\ BumpModelRevision
           /\ UNCHANGED running

IsOnOrBehindNetwork(config, n) == config.network = n \/ n \in config.behind

RemoveNetwork(n) ==
  LET edited == [vehicle EXCEPT !.networks = Without(@, {n})]
  IN  IF \/ ~IsLoaded
         \/ n \notin Declared(vehicle)
         \/ \E e \in DOMAIN vehicle.ecus :
              IsOnOrBehindNetwork(vehicle.ecus[e], n)
         \/ ~CanCommit(edited)
      THEN Refuse
      ELSE /\ CommitVehicleEdit(edited)
           /\ BumpModelRevision
           /\ UNCHANGED running

Place(config, placement) ==
  [config EXCEPT !.network = placement.network, !.behind = placement.behind]

\* The model revision stays as it is, and a running ECU is found only under
\* the key it is stored by.
SetEcuPlacement(key, placement) ==
  LET matching == {e \in DOMAIN vehicle.ecus : MatchesKey(e, key)}
      edited == [vehicle EXCEPT !.ecus =
                   [e \in DOMAIN @ |->
                      IF e \in matching THEN Place(@[e], placement) ELSE @[e]]]
  IN  IF ~IsLoaded THEN Refuse
      ELSE IF matching = {} \/ ~CanCommit(edited) THEN Refuse
      ELSE /\ CommitVehicleEdit(edited)
           /\ running' = [k \in DOMAIN running |->
                            IF k = key
                            THEN [running[k] EXCEPT !.config = Place(@, placement)]
                            ELSE running[k]]
           /\ UNCHANGED unsaved

AtTheFront == [network |-> GatewayLinkId, behind |-> {BehindGatewayLinkId}]
BehindIt == [network |-> BehindGatewayLinkId, behind |-> {}]

WithGateway(v, gateways) ==
  [v EXCEPT
     !.ecus = [e \in DOMAIN @ |->
                 Place(@[e], IF e \in gateways THEN AtTheFront ELSE BehindIt)],
     !.networks = Put(Put(@, GatewayLinkId, TRUE), BehindGatewayLinkId, FALSE)]

SetVehicleGateway(key) ==
  IF ~IsLoaded THEN Refuse
  ELSE LET gateways == {e \in DOMAIN vehicle.ecus : MatchesKey(e, key)}
           edited == WithGateway(vehicle, gateways)
       IN  IF gateways = {} \/ ~CanCommit(edited) THEN Refuse
           ELSE /\ CommitVehicleEdit(edited)
                /\ running' =
                     [k \in DOMAIN running |->
                        [running[k] EXCEPT !.config =
                           Place(@, IF k = key THEN AtTheFront ELSE BehindIt)]]
                /\ BumpModelRevision

SetVehicleIdentity ==
  IF ~IsLoaded THEN Refuse
  ELSE /\ BumpModelRevision
       /\ reply' = "ok"
       /\ UNCHANGED <<modelVars, isRunning, isPermissive, bridge>>

-----------------------------------------------------------------------------
(***************************************************************************)
(* The whole simulation                                                    *)
(***************************************************************************)
SetPermissiveMode(isOn) ==
  /\ isPermissive' = isOn
  /\ running' = [k \in DOMAIN running |-> [running[k] EXCEPT !.permissive = isOn]]
  /\ BumpModelRevision
  /\ reply' = "ok"
  /\ UNCHANGED <<vehicle, keyByLogicalAddress, functionalTargets, isRunning,
                 bridge>>

\* Each ECU is built anew from its configuration, so what New sets goes too:
\* its permissive flag and its bus state.
ResetAllEcus ==
  /\ running' = [k \in DOMAIN running |->
                   NewEcu(running[k].ecu, running[k].config)]
  /\ reply' = "ok"
  /\ UNCHANGED <<vehicle, keyByLogicalAddress, functionalTargets, isRunning,
                 isPermissive, unsaved, bridge>>

SetEcuFaultConfinement(key, canTransmit) ==
  IF key \notin DOMAIN running THEN Refuse
  ELSE /\ running' = [running EXCEPT ![key].canTransmit = canTransmit]
       /\ reply' = "ok"
       /\ UNCHANGED <<vehicle, keyByLogicalAddress, functionalTargets,
                      isRunning, isPermissive, unsaved, bridge>>

SetRunning(isOn) ==
  /\ isRunning' = isOn
  /\ reply' = "ok"
  /\ UNCHANGED <<modelVars, isPermissive, unsaved, bridge>>
Start == SetRunning(TRUE)
Stop == SetRunning(FALSE)

\* GetSimulationExport writes the vehicle out under the lock.
MarkSaved ==
  /\ IsLoaded
  /\ MarkedSaved
  /\ reply' = "ok"
  /\ UNCHANGED <<modelVars, isRunning, isPermissive, bridge>>

-----------------------------------------------------------------------------
(***************************************************************************)
(* Routing a request                                                       *)
(***************************************************************************)
\* Mutated form of IsSilent: the gateways between are not looked at.
IsSilentItself(ecu) == ~ecu.config.enabled \/ ~ecu.canTransmit

\* DescribeWhySilent: the wiring is the vehicle's, the place in it the one
\* the running ECU remembers.
IsSilent(ecu) ==
  \/ ~ecu.config.enabled
  \/ ~ecu.canTransmit
  \/ DiagnosticPathTo(vehicle, ecu.config).blocked

Audible(keys) == {k \in keys \cap DOMAIN running : ~IsSilent(running[k])}

\* ProcessOnEcu on each of the keys.
Process(keys) ==
  running' = [k \in DOMAIN running |->
                IF k \in keys THEN [running[k] EXCEPT !.state = UsedState]
                ELSE running[k]]

\* A routing outcome: these ECUs handled the request.  The outcomes that
\* no ECU did differ in what the caller is told only.
Answer(keys) ==
  /\ Process(keys)
  /\ reply' = "ok"
  /\ UNCHANGED <<vehicle, keyByLogicalAddress, functionalTargets, isRunning,
                 isPermissive, unsaved, bridge>>

ProcessOnKey(key) ==
  Answer(Audible({key}))

\* A broadcast on CAN fits one frame or is ignored.
ProcessFunctional(id, isLong) ==
  Answer(IF isLong THEN {} ELSE Audible(functionalTargets[id]))

ProcessByCanId(id, isLong) ==
  IF ~isRunning THEN Answer({})
  ELSE IF id \in DOMAIN running THEN ProcessOnKey(id)
  ELSE IF id \in DOMAIN functionalTargets THEN ProcessFunctional(id, isLong)
  ELSE Answer({})

ProcessByLogicalAddress(address) ==
  IF ~isRunning \/ address \notin DOMAIN keyByLogicalAddress THEN Answer({})
  ELSE ProcessOnKey(keyByLogicalAddress[address])

ReachedOnlyOverCan(key) ==
  LogicalAddress[running[key].ecu] = NoId /\ RequestId[running[key].ecu] # NoId

\* A functional group address of DoIP reaches the whole vehicle.
ProcessFunctionalByLogicalAddress(isLong) ==
  IF \/ ~isRunning
     \/ isLong /\ (\E k \in DOMAIN running : ReachedOnlyOverCan(k))
  THEN Answer({})
  ELSE Answer(Audible(DOMAIN running))

-----------------------------------------------------------------------------
(***************************************************************************)
(* The endpoints a CAN bridge caches (bridge/src/lib.rs)                   *)
(***************************************************************************)
Broadcast == [response |-> NoId, timing |-> DefaultTiming]

\* A physical endpoint takes the place of a broadcast one on its identifier.
EndpointsOf(ecus) ==
  [id \in (DOMAIN ecus \cap CanIds)
            \cup ({FunctionalId[ecus[k].ecu] : k \in DOMAIN ecus} \ {NoId}) |->
     IF id \in DOMAIN ecus
     THEN [response |-> ResponseId[ecus[id].ecu], timing |-> ecus[id].config.timing]
     ELSE Broadcast]

RebuildEndpointsIfStale ==
  /\ bridge.isStale
  /\ bridge' = [endpoints |-> EndpointsOf(running), isStale |-> FALSE]
  /\ reply' = "ok"
  /\ UNCHANGED <<modelVars, isRunning, isPermissive, unsaved>>

-----------------------------------------------------------------------------
Init ==
  /\ vehicle = NoVehicle
  /\ running = Nothing
  /\ keyByLogicalAddress = Nothing
  /\ functionalTargets = Nothing
  /\ isRunning = TRUE
  /\ isPermissive = FALSE
  /\ unsaved = FALSE
  /\ bridge = [endpoints |-> Nothing, isStale |-> FALSE]
  /\ reply = "ok"

EditVehicle ==
  \/ \E v \in Loadable : LoadVehicle(v)
  \/ Clear
  \/ CreateEmptyVehicle
  \/ \E a \in Addable : AddEcu(a[1], a[2])
  \/ \E key \in EcuKeys : RemoveEcu(key)

EditEcu ==
  \E key \in EcuKeys :
    \/ \E overrides \in Overrides : SetEcuOverrides(key, overrides)
    \/ \E timing \in Timings : SetEcuTiming(key, timing)
    \/ \E isEnabled \in PowerStates : SetEcuEnabled(key, isEnabled)
    \/ \E canTransmit \in BusStates : SetEcuFaultConfinement(key, canTransmit)

EditWiring ==
  \/ \E d \in Declarable : UpsertNetwork(d[1], d[2])
  \/ \E d \in Declarable : RemoveNetwork(d[1])
  \/ \E key \in EcuKeys, p \in Placements : SetEcuPlacement(key, p)
  \/ \E key \in GatewayKeys : SetVehicleGateway(key)

EditSimulation ==
  \/ \E timing \in Timings : SetFlowControlForEveryEcu(timing)
  \/ \E isOn \in PermissiveModes : SetPermissiveMode(isOn)
  \/ SetVehicleIdentity
  \/ ResetAllEcus
  \/ Start
  \/ Stop
  \/ MarkSaved

Request ==
  \E isLong \in RequestLengths :
    \/ \E id \in CanIds : ProcessByCanId(id, isLong)
    \/ \E address \in LogicalAddresses : ProcessByLogicalAddress(address)
    \/ ProcessFunctionalByLogicalAddress(isLong)

Next ==
  \/ EditVehicle
  \/ EditEcu
  \/ EditWiring
  \/ EditSimulation
  \/ Request
  \/ RebuildEndpointsIfStale

Spec == Init /\ [][Next]_vars

-----------------------------------------------------------------------------
EndpointRecord == [response : CanIds \cup {NoId}, timing : Timings]

TypeOK ==
  /\ IsVehicle(vehicle)
  /\ IsMap(running, EcuKeys, RunningEcu)
  /\ IsMap(keyByLogicalAddress, LogicalAddresses, EcuKeys)
  /\ IsMap(functionalTargets, CanIds, SUBSET EcuKeys)
  /\ isRunning \in BOOLEAN
  /\ isPermissive \in BOOLEAN
  /\ unsaved \in BOOLEAN
  /\ bridge = [endpoints |-> bridge.endpoints, isStale |-> bridge.isStale]
  /\ IsMap(bridge.endpoints, CanIds, EndpointRecord)
  /\ bridge.isStale \in BOOLEAN
  /\ reply \in {"ok", "loaded", "refused"}

\* Both indexes are derived from the running ECUs and follow every edit of
\* them ("letting one go stale would be a silent routing bug"): whatever calls
\* came before, an identifier and an address lead to the ECUs that carry them.
\* Excepted are a broadcast identifier that an ECU has as its own, where the
\* rebuild is refused, and a service that runs no ECU (see Discard).
IndexesFollowEcus ==
  Shadowed(running) = {} /\ ~HasDuplicateAddress(running) =>
    /\ functionalTargets = BuildFunctionalTargetMap(running)
    /\ DOMAIN running # {} =>
         keyByLogicalAddress = BuildLogicalAddressIndex(running)

\* The model that is shown and written to a file is the one that is simulated:
\* every ECU of the vehicle that can be addressed runs, nothing else does, and
\* both copies of its settings agree.
SameSettings(c, d) ==
  c.enabled = d.enabled /\ c.timing = d.timing /\ c.overrides = d.overrides

ModelMatchesRunning ==
  /\ DOMAIN running = {KeyOf(e) : e \in Routable(vehicle)}
  /\ \A k \in DOMAIN running :
       /\ running[k].ecu \in Routable(vehicle)
       /\ KeyOf(running[k].ecu) = k
       /\ SameSettings(running[k].config, vehicle.ecus[running[k].ecu])

\* A bridge that sees no new configuration generation listens on the
\* identifiers, and advertises the flow control, of the ECUs that run now: no
\* edit of either forgets to move the generation.
BridgeServesWhatRuns ==
  ~bridge.isStale => bridge.endpoints = EndpointsOf(running)

\* A call that returns an error leaves the service as it was, unless the edit
\* of the ECUs was carried out and only the rebuild of the indexes refused,
\* over an identifier that is both a broadcast's and an ECU's own.
RefusedEditChangesNothing ==
  [][reply' = "refused" =>
       \/ UNCHANGED <<modelVars, isRunning, isPermissive, unsaved, bridge>>
       \/ Shadowed(running') # {}]_vars

\* Every edit of the loaded model but one counts as unsaved work, the refused
\* AddEcu that left its ECU behind included, so that the operator is warned
\* before the vehicle is replaced.  SetEcuPlacement is the one.
EditsAreUnsavedWork ==
  [][reply' # "loaded" /\ vehicle' # vehicle =>
       unsaved' \/ \E key \in EcuKeys, p \in Placements : SetEcuPlacement(key, p)]_vars

\* m_u64ModelRevision: "Bumped by every change to the loaded model".
EveryEditIsUnsavedWork ==
  [][reply' # "loaded" /\ vehicle' # vehicle => unsaved']_vars

\* A request changes the state only of ECUs that are on the air: the
\* simulation runs, the ECU is switched on, is not bus-off and has no
\* switched-off gateway between it and the tester, whichever of the four ways
\* of addressing it was used.
SilentEcusHearNothing ==
  [][\A k \in DOMAIN running \cap DOMAIN running' :
       running[k].state = DefaultState /\ running'[k].state = UsedState =>
         /\ isRunning
         /\ running[k].config.enabled
         /\ running[k].canTransmit
         /\ ~DiagnosticPathTo(vehicle, running[k].config).blocked]_vars

\* No order of edits leads from wiring that could exist to wiring that could
\* not (a network nobody declared, a second gateway, a loop), except that
\* AddEcu takes any placement.
WiringStaysSound ==
  [][vehicle' # vehicle /\ ValidateTopology(vehicle) =>
       \/ ValidateTopology(vehicle')
       \/ \E a \in Addable : AddEcu(a[1], a[2])]_vars

\* ValidateTopology: "Called before a vehicle is accepted from any of the three
\* sources, so a bad file, a bad API call and a bad hand-built model all fail".
WiringIsSound == ValidateTopology(vehicle)

\* The two traversals of the wiring agree on sound wiring: an ECU's walk up
\* finds a tester exactly if the search down from the entry points finds its
\* network, and across the same number of gateways (the diagram shows both).
PathsAgreeWithDepths ==
  ValidateTopology(vehicle) =>
    \A n \in NetworkIds :
      LET path == PathFrom(vehicle)[n]
          depths == NetworkDepths(vehicle)
      IN  /\ path.reachable <=> n \in DOMAIN depths
          /\ path.reachable => path.hops = depths[n]
=============================================================================
