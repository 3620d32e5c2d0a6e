----------------------- MODULE SimulationServiceProofs -----------------------
(***************************************************************************)
(* Proofs about SimulationService, in two layers.  TypeOK is inductive by  *)
(* itself.  That the indexes and a bridge follow the running ECUs is not:  *)
(* removing an ECU takes only the one that runs under the key out of the   *)
(* vehicle if no other ECU has that key as its address.  IndInv adds what  *)
(* rules this out, the registry: the vehicle's ECUs and the running ones   *)
(* are the same, each under a key of its own, and no two share an address. *)
(***************************************************************************)
EXTENDS SimulationService, TLAPS, FiniteSetTheorems, WellFoundedInduction

-----------------------------------------------------------------------------
(***************************************************************************)
(* Types of the operators the actions are built from                       *)
(***************************************************************************)
\* Putting an entry into a map keeps it a map.
LEMMA PutType ==
  ASSUME NEW K, NEW V, NEW m, IsMap(m, K, V), NEW k \in K, NEW x \in V
  PROVE  IsMap(Put(m, k, x), K, V)
BY DEF IsMap, Put

\* Taking keys away keeps a map a map.
LEMMA WithoutType ==
  ASSUME NEW K, NEW V, NEW m, IsMap(m, K, V), NEW S
  PROVE  IsMap(Without(m, S), K, V)
BY DEF IsMap, Without

\* The empty map is a map of every kind.
LEMMA NothingType ==
  ASSUME NEW K, NEW V
  PROVE  IsMap(Nothing, K, V) /\ DOMAIN Nothing = {}
BY DEF IsMap, Nothing

\* The fields of a configuration that the operator edits.
LEMMA ConfigType ==
  ASSUME NEW c \in Config
  PROVE  /\ \A x \in BOOLEAN : [c EXCEPT !.enabled = x] \in Config
         /\ \A x \in Timings : [c EXCEPT !.timing = x] \in Config
         /\ \A x \in Overrides : [c EXCEPT !.overrides = x] \in Config
         /\ \A p \in Placement : Place(c, p) \in Config
<1>1. \A x \in BOOLEAN : [c EXCEPT !.enabled = x] \in Config  BY DEF Config
<1>2. \A x \in Timings : [c EXCEPT !.timing = x] \in Config  BY DEF Config
<1>3. \A x \in Overrides : [c EXCEPT !.overrides = x] \in Config  BY DEF Config
<1>4. ASSUME NEW p \in Placement PROVE Place(c, p) \in Config
  BY <1>4 DEF Config, Placement, Place
<1> QED BY <1>1, <1>2, <1>3, <1>4

\* A running ECU stays one whatever field of it is replaced, and stays the
\* same ECU unless that is the field.
LEMMA RunningEcuType ==
  ASSUME NEW r \in RunningEcu
  PROVE  /\ \A c \in Config : /\ [r EXCEPT !.config = c] \in RunningEcu
                              /\ [r EXCEPT !.config = c].ecu = r.ecu
                              /\ [r EXCEPT !.config = c].config = c
         /\ \A b \in BOOLEAN :
              /\ [r EXCEPT !.permissive = b] \in RunningEcu
              /\ [r EXCEPT !.permissive = b].ecu = r.ecu
              /\ [r EXCEPT !.permissive = b].config = r.config
              /\ [r EXCEPT !.canTransmit = b] \in RunningEcu
              /\ [r EXCEPT !.canTransmit = b].ecu = r.ecu
              /\ [r EXCEPT !.canTransmit = b].config = r.config
         /\ [r EXCEPT !.state = UsedState] \in RunningEcu
         /\ [r EXCEPT !.state = UsedState].ecu = r.ecu
         /\ [r EXCEPT !.state = UsedState].config = r.config
         /\ r.ecu \in Ecus /\ r.config \in Config
BY DEF RunningEcu

\* An ECU that was just built is a running ECU.
LEMMA NewEcuType ==
  ASSUME NEW e \in Ecus, NEW c \in Config
  PROVE  /\ NewEcu(e, c) \in RunningEcu
         /\ NewEcu(e, c).ecu = e
         /\ NewEcu(e, c).config = c
BY DEF NewEcu, RunningEcu

\* The derived maps.
LEMMA BuildMapTypes ==
  ASSUME NEW r, IsMap(r, EcuKeys, RunningEcu)
  PROVE  /\ IsMap(BuildFunctionalTargetMap(r), CanIds, SUBSET EcuKeys)
         /\ IsMap(BuildLogicalAddressIndex(r), LogicalAddresses, EcuKeys)
<1>1. \A k \in DOMAIN r : r[k].ecu \in Ecus
  BY RunningEcuType DEF IsMap
<1>2. IsMap(BuildFunctionalTargetMap(r), CanIds, SUBSET EcuKeys)
  BY <1>1, AddressAssumption DEF IsMap, BuildFunctionalTargetMap
<1>3. IsMap(BuildLogicalAddressIndex(r), LogicalAddresses, EcuKeys)
  <2> DEFINE A == {LogicalAddress[r[k].ecu] : k \in DOMAIN r} \ {NoId}
  <2>1. A \subseteq LogicalAddresses  BY <1>1, AddressAssumption
  <2>2. ASSUME NEW a \in A
        PROVE  (CHOOSE k \in ClaimantsOf(r, a) : TRUE) \in DOMAIN r
    <3>1. ClaimantsOf(r, a) # {}  BY <2>2 DEF ClaimantsOf
    <3>2. (CHOOSE k \in ClaimantsOf(r, a) : TRUE) \in ClaimantsOf(r, a)
      BY <3>1
    <3> QED BY <3>2 DEF ClaimantsOf
  <2> QED BY <2>1, <2>2 DEF IsMap, BuildLogicalAddressIndex
<1> QED BY <1>2, <1>3

\* The endpoints a bridge derives from the running ECUs are well formed.
LEMMA EndpointsType ==
  ASSUME NEW r, IsMap(r, EcuKeys, RunningEcu)
  PROVE  IsMap(EndpointsOf(r), CanIds, EndpointRecord)
<1>1. \A k \in DOMAIN r : r[k].ecu \in Ecus /\ r[k].config.timing \in Timings
  BY RunningEcuType DEF IsMap, Config
<1>2. Broadcast \in EndpointRecord
  BY InputAssumption DEF Broadcast, EndpointRecord
<1>3. ASSUME NEW id \in DOMAIN r
      PROVE  [response |-> ResponseId[r[id].ecu], timing |-> r[id].config.timing]
               \in EndpointRecord
  BY <1>1, AddressAssumption DEF EndpointRecord
<1>4. (DOMAIN r \cap CanIds)
        \cup ({FunctionalId[r[k].ecu] : k \in DOMAIN r} \ {NoId}) \subseteq CanIds
  BY <1>1, AddressAssumption
<1> QED BY <1>2, <1>3, <1>4 DEF EndpointsOf, IsMap

\* A vehicle stays one when its ECUs or its networks are replaced.
LEMMA VehicleType ==
  ASSUME NEW v, IsVehicle(v)
  PROVE  /\ \A E : IsMap(E, Ecus, Config) =>
              /\ IsVehicle([v EXCEPT !.ecus = E])
              /\ [v EXCEPT !.ecus = E].ecus = E
              /\ [v EXCEPT !.ecus = E].networks = v.networks
              /\ [v EXCEPT !.ecus = E].isLoaded = v.isLoaded
         /\ \A N : IsMap(N, NetworkIds, BOOLEAN) =>
              /\ IsVehicle([v EXCEPT !.networks = N])
              /\ [v EXCEPT !.networks = N].networks = N
              /\ [v EXCEPT !.networks = N].ecus = v.ecus
              /\ [v EXCEPT !.networks = N].isLoaded = v.isLoaded
<1> DEFINE rec(l, E, N) == [isLoaded |-> l, ecus |-> E, networks |-> N]
<1>1. v = rec(v.isLoaded, v.ecus, v.networks)  BY DEF IsVehicle
<1>2. ASSUME NEW E PROVE [v EXCEPT !.ecus = E] = rec(v.isLoaded, E, v.networks)
  BY <1>1
<1>3. ASSUME NEW N PROVE [v EXCEPT !.networks = N] = rec(v.isLoaded, v.ecus, N)
  BY <1>1
<1> QED BY <1>2, <1>3 DEF IsVehicle

\* Normalising the entry points leaves the ECUs alone.
LEMMA NormalizeType ==
  ASSUME NEW v, IsVehicle(v)
  PROVE  /\ IsVehicle(NormalizeEntryPoints(v))
         /\ NormalizeEntryPoints(v).ecus = v.ecus
         /\ NormalizeEntryPoints(v).isLoaded = v.isLoaded
<1> DEFINE N == [n \in Declared(v) |-> GatewaysFor(v, n) = {}]
<1>1. IsMap(N, NetworkIds, BOOLEAN)  BY DEF IsMap, Declared, IsVehicle
<1>2. CASE \E n \in Declared(v) : v.networks[n]
  BY <1>2 DEF NormalizeEntryPoints
<1>3. CASE ~\E n \in Declared(v) : v.networks[n]
  <2>1. NormalizeEntryPoints(v) = [v EXCEPT !.networks = N]
    BY <1>3 DEF NormalizeEntryPoints
  <2> HIDE DEF N
  <2> QED BY <1>1, <2>1, VehicleType
<1> QED BY <1>2, <1>3

\* The running ECUs of a vehicle, one per routable ECU.
LEMMA BuildEcuMapType ==
  ASSUME NEW v, IsVehicle(v), isPermissive \in BOOLEAN
  PROVE  /\ IsMap(BuildEcuMap(v), EcuKeys, RunningEcu)
         /\ DOMAIN BuildEcuMap(v) = {KeyOf(e) : e \in Routable(v)}
         /\ \A k \in DOMAIN BuildEcuMap(v) :
              /\ BuildEcuMap(v)[k].ecu \in Routable(v)
              /\ KeyOf(BuildEcuMap(v)[k].ecu) = k
              /\ BuildEcuMap(v)[k].config = v.ecus[BuildEcuMap(v)[k].ecu]
<1>1. \A e \in Routable(v) : /\ e \in Ecus /\ v.ecus[e] \in Config
                             /\ KeyOf(e) \in EcuKeys
  BY AddressAssumption DEF Routable, IsVehicle, IsMap, KeyOf, EcuKeys
<1> DEFINE keys == {KeyOf(e) : e \in Routable(v)}
           who(k) == CHOOSE x \in Routable(v) : KeyOf(x) = k
           ecu(k) == [NewEcu(who(k), v.ecus[who(k)]) EXCEPT !.permissive = isPermissive]
<1>2. ASSUME NEW k \in keys
      PROVE  /\ who(k) \in Routable(v) /\ KeyOf(who(k)) = k
             /\ ecu(k) \in RunningEcu
             /\ ecu(k).ecu = who(k)
             /\ ecu(k).config = v.ecus[who(k)]
  <2>1. who(k) \in Routable(v) /\ KeyOf(who(k)) = k
    BY <1>2
  <2> HIDE DEF who
  <2>2. /\ NewEcu(who(k), v.ecus[who(k)]) \in RunningEcu
        /\ NewEcu(who(k), v.ecus[who(k)]).ecu = who(k)
        /\ NewEcu(who(k), v.ecus[who(k)]).config = v.ecus[who(k)]
    BY <1>1, <2>1, NewEcuType
  <2> QED BY <2>1, <2>2, RunningEcuType
<1>3. BuildEcuMap(v) = [k \in keys |-> ecu(k)]
  BY DEF BuildEcuMap
<1>4. keys \subseteq EcuKeys  BY <1>1
<1> HIDE DEF keys, who, ecu
<1>5. /\ DOMAIN BuildEcuMap(v) = keys
      /\ \A k \in keys : BuildEcuMap(v)[k] = ecu(k)
  BY <1>3
<1>6. IsMap(BuildEcuMap(v), EcuKeys, RunningEcu)
  BY <1>2, <1>3, <1>4 DEF IsMap
<1>7. \A k \in keys : /\ BuildEcuMap(v)[k].ecu \in Routable(v)
                      /\ KeyOf(BuildEcuMap(v)[k].ecu) = k
                      /\ BuildEcuMap(v)[k].config = v.ecus[BuildEcuMap(v)[k].ecu]
  BY <1>2, <1>5
<1> QED BY <1>5, <1>6, <1>7 DEF keys

-----------------------------------------------------------------------------
(***************************************************************************)
(* Type correctness                                                        *)
(***************************************************************************)
\* What the rebuild of the indexes stores is well typed whether it refuses or
\* not.
LEMMA RebuildType ==
  ASSUME TypeOK, NEW r, IsMap(r, EcuKeys, RunningEcu), RebuildFunctionalTargets(r)
  PROVE  /\ IsMap(functionalTargets', CanIds, SUBSET EcuKeys)
         /\ IsMap(keyByLogicalAddress', LogicalAddresses, EcuKeys)
         /\ reply' \in {"ok", "loaded", "refused"}
BY BuildMapTypes DEF RebuildFunctionalTargets, TypeOK

\* Moving the generation on leaves a bridge's endpoints in place.
LEMMA BumpType ==
  ASSUME TypeOK, BumpConfigGeneration
  PROVE  /\ bridge' = [endpoints |-> bridge'.endpoints, isStale |-> bridge'.isStale]
         /\ IsMap(bridge'.endpoints, CanIds, EndpointRecord)
         /\ bridge'.isStale = TRUE
<1>1. bridge = [endpoints |-> bridge.endpoints, isStale |-> bridge.isStale]
  BY DEF TypeOK
<1>2. bridge' = [endpoints |-> bridge.endpoints, isStale |-> TRUE]
  BY <1>1 DEF BumpConfigGeneration
<1> QED BY <1>2 DEF TypeOK

\* The vehicles that Clear and CreateEmptyVehicle store are vehicles.
LEMMA BlankType ==
  ASSUME NEW l \in BOOLEAN
  PROVE  IsVehicle(Blank(l)) /\ Blank(l).ecus = Nothing
<1>1. Blank(l).isLoaded = l /\ Blank(l).ecus = Nothing /\ Blank(l).networks = Nothing
  BY DEF Blank
<1>2. IsMap(Nothing, Ecus, Config) /\ IsMap(Nothing, NetworkIds, BOOLEAN)
  BY NothingType
<1> QED BY <1>1, <1>2 DEF IsVehicle, Blank

\* A refused call changes the reply only.
LEMMA RefuseType == TypeOK /\ Refuse => TypeOK'
BY DEF TypeOK, Refuse, modelVars

\* Every edit of the set of ECUs is well typed.
LEMMA EditVehicleType == TypeOK /\ EditVehicle => TypeOK'
<1> SUFFICES ASSUME TypeOK, EditVehicle PROVE TypeOK'
  OBVIOUS
<1>1. ASSUME NEW v \in Loadable, LoadVehicle(v) PROVE TypeOK'
  <2>1. CASE Refuse  BY <2>1, RefuseType
  <2>2. CASE ~Refuse
    <3>1. IsVehicle(v)  BY InputAssumption
    <3>2. IsMap(BuildEcuMap(v), EcuKeys, RunningEcu)
      BY <3>1, BuildEcuMapType DEF TypeOK
    <3> QED BY <1>1, <2>2, <3>1, <3>2, BuildMapTypes, BumpType
            DEF LoadVehicle, TypeOK, MarkedSaved
  <2> QED BY <2>1, <2>2
<1>2. ASSUME NEW v, IsVehicle(v), Discard(v) PROVE TypeOK'
  BY <1>2, NothingType, BumpType DEF Discard, TypeOK, MarkedSaved
<1>3. ASSUME Clear \/ CreateEmptyVehicle PROVE TypeOK'
  BY <1>2, <1>3, BlankType DEF Clear, CreateEmptyVehicle, NoVehicle, EmptyVehicle
<1>4. ASSUME NEW a \in Addable, AddEcu(a[1], a[2]) PROVE TypeOK'
  <2> DEFINE e == a[1]
             new == [NewEcu(e, NewConfig(a[2])) EXCEPT !.permissive = isPermissive]
  <2>1. CASE Refuse  BY <2>1, RefuseType
  <2>2. CASE ~Refuse
    <3>1. e \in Ecus /\ a[2] \in Placement /\ RequestId[e] \in CanIds
      BY <1>4, <2>2, InputAssumption, AddressAssumption DEF AddEcu
    <3>2. NewConfig(a[2]) \in Config
      BY <3>1, InputAssumption DEF NewConfig, Config, Placement
    <3>3. new \in RunningEcu
      BY <3>1, <3>2, NewEcuType, RunningEcuType DEF TypeOK
    <3>4. /\ running' = Put(running, RequestId[e], new)
          /\ vehicle' = [vehicle EXCEPT !.ecus = Put(@, e, NewConfig(a[2]))]
          /\ BumpConfigGeneration /\ BumpModelRevision
          /\ RebuildFunctionalTargets(running')
          /\ UNCHANGED <<isRunning, isPermissive>>
      BY <1>4, <2>2 DEF AddEcu
    <3> HIDE DEF e, new
    <3>5. IsMap(running', EcuKeys, RunningEcu)
      BY <3>1, <3>3, <3>4, PutType DEF TypeOK, EcuKeys
    <3>6. IsMap(Put(vehicle.ecus, e, NewConfig(a[2])), Ecus, Config)
      BY <3>1, <3>2, PutType DEF TypeOK, IsVehicle
    <3>7. IsVehicle(vehicle')
      BY <3>4, <3>6, VehicleType DEF TypeOK
    <3> QED BY <3>4, <3>5, <3>7, RebuildType, BumpType DEF TypeOK, BumpModelRevision
  <2> QED BY <2>1, <2>2
<1>5. ASSUME NEW key \in EcuKeys, RemoveEcu(key) PROVE TypeOK'
  <2>1. CASE Refuse  BY <2>1, RefuseType
  <2>2. CASE ~Refuse
    <3> DEFINE gone == {e \in DOMAIN vehicle.ecus : MatchesKey(e, key)}
    <3>1. /\ running' = Without(running, {key})
          /\ vehicle' = [vehicle EXCEPT !.ecus = Without(@, gone)]
          /\ BumpConfigGeneration /\ BumpModelRevision
          /\ RebuildFunctionalTargets(running')
          /\ UNCHANGED <<isRunning, isPermissive>>
      BY <1>5, <2>2 DEF RemoveEcu
    <3> HIDE DEF gone
    <3>2. IsMap(running', EcuKeys, RunningEcu)
      BY <3>1, WithoutType DEF TypeOK
    <3>3. IsMap(Without(vehicle.ecus, gone), Ecus, Config)
      BY WithoutType DEF TypeOK, IsVehicle
    <3>4. IsVehicle(vehicle')
      BY <3>1, <3>3, VehicleType DEF TypeOK
    <3> QED BY <3>1, <3>2, <3>4, RebuildType, BumpType DEF TypeOK, BumpModelRevision
  <2> QED BY <2>1, <2>2
<1> QED BY <1>1, <1>3, <1>4, <1>5 DEF EditVehicle

\* Every ECU, of the vehicle and running, has a configuration.
LEMMA Configs ==
  ASSUME TypeOK
  PROVE  /\ \A k \in DOMAIN running : running[k] \in RunningEcu
                                      /\ running[k].config \in Config
                                      /\ running[k].ecu \in Ecus
         /\ \A e \in DOMAIN vehicle.ecus : e \in Ecus /\ vehicle.ecus[e] \in Config
BY RunningEcuType DEF TypeOK, IsMap, IsVehicle

\* Configure writes one field of some configurations, in the running ECUs and
\* in the vehicle, and changes nothing else about either.
LEMMA ConfigureType ==
  ASSUME TypeOK, NEW keys, NEW field, NEW value,
         \A c \in Config : With(c, field, value) \in Config,
         Configure(keys, field, value)
  PROVE  /\ IsMap(running', EcuKeys, RunningEcu)
         /\ IsVehicle(vehicle')
         /\ DOMAIN running' = DOMAIN running
         /\ DOMAIN vehicle'.ecus = DOMAIN vehicle.ecus
         /\ \A k \in DOMAIN running :
              /\ running'[k].ecu = running[k].ecu
              /\ running'[k].config =
                   IF k \in keys THEN With(running[k].config, field, value)
                   ELSE running[k].config
         /\ \A e \in DOMAIN vehicle.ecus :
              vehicle'.ecus[e] = IF \E k \in keys : MatchesKey(e, k)
                                 THEN With(vehicle.ecus[e], field, value)
                                 ELSE vehicle.ecus[e]
<1> DEFINE E == [e \in DOMAIN vehicle.ecus |->
                   IF \E k \in keys : MatchesKey(e, k)
                   THEN With(vehicle.ecus[e], field, value) ELSE vehicle.ecus[e]]
<1>1. IsMap(E, Ecus, Config) /\ DOMAIN E = DOMAIN vehicle.ecus
  BY Configs DEF TypeOK, IsVehicle, IsMap
<1>2. vehicle' = [vehicle EXCEPT !.ecus = E]
  BY DEF Configure
<1>3. ASSUME NEW k \in DOMAIN running
      PROVE  LET c == With(running[k].config, field, value)
             IN  /\ running[k] \in RunningEcu
                 /\ [running[k] EXCEPT !.config = c] \in RunningEcu
                 /\ [running[k] EXCEPT !.config = c].ecu = running[k].ecu
                 /\ [running[k] EXCEPT !.config = c].config = c
  BY Configs, RunningEcuType
<1>4. running' = [k \in DOMAIN running |->
                   IF k \in keys
                   THEN [running[k] EXCEPT
                           !.config = With(running[k].config, field, value)]
                   ELSE running[k]]
  BY DEF Configure
<1>5. /\ IsVehicle(vehicle')
      /\ vehicle'.ecus = E
  BY <1>1, <1>2, VehicleType DEF TypeOK
<1>6. IsMap(running', EcuKeys, RunningEcu)
  BY <1>3, <1>4 DEF IsMap, TypeOK
<1>7. \A k \in DOMAIN running :
        /\ running'[k].ecu = running[k].ecu
        /\ running'[k].config =
             IF k \in keys THEN With(running[k].config, field, value)
             ELSE running[k].config
  BY <1>3, <1>4
<1> QED BY <1>1, <1>4, <1>5, <1>6, <1>7

\* The three fields Configure is used for.
LEMMA WithType ==
  ASSUME NEW c \in Config
  PROVE  /\ \A x \in BOOLEAN : With(c, "enabled", x) \in Config
         /\ \A x \in Timings : With(c, "timing", x) \in Config
         /\ \A x \in Overrides : With(c, "overrides", x) \in Config
BY ConfigType DEF With

\* A setting written by Configure leaves everything well typed.
LEMMA ConfiguredType ==
  ASSUME TypeOK, NEW keys, NEW field, NEW value,
         \A c \in Config : With(c, field, value) \in Config,
         Configure(keys, field, value),
         UNCHANGED bridge \/ BumpConfigGeneration
  PROVE  TypeOK'
BY ConfigureType, BumpType DEF TypeOK, Configure, BumpModelRevision

\* Every edit of one ECU is well typed.
LEMMA EditEcuType == TypeOK /\ EditEcu => TypeOK'
<1> SUFFICES ASSUME TypeOK, NEW key \in EcuKeys,
                    \/ \E overrides \in Overrides : SetEcuOverrides(key, overrides)
                    \/ \E timing \in Timings : SetEcuTiming(key, timing)
                    \/ \E isEnabled \in PowerStates : SetEcuEnabled(key, isEnabled)
                    \/ \E canTransmit \in BusStates :
                         SetEcuFaultConfinement(key, canTransmit)
             PROVE  TypeOK'
  BY DEF EditEcu
<1>1. CASE Refuse  BY <1>1, RefuseType
<1>2. ASSUME NEW overrides \in Overrides, SetEcuOverrides(key, overrides), ~Refuse
      PROVE  TypeOK'
  BY <1>2, WithType, ConfiguredType DEF SetEcuOverrides
<1>3. ASSUME NEW timing \in Timings, SetEcuTiming(key, timing), ~Refuse
      PROVE  TypeOK'
  BY <1>3, WithType, ConfiguredType DEF SetEcuTiming
<1>4. ASSUME NEW isEnabled \in PowerStates, SetEcuEnabled(key, isEnabled), ~Refuse
      PROVE  TypeOK'
  <2>1. isEnabled \in BOOLEAN  BY InputAssumption
  <2> QED BY <1>4, <2>1, WithType, ConfiguredType DEF SetEcuEnabled
<1>5. ASSUME NEW canTransmit \in BusStates, ~Refuse,
             SetEcuFaultConfinement(key, canTransmit)
      PROVE  TypeOK'
  <2>1. canTransmit \in BOOLEAN  BY InputAssumption
  <2>2. running' = [running EXCEPT ![key] =
                      [running[key] EXCEPT !.canTransmit = canTransmit]]
    BY <1>5 DEF SetEcuFaultConfinement
  <2>3. IsMap(running', EcuKeys, RunningEcu)
    BY <2>1, <2>2, Configs, RunningEcuType DEF TypeOK, IsMap
  <2> QED BY <1>5, <2>3 DEF SetEcuFaultConfinement, TypeOK
<1> QED BY <1>1, <1>2, <1>3, <1>4, <1>5

\* An edit of the wiring that is stored is a vehicle again, with the same ECUs
\* as the edited copy.
LEMMA CommitType ==
  ASSUME TypeOK, NEW v, IsVehicle(v), CommitVehicleEdit(v)
  PROVE  IsVehicle(vehicle') /\ vehicle'.ecus = v.ecus
BY NormalizeType DEF CommitVehicleEdit

\* Placing a running ECU anew keeps it a running ECU, and the same one.
LEMMA PlaceType ==
  ASSUME NEW r \in RunningEcu, NEW p \in Placement
  PROVE  /\ [r EXCEPT !.config = Place(@, p)] \in RunningEcu
         /\ [r EXCEPT !.config = Place(@, p)].ecu = r.ecu
         /\ [r EXCEPT !.config = Place(@, p)].config = Place(r.config, p)
BY ConfigType, RunningEcuType

\* Every edit of the wiring is well typed.
LEMMA EditWiringType == TypeOK /\ EditWiring => TypeOK'
<1> SUFFICES ASSUME TypeOK, EditWiring PROVE TypeOK'
  OBVIOUS
<1>1. CASE Refuse  BY <1>1, RefuseType
<1>2. ASSUME NEW d \in Declarable, UpsertNetwork(d[1], d[2]), ~Refuse PROVE TypeOK'
  <2>1. d[1] \in NetworkIds /\ d[2] \in BOOLEAN  BY InputAssumption
  <2>2. IsMap(Put(vehicle.networks, d[1], d[2]), NetworkIds, BOOLEAN)
    BY <2>1, PutType DEF TypeOK, IsVehicle
  <2>3. IsVehicle([vehicle EXCEPT !.networks = Put(@, d[1], d[2])])
    BY <2>2, VehicleType DEF TypeOK
  <2> QED BY <1>2, <2>3, CommitType
          DEF UpsertNetwork, CommitVehicleEdit, TypeOK, BumpModelRevision
<1>3. ASSUME NEW d \in Declarable, RemoveNetwork(d[1]), ~Refuse PROVE TypeOK'
  <2>1. IsMap(Without(vehicle.networks, {d[1]}), NetworkIds, BOOLEAN)
    BY WithoutType DEF TypeOK, IsVehicle
  <2>2. IsVehicle([vehicle EXCEPT !.networks = Without(@, {d[1]})])
    BY <2>1, VehicleType DEF TypeOK
  <2> QED BY <1>3, <2>2, CommitType
          DEF RemoveNetwork, CommitVehicleEdit, TypeOK, BumpModelRevision
<1>4. ASSUME NEW key \in EcuKeys, NEW p \in Placements, SetEcuPlacement(key, p),
             ~Refuse
      PROVE  TypeOK'
  <2> DEFINE E == [e \in DOMAIN vehicle.ecus |->
                     IF e \in {x \in DOMAIN vehicle.ecus : MatchesKey(x, key)}
                     THEN Place(vehicle.ecus[e], p) ELSE vehicle.ecus[e]]
  <2>1. p \in Placement  BY InputAssumption
  <2>2. IsMap(E, Ecus, Config)
    BY <2>1, Configs, ConfigType DEF IsMap, TypeOK, IsVehicle
  <2>3. IsVehicle([vehicle EXCEPT !.ecus = E])
    BY <2>2, VehicleType DEF TypeOK
  <2>4. /\ CommitVehicleEdit([vehicle EXCEPT !.ecus = E])
        /\ running' = [k \in DOMAIN running |->
                         IF k = key
                         THEN [running[k] EXCEPT !.config = Place(@, p)]
                         ELSE running[k]]
        /\ UNCHANGED unsaved
    BY <1>4 DEF SetEcuPlacement
  <2> HIDE DEF E
  <2>5. ASSUME NEW k \in DOMAIN running
        PROVE  [running[k] EXCEPT !.config = Place(@, p)] \in RunningEcu
    BY <2>1, Configs, PlaceType
  <2>6. IsMap(running', EcuKeys, RunningEcu)
    BY <2>4, <2>5, Configs DEF TypeOK, IsMap
  <2> QED BY <2>3, <2>4, <2>6, CommitType DEF CommitVehicleEdit, TypeOK
<1>5. ASSUME NEW key \in GatewayKeys, SetVehicleGateway(key), ~Refuse PROVE TypeOK'
  <2> DEFINE gateways == {e \in DOMAIN vehicle.ecus : MatchesKey(e, key)}
             E == [e \in DOMAIN vehicle.ecus |->
                     Place(vehicle.ecus[e],
                           IF e \in gateways THEN AtTheFront ELSE BehindIt)]
             N == Put(Put(vehicle.networks, GatewayLinkId, TRUE),
                      BehindGatewayLinkId, FALSE)
             where(k) == IF k = key THEN AtTheFront ELSE BehindIt
  <2>1. AtTheFront \in Placement /\ BehindIt \in Placement
    BY InputAssumption DEF AtTheFront, BehindIt, Placement
  <2>2. IsMap(E, Ecus, Config)
    BY <2>1, Configs, ConfigType DEF IsMap, TypeOK, IsVehicle
  <2>3. IsMap(N, NetworkIds, BOOLEAN)
    BY PutType, InputAssumption DEF TypeOK, IsVehicle
  <2>4. WithGateway(vehicle, gateways) = [[vehicle EXCEPT !.ecus = E]
                                            EXCEPT !.networks = N]
    BY DEF WithGateway, TypeOK, IsVehicle
  <2>5. /\ CommitVehicleEdit(WithGateway(vehicle, gateways))
        /\ running' = [k \in DOMAIN running |->
                         [running[k] EXCEPT !.config = Place(@, where(k))]]
        /\ unsaved' = TRUE
    BY <1>5 DEF SetVehicleGateway, BumpModelRevision
  <2>6. \A k \in DOMAIN running : where(k) \in Placement
    BY <2>1
  <2> HIDE DEF E, N, gateways, where
  <2>7. IsVehicle(WithGateway(vehicle, gateways))
    <3> DEFINE moved == [vehicle EXCEPT !.ecus = E]
    <3>1. IsVehicle(moved)  BY <2>2, VehicleType DEF TypeOK
    <3>2. WithGateway(vehicle, gateways) = [moved EXCEPT !.networks = N]
      BY <2>4
    <3> HIDE DEF moved
    <3> QED BY <2>3, <3>1, <3>2, VehicleType
  <2>8. ASSUME NEW k \in DOMAIN running
        PROVE  [running[k] EXCEPT !.config = Place(@, where(k))] \in RunningEcu
    BY <2>6, Configs, PlaceType
  <2>9. IsMap(running', EcuKeys, RunningEcu)
    BY <2>5, <2>8 DEF TypeOK, IsMap
  <2> QED BY <2>5, <2>7, <2>9, CommitType DEF CommitVehicleEdit, TypeOK
<1> QED BY <1>1, <1>2, <1>3, <1>4, <1>5 DEF EditWiring

\* Every edit of the simulation as a whole is well typed.
LEMMA EditSimulationType == TypeOK /\ EditSimulation => TypeOK'
<1> SUFFICES ASSUME TypeOK, EditSimulation PROVE TypeOK'
  OBVIOUS
<1>1. CASE Refuse  BY <1>1, RefuseType
<1>2. ASSUME NEW timing \in Timings, SetFlowControlForEveryEcu(timing) PROVE TypeOK'
  <2> DEFINE changed == {k \in DOMAIN running : running[k].config.timing # timing}
  <2>1. CASE changed = {}
    BY <1>2, <2>1 DEF SetFlowControlForEveryEcu, TypeOK, modelVars
  <2>2. CASE changed # {}
    <3>1. Configure(changed, "timing", timing) /\ BumpConfigGeneration
      BY <1>2, <2>2 DEF SetFlowControlForEveryEcu
    <3> QED BY <3>1, WithType, ConfiguredType
  <2> QED BY <2>1, <2>2
<1>3. ASSUME NEW isOn \in PermissiveModes, SetPermissiveMode(isOn) PROVE TypeOK'
  <2>1. isOn \in BOOLEAN  BY InputAssumption
  <2>2. IsMap(running', EcuKeys, RunningEcu)
    BY <1>3, <2>1, Configs, RunningEcuType DEF SetPermissiveMode, TypeOK, IsMap
  <2> QED BY <1>3, <2>1, <2>2 DEF SetPermissiveMode, BumpModelRevision, TypeOK
<1>4. ASSUME SetVehicleIdentity, ~Refuse PROVE TypeOK'
  BY <1>4 DEF SetVehicleIdentity, BumpModelRevision, TypeOK, modelVars
<1>5. ASSUME ResetAllEcus PROVE TypeOK'
  <2>1. IsMap(running', EcuKeys, RunningEcu)
    BY <1>5, Configs, NewEcuType DEF ResetAllEcus, TypeOK, IsMap
  <2> QED BY <1>5, <2>1 DEF ResetAllEcus, TypeOK
<1>6. ASSUME Start \/ Stop PROVE TypeOK'
  BY <1>6 DEF Start, Stop, SetRunning, TypeOK, modelVars
<1>7. ASSUME MarkSaved PROVE TypeOK'
  BY <1>7 DEF MarkSaved, MarkedSaved, TypeOK, modelVars
<1> QED BY <1>1, <1>2, <1>3, <1>4, <1>5, <1>6, <1>7 DEF EditSimulation

\* However a request is addressed, it is answered by some set of running ECUs.
LEMMA RequestAnswers == Request => \E keys : Answer(keys)
BY DEF Request, ProcessByCanId, ProcessOnKey, ProcessFunctional,
       ProcessByLogicalAddress, ProcessFunctionalByLogicalAddress

\* A request leaves everything well typed.
LEMMA RequestType == TypeOK /\ Request => TypeOK'
<1> SUFFICES ASSUME TypeOK, NEW keys, Answer(keys) PROVE TypeOK'
  BY RequestAnswers
<1>1. IsMap(running', EcuKeys, RunningEcu)
  BY Configs, RunningEcuType DEF Answer, Process, TypeOK, IsMap
<1> QED BY <1>1 DEF Answer, TypeOK

\* What a bridge rebuilds its endpoints to is well typed.
LEMMA RebuildEndpointsType == TypeOK /\ RebuildEndpointsIfStale => TypeOK'
<1> SUFFICES ASSUME TypeOK, RebuildEndpointsIfStale PROVE TypeOK'
  OBVIOUS
<1>1. IsMap(EndpointsOf(running), CanIds, EndpointRecord)
  BY EndpointsType DEF TypeOK
<1> HIDE DEF EndpointsOf
<1>2. /\ bridge' = [endpoints |-> EndpointsOf(running), isStale |-> FALSE]
      /\ UNCHANGED <<modelVars, isRunning, isPermissive, unsaved>>
      /\ reply' = "ok"
  BY DEF RebuildEndpointsIfStale
<1>3. /\ bridge'.endpoints = EndpointsOf(running) /\ bridge'.isStale = FALSE
      /\ bridge' = [endpoints |-> bridge'.endpoints, isStale |-> bridge'.isStale]
  BY <1>2
<1>4. /\ vehicle' = vehicle /\ running' = running
      /\ keyByLogicalAddress' = keyByLogicalAddress
      /\ functionalTargets' = functionalTargets
      /\ isRunning' = isRunning /\ isPermissive' = isPermissive
      /\ unsaved' = unsaved /\ reply' = "ok"
  BY <1>2 DEF modelVars
<1> QED BY <1>1, <1>3, <1>4 DEF TypeOK

\* The state a program starts in is well typed.
LEMMA InitType == Init => TypeOK
<1> SUFFICES ASSUME Init PROVE TypeOK
  OBVIOUS
<1>1. IsVehicle(vehicle)
  BY BlankType DEF Init, NoVehicle
<1>2. /\ IsMap(running, EcuKeys, RunningEcu)
      /\ IsMap(keyByLogicalAddress, LogicalAddresses, EcuKeys)
      /\ IsMap(functionalTargets, CanIds, SUBSET EcuKeys)
  BY NothingType DEF Init
<1>3. /\ bridge.endpoints = Nothing /\ bridge.isStale = FALSE
      /\ bridge = [endpoints |-> bridge.endpoints, isStale |-> bridge.isStale]
  BY DEF Init
<1>4. IsMap(bridge.endpoints, CanIds, EndpointRecord)
  BY <1>3, NothingType
<1> QED BY <1>1, <1>2, <1>3, <1>4 DEF Init, TypeOK

\* Every step keeps the types.
LEMMA NextType == TypeOK /\ [Next]_vars => TypeOK'
<1>1. TypeOK /\ UNCHANGED vars => TypeOK'
  BY DEF TypeOK, vars, modelVars
<1> QED BY <1>1, EditVehicleType, EditEcuType, EditWiringType, EditSimulationType,
           RequestType, RebuildEndpointsType DEF Next

\* Every variable keeps its type: the maps stay maps from the keys an ECU can
\* be stored by to well-formed ECUs, whatever is edited, loaded or refused.
THEOREM TypeCorrect == Spec => []TypeOK
<1> QED BY InitType, NextType, PTL DEF Spec

-----------------------------------------------------------------------------
(***************************************************************************)
(* The registry: the running ECUs are those of the vehicle, each under its *)
(* own key, and no two can be meant by one key or address                  *)
(***************************************************************************)
Registry ==
  /\ ModelMatchesRunning
  /\ \A d, e \in Routable(vehicle) : KeyOf(d) = KeyOf(e) => d = e
  /\ ~HasDuplicateAddress(running)

IndInv == TypeOK /\ Registry /\ IndexesFollowEcus /\ BridgeServesWhatRuns

\* An ECU that can be addressed is stored under an identifier or an address.
LEMMA KeyOfType ==
  ASSUME TypeOK, NEW e \in Routable(vehicle)
  PROVE  e \in Ecus /\ e \in DOMAIN vehicle.ecus /\ KeyOf(e) \in EcuKeys
BY AddressAssumption DEF TypeOK, Routable, IsVehicle, IsMap, KeyOf, EcuKeys

\* What is derived from the running ECUs depends only on which they are.
LEMMA DerivedFromEcus ==
  ASSUME NEW r, NEW s, DOMAIN r = DOMAIN s,
         \A k \in DOMAIN r : r[k].ecu = s[k].ecu
  PROVE  /\ BuildFunctionalTargetMap(r) = BuildFunctionalTargetMap(s)
         /\ BuildLogicalAddressIndex(r) = BuildLogicalAddressIndex(s)
         /\ Shadowed(r) = Shadowed(s)
         /\ HasDuplicateAddress(r) <=> HasDuplicateAddress(s)
<1>1. BuildFunctionalTargetMap(r) = BuildFunctionalTargetMap(s)
  <2>1. {FunctionalId[r[k].ecu] : k \in DOMAIN r}
          = {FunctionalId[s[k].ecu] : k \in DOMAIN s}
    OBVIOUS
  <2>2. \A id : {k \in DOMAIN r : Listens(r, k, id)}
                  = {k \in DOMAIN s : Listens(s, k, id)}
    BY DEF Listens
  <2> QED BY <2>1, <2>2 DEF BuildFunctionalTargetMap
<1>2. BuildLogicalAddressIndex(r) = BuildLogicalAddressIndex(s)
  <2>1. {LogicalAddress[r[k].ecu] : k \in DOMAIN r}
          = {LogicalAddress[s[k].ecu] : k \in DOMAIN s}
    OBVIOUS
  <2>2. \A a : ClaimantsOf(r, a) = ClaimantsOf(s, a)
    BY DEF ClaimantsOf
  <2> QED BY <2>1, <2>2 DEF BuildLogicalAddressIndex
<1>3. Shadowed(r) = Shadowed(s)
  BY DEF Shadowed, Listens
<1>4. HasDuplicateAddress(r) <=> HasDuplicateAddress(s)
  BY DEF HasDuplicateAddress
<1> QED BY <1>1, <1>2, <1>3, <1>4

\* The endpoints depend on the timing of each ECU besides.
LEMMA EndpointsFromTimings ==
  ASSUME NEW r, NEW s, DOMAIN r = DOMAIN s,
         \A k \in DOMAIN r : /\ r[k].ecu = s[k].ecu
                             /\ r[k].config.timing = s[k].config.timing
  PROVE  EndpointsOf(r) = EndpointsOf(s)
<1>1. {FunctionalId[r[k].ecu] : k \in DOMAIN r}
        = {FunctionalId[s[k].ecu] : k \in DOMAIN s}
  OBVIOUS
<1> QED BY <1>1 DEF EndpointsOf

\* A key in use is the identifier or the address of no ECU but the one stored
\* under it.
LEMMA MatchesOnlyItsOwn ==
  ASSUME TypeOK, Registry, NEW key \in DOMAIN running, NEW e \in DOMAIN vehicle.ecus
  PROVE  MatchesKey(e, key) <=> e = running[key].ecu
<1>1. key \in EcuKeys /\ key # NoId
  BY AddressAssumption DEF TypeOK, IsMap, EcuKeys
<1>2. /\ e \in Ecus
      /\ RequestId[e] \in CanIds \cup {NoId}
      /\ LogicalAddress[e] \in LogicalAddresses \cup {NoId}
  BY AddressAssumption DEF TypeOK, IsVehicle, IsMap
<1>3. ASSUME e = running[key].ecu PROVE MatchesKey(e, key)
  BY <1>3 DEF Registry, ModelMatchesRunning, KeyOf, MatchesKey
<1>4. ASSUME MatchesKey(e, key) PROVE e = running[key].ecu
  <2>1. e \in Routable(vehicle)
    BY <1>1, <1>4 DEF MatchesKey, Routable, KeyOf
  <2>2. CASE KeyOf(e) = key
    BY <2>1, <2>2 DEF Registry, ModelMatchesRunning
  <2>3. CASE KeyOf(e) # key
    <3> DEFINE d == running[key].ecu
               own == KeyOf(e)
    <3>1. LogicalAddress[e] = key /\ RequestId[e] # NoId
      BY <1>1, <1>4, <2>3 DEF MatchesKey, KeyOf
    <3>2. /\ own \in DOMAIN running
          /\ running[own].ecu \in Routable(vehicle)
          /\ KeyOf(running[own].ecu) = own
      BY <2>1 DEF Registry, ModelMatchesRunning
    <3>3. running[own].ecu = e
      BY <2>1, <3>2 DEF Registry
    <3>4. d \in Routable(vehicle) /\ KeyOf(d) = key
      BY DEF Registry, ModelMatchesRunning
    <3>5. d \in Ecus /\ RequestId[d] \in CanIds \cup {NoId}
      BY <3>4, KeyOfType, AddressAssumption
    <3>6. key \in LogicalAddresses
      BY <1>1, <1>2, <3>1
    <3>7. LogicalAddress[d] = key
      BY <3>4, <3>5, <3>6, AddressAssumption DEF KeyOf
    <3> HIDE DEF d, own
    <3>8. HasDuplicateAddress(running)
      BY <1>1, <2>3, <3>1, <3>2, <3>3, <3>7 DEF HasDuplicateAddress, d, own
    <3> QED BY <3>8 DEF Registry
  <2> QED BY <2>2, <2>3
<1> QED BY <1>3, <1>4

\* SameSettings is kept by writing one of the fields to both configurations,
\* and by placing either anew.
LEMMA SettingsKept ==
  ASSUME NEW c \in Config, NEW d \in Config, SameSettings(c, d)
  PROVE  /\ \A x : /\ SameSettings(With(c, "enabled", x), With(d, "enabled", x))
                   /\ With(c, "enabled", x).timing = c.timing
                   /\ SameSettings(With(c, "timing", x), With(d, "timing", x))
                   /\ SameSettings(With(c, "overrides", x), With(d, "overrides", x))
                   /\ With(c, "overrides", x).timing = c.timing
         /\ \A p, q : /\ SameSettings(Place(c, p), Place(d, q))
                      /\ SameSettings(c, Place(d, q))
                      /\ Place(c, p).timing = c.timing
BY DEF SameSettings, With, Place, Config

\* Steps that leave alone which ECUs there are, and keep both copies of their
\* settings the same, keep the invariant if a new timing moves the generation.
LEMMA SettingsStep ==
  ASSUME IndInv, TypeOK',
         DOMAIN running' = DOMAIN running,
         DOMAIN vehicle'.ecus = DOMAIN vehicle.ecus,
         \A k \in DOMAIN running :
           /\ running'[k].ecu = running[k].ecu
           /\ SameSettings(running'[k].config, vehicle'.ecus[running[k].ecu]),
         UNCHANGED <<keyByLogicalAddress, functionalTargets>>,
         \/ bridge'.isStale
         \/ /\ UNCHANGED bridge
            /\ \A k \in DOMAIN running :
                 running'[k].config.timing = running[k].config.timing
  PROVE  IndInv'
<1>1. Registry'
  <2>1. Routable(vehicle') = Routable(vehicle)  BY DEF Routable
  <2>2. ModelMatchesRunning'
    BY <2>1 DEF IndInv, Registry, ModelMatchesRunning
  <2>3. ~HasDuplicateAddress(running')
    BY DerivedFromEcus DEF IndInv, Registry
  <2> QED BY <2>1, <2>2, <2>3 DEF IndInv, Registry
<1>2. IndexesFollowEcus'
  <2>1. /\ BuildFunctionalTargetMap(running') = BuildFunctionalTargetMap(running)
        /\ BuildLogicalAddressIndex(running') = BuildLogicalAddressIndex(running)
        /\ Shadowed(running') = Shadowed(running)
        /\ HasDuplicateAddress(running') <=> HasDuplicateAddress(running)
    BY DerivedFromEcus
  <2> QED BY <2>1 DEF IndInv, IndexesFollowEcus
<1>3. BridgeServesWhatRuns'
  <2>1. CASE bridge'.isStale  BY <2>1 DEF BridgeServesWhatRuns
  <2>2. CASE /\ UNCHANGED bridge
             /\ \A k \in DOMAIN running :
                  running'[k].config.timing = running[k].config.timing
    <3>1. EndpointsOf(running') = EndpointsOf(running)
      BY <2>2, EndpointsFromTimings
    <3> QED BY <2>2, <3>1 DEF IndInv, BridgeServesWhatRuns
  <2> QED BY <2>1, <2>2
<1> QED BY <1>1, <1>2, <1>3 DEF IndInv

\* Configure writes a setting of the same ECUs in both copies.
LEMMA ConfigureSettings ==
  ASSUME IndInv, NEW keys, NEW field \in {"enabled", "timing", "overrides"},
         NEW value,
         keys \subseteq DOMAIN running,
         \A c \in Config : With(c, field, value) \in Config,
         Configure(keys, field, value)
  PROVE  /\ DOMAIN running' = DOMAIN running
         /\ DOMAIN vehicle'.ecus = DOMAIN vehicle.ecus
         /\ \A k \in DOMAIN running :
              /\ running'[k].ecu = running[k].ecu
              /\ SameSettings(running'[k].config, vehicle'.ecus[running[k].ecu])
              /\ field # "timing" =>
                   running'[k].config.timing = running[k].config.timing
<1>1. /\ DOMAIN running' = DOMAIN running
      /\ DOMAIN vehicle'.ecus = DOMAIN vehicle.ecus
      /\ \A k \in DOMAIN running :
           /\ running'[k].ecu = running[k].ecu
           /\ running'[k].config =
                IF k \in keys THEN With(running[k].config, field, value)
                ELSE running[k].config
      /\ \A e \in DOMAIN vehicle.ecus :
           vehicle'.ecus[e] = IF \E k \in keys : MatchesKey(e, k)
                              THEN With(vehicle.ecus[e], field, value)
                              ELSE vehicle.ecus[e]
  BY ConfigureType DEF IndInv
<1>2. ASSUME NEW k \in DOMAIN running
      PROVE  /\ SameSettings(running'[k].config, vehicle'.ecus[running[k].ecu])
             /\ field # "timing" =>
                  running'[k].config.timing = running[k].config.timing
  <2> DEFINE e == running[k].ecu
             c == running[k].config
             d == vehicle.ecus[e]
  <2>1. /\ e \in DOMAIN vehicle.ecus /\ KeyOf(e) = k /\ SameSettings(c, d)
    BY DEF IndInv, Registry, ModelMatchesRunning, Routable
  <2>2. c \in Config /\ d \in Config
    BY <2>1, Configs DEF IndInv
  <2>3. (\E j \in keys : MatchesKey(e, j)) <=> k \in keys
    <3>1. ASSUME NEW j \in keys PROVE MatchesKey(e, j) <=> j = k
      <4>1. j \in DOMAIN running  OBVIOUS
      <4>2. MatchesKey(e, j) <=> e = running[j].ecu
        BY <2>1, <4>1, MatchesOnlyItsOwn DEF IndInv
      <4>3. KeyOf(running[j].ecu) = j
        BY <4>1 DEF IndInv, Registry, ModelMatchesRunning
      <4> QED BY <2>1, <4>2, <4>3
    <3> QED BY <3>1
  <2>4. /\ running'[k].config = IF k \in keys THEN With(c, field, value) ELSE c
        /\ vehicle'.ecus[e] = IF k \in keys THEN With(d, field, value) ELSE d
    BY <1>1, <2>1, <2>3
  <2>5. SameSettings(With(c, field, value), With(d, field, value))
    BY <2>1, <2>2, SettingsKept
  <2>6. field # "timing" => With(c, field, value).timing = c.timing
    BY <2>1, <2>2, SettingsKept
  <2> HIDE DEF c, d, e
  <2> QED BY <2>1, <2>4, <2>5, <2>6 DEF c, e
<1> QED BY <1>1, <1>2

\* A timing moves the generation, another setting need not.
LEMMA TimingKeeps ==
  ASSUME IndInv, TypeOK', NEW keys, NEW timing \in Timings,
         keys \subseteq DOMAIN running,
         Configure(keys, "timing", timing), BumpConfigGeneration
  PROVE  IndInv'
<1>1. bridge'.isStale
  BY BumpType DEF IndInv
<1>2. \A c \in Config : With(c, "timing", timing) \in Config
  BY WithType
<1>3. /\ DOMAIN running' = DOMAIN running
      /\ DOMAIN vehicle'.ecus = DOMAIN vehicle.ecus
      /\ \A k \in DOMAIN running :
           /\ running'[k].ecu = running[k].ecu
           /\ SameSettings(running'[k].config, vehicle'.ecus[running[k].ecu])
  BY <1>2, ConfigureSettings
<1> QED BY <1>1, <1>3, SettingsStep DEF Configure

\* Another setting may leave the generation where it is.
LEMMA ConfigureKeeps ==
  ASSUME IndInv, TypeOK', NEW keys, NEW field \in {"enabled", "overrides"},
         NEW value,
         keys \subseteq DOMAIN running,
         \A c \in Config : With(c, field, value) \in Config,
         Configure(keys, field, value), UNCHANGED bridge
  PROVE  IndInv'
<1>1. /\ DOMAIN running' = DOMAIN running
      /\ DOMAIN vehicle'.ecus = DOMAIN vehicle.ecus
      /\ \A k \in DOMAIN running :
           /\ running'[k].ecu = running[k].ecu
           /\ SameSettings(running'[k].config, vehicle'.ecus[running[k].ecu])
           /\ running'[k].config.timing = running[k].config.timing
  BY ConfigureSettings
<1> QED BY <1>1, SettingsStep DEF Configure

\* Steps that leave the ECUs and their settings alone altogether.
LEMMA QuietStep ==
  ASSUME IndInv, TypeOK',
         UNCHANGED <<vehicle, keyByLogicalAddress, functionalTargets, bridge>>,
         DOMAIN running' = DOMAIN running,
         \A k \in DOMAIN running : /\ running'[k].ecu = running[k].ecu
                                   /\ running'[k].config = running[k].config
  PROVE  IndInv'
BY SettingsStep DEF IndInv, Registry, ModelMatchesRunning

\* A refused call keeps the invariant.
LEMMA RefuseKeeps == IndInv /\ Refuse => IndInv'
<1> SUFFICES ASSUME IndInv, Refuse PROVE IndInv'
  OBVIOUS
<1>1. TypeOK'  BY RefuseType DEF IndInv
<1> QED BY <1>1, QuietStep DEF Refuse, modelVars

\* Editing one ECU keeps the invariant.
LEMMA EditEcuKeeps == IndInv /\ EditEcu => IndInv'
<1> SUFFICES ASSUME IndInv, NEW key \in EcuKeys,
                    \/ \E overrides \in Overrides : SetEcuOverrides(key, overrides)
                    \/ \E timing \in Timings : SetEcuTiming(key, timing)
                    \/ \E isEnabled \in PowerStates : SetEcuEnabled(key, isEnabled)
                    \/ \E canTransmit \in BusStates :
                         SetEcuFaultConfinement(key, canTransmit),
                    TypeOK'
             PROVE  IndInv'
  BY EditEcuType DEF EditEcu, IndInv
<1>1. CASE Refuse  BY <1>1, RefuseKeeps
<1>2. ASSUME NEW overrides \in Overrides, SetEcuOverrides(key, overrides), ~Refuse
      PROVE  IndInv'
  <2>1. /\ {key} \subseteq DOMAIN running /\ UNCHANGED bridge
        /\ Configure({key}, "overrides", overrides)
    BY <1>2 DEF SetEcuOverrides
  <2>2. \A c \in Config : With(c, "overrides", overrides) \in Config
    BY WithType
  <2> QED BY <2>1, <2>2, ConfigureKeeps
<1>3. ASSUME NEW timing \in Timings, SetEcuTiming(key, timing), ~Refuse
      PROVE  IndInv'
  <2>1. /\ {key} \subseteq DOMAIN running /\ BumpConfigGeneration
        /\ Configure({key}, "timing", timing)
    BY <1>3 DEF SetEcuTiming
  <2> QED BY <2>1, TimingKeeps
<1>4. ASSUME NEW isEnabled \in PowerStates, SetEcuEnabled(key, isEnabled), ~Refuse
      PROVE  IndInv'
  <2>1. /\ {key} \subseteq DOMAIN running /\ UNCHANGED bridge
        /\ Configure({key}, "enabled", isEnabled) /\ isEnabled \in BOOLEAN
    BY <1>4, InputAssumption DEF SetEcuEnabled
  <2>2. \A c \in Config : With(c, "enabled", isEnabled) \in Config
    BY <2>1, WithType
  <2> QED BY <2>1, <2>2, ConfigureKeeps
<1>5. ASSUME NEW canTransmit \in BusStates, ~Refuse,
             SetEcuFaultConfinement(key, canTransmit)
      PROVE  IndInv'
  <2>1. running' = [running EXCEPT ![key] =
                      [running[key] EXCEPT !.canTransmit = canTransmit]]
    BY <1>5 DEF SetEcuFaultConfinement
  <2>2. \A k \in DOMAIN running : /\ running'[k].ecu = running[k].ecu
                                  /\ running'[k].config = running[k].config
    BY <2>1, Configs, RunningEcuType, InputAssumption DEF IndInv
  <2> QED BY <1>5, <2>1, <2>2, QuietStep DEF SetEcuFaultConfinement
<1> QED BY <1>1, <1>2, <1>3, <1>4, <1>5

\* Editing the simulation as a whole keeps the invariant.
LEMMA EditSimulationKeeps == IndInv /\ EditSimulation => IndInv'
<1> SUFFICES ASSUME IndInv, EditSimulation, TypeOK' PROVE IndInv'
  BY EditSimulationType DEF IndInv
<1>1. CASE Refuse  BY <1>1, RefuseKeeps
<1>2. ASSUME NEW timing \in Timings, SetFlowControlForEveryEcu(timing) PROVE IndInv'
  <2> DEFINE changed == {k \in DOMAIN running : running[k].config.timing # timing}
  <2>1. CASE changed = {}
    BY <1>2, <2>1, QuietStep DEF SetFlowControlForEveryEcu, modelVars
  <2>2. CASE changed # {}
    <3>1. Configure(changed, "timing", timing) /\ BumpConfigGeneration
      BY <1>2, <2>2 DEF SetFlowControlForEveryEcu
    <3>2. changed \subseteq DOMAIN running  OBVIOUS
    <3> HIDE DEF changed
    <3> QED BY <3>1, <3>2, TimingKeeps
  <2> QED BY <2>1, <2>2
<1>3. ASSUME NEW isOn \in PermissiveModes, SetPermissiveMode(isOn) PROVE IndInv'
  <2>1. \A k \in DOMAIN running : /\ running'[k].ecu = running[k].ecu
                                  /\ running'[k].config = running[k].config
    BY <1>3, Configs, RunningEcuType, InputAssumption DEF IndInv, SetPermissiveMode
  <2> QED BY <1>3, <2>1, QuietStep DEF SetPermissiveMode
<1>4. ASSUME ResetAllEcus PROVE IndInv'
  <2>1. \A k \in DOMAIN running : /\ running'[k].ecu = running[k].ecu
                                  /\ running'[k].config = running[k].config
    BY <1>4, Configs, NewEcuType DEF IndInv, ResetAllEcus
  <2> QED BY <1>4, <2>1, QuietStep DEF ResetAllEcus
<1>5. ASSUME SetVehicleIdentity \/ Start \/ Stop \/ MarkSaved, ~Refuse PROVE IndInv'
  BY <1>5, QuietStep
     DEF SetVehicleIdentity, Start, Stop, SetRunning, MarkSaved, modelVars
<1> QED BY <1>1, <1>2, <1>3, <1>4, <1>5 DEF EditSimulation

\* A request keeps the invariant.
LEMMA RequestKeeps == IndInv /\ Request => IndInv'
<1> SUFFICES ASSUME IndInv, NEW keys, Answer(keys), TypeOK' PROVE IndInv'
  BY RequestAnswers, RequestType DEF IndInv
<1>1. \A k \in DOMAIN running : /\ running'[k].ecu = running[k].ecu
                                /\ running'[k].config = running[k].config
  BY Configs, RunningEcuType DEF IndInv, Answer, Process
<1> QED BY <1>1, QuietStep DEF Answer, Process

\* A bridge that rebuilds its endpoints has those of the ECUs that run.
LEMMA RebuildEndpointsKeeps == IndInv /\ RebuildEndpointsIfStale => IndInv'
<1> SUFFICES ASSUME IndInv, RebuildEndpointsIfStale PROVE IndInv'
  OBVIOUS
<1>1. TypeOK'  BY RebuildEndpointsType DEF IndInv
<1>2. UNCHANGED <<vehicle, running, keyByLogicalAddress, functionalTargets>>
  BY DEF RebuildEndpointsIfStale, modelVars
<1>3. bridge'.endpoints = EndpointsOf(running)
  BY DEF RebuildEndpointsIfStale
<1>4. BridgeServesWhatRuns'
  BY <1>2, <1>3 DEF BridgeServesWhatRuns
<1>5. Registry' /\ IndexesFollowEcus'
  BY <1>2 DEF IndInv, Registry, ModelMatchesRunning, IndexesFollowEcus
<1> QED BY <1>1, <1>4, <1>5 DEF IndInv

\* Editing the wiring moves ECUs and leaves their settings alone.
LEMMA PlaceStep ==
  ASSUME IndInv, TypeOK', NEW v, IsVehicle(v), CommitVehicleEdit(v),
         DOMAIN running' = DOMAIN running,
         \A k \in DOMAIN running :
           /\ running'[k].ecu = running[k].ecu
           /\ \/ running'[k].config = running[k].config
              \/ \E p : running'[k].config = Place(running[k].config, p),
         DOMAIN v.ecus = DOMAIN vehicle.ecus,
         \A e \in DOMAIN v.ecus :
           \/ v.ecus[e] = vehicle.ecus[e]
           \/ \E p : v.ecus[e] = Place(vehicle.ecus[e], p)
  PROVE  IndInv'
<1>1. vehicle'.ecus = v.ecus
  BY CommitType DEF IndInv
<1>2. ASSUME NEW k \in DOMAIN running
      PROVE  /\ SameSettings(running'[k].config, vehicle'.ecus[running[k].ecu])
             /\ running'[k].config.timing = running[k].config.timing
  <2> DEFINE e == running[k].ecu
             c == running[k].config
             d == vehicle.ecus[e]
  <2>1. e \in DOMAIN vehicle.ecus /\ SameSettings(c, d)
    BY DEF IndInv, Registry, ModelMatchesRunning, Routable
  <2>2. c \in Config /\ d \in Config
    BY <2>1, Configs DEF IndInv
  <2>3. \A p : SameSettings(Place(c, p), d)
    BY <2>1, <2>2 DEF SameSettings, Place, Config
  <2> QED BY <1>1, <2>1, <2>2, <2>3, SettingsKept
<1> QED BY <1>1, <1>2, SettingsStep DEF CommitVehicleEdit

\* Every edit of the wiring keeps the invariant.
LEMMA EditWiringKeeps == IndInv /\ EditWiring => IndInv'
<1> SUFFICES ASSUME IndInv, EditWiring, TypeOK' PROVE IndInv'
  BY EditWiringType DEF IndInv
<1> TypeOK  BY DEF IndInv
<1>1. CASE Refuse  BY <1>1, RefuseKeeps
<1>2. ASSUME NEW N, IsMap(N, NetworkIds, BOOLEAN), UNCHANGED running,
             CommitVehicleEdit([vehicle EXCEPT !.networks = N])
      PROVE  IndInv'
  <2>1. /\ IsVehicle([vehicle EXCEPT !.networks = N])
        /\ [vehicle EXCEPT !.networks = N].ecus = vehicle.ecus
    BY <1>2, VehicleType DEF TypeOK
  <2> QED BY <1>2, <2>1, PlaceStep
<1>3. ASSUME NEW d \in Declarable, UpsertNetwork(d[1], d[2]), ~Refuse PROVE IndInv'
  <2>1. d[1] \in NetworkIds /\ d[2] \in BOOLEAN  BY InputAssumption
  <2>2. IsMap(Put(vehicle.networks, d[1], d[2]), NetworkIds, BOOLEAN)
    BY <2>1, PutType DEF TypeOK, IsVehicle
  <2> QED BY <1>2, <1>3, <2>2 DEF UpsertNetwork
<1>4. ASSUME NEW d \in Declarable, RemoveNetwork(d[1]), ~Refuse PROVE IndInv'
  <2>1. IsMap(Without(vehicle.networks, {d[1]}), NetworkIds, BOOLEAN)
    BY WithoutType DEF TypeOK, IsVehicle
  <2> QED BY <1>2, <1>4, <2>1 DEF RemoveNetwork
<1>5. ASSUME NEW key \in EcuKeys, NEW p \in Placements, SetEcuPlacement(key, p),
             ~Refuse
      PROVE  IndInv'
  <2> DEFINE E == [e \in DOMAIN vehicle.ecus |->
                     IF e \in {x \in DOMAIN vehicle.ecus : MatchesKey(x, key)}
                     THEN Place(vehicle.ecus[e], p) ELSE vehicle.ecus[e]]
             v == [vehicle EXCEPT !.ecus = E]
  <2>1. p \in Placement  BY InputAssumption
  <2>2. IsMap(E, Ecus, Config)
    BY <2>1, Configs, ConfigType DEF IsMap, TypeOK, IsVehicle
  <2>3. IsVehicle(v) /\ v.ecus = E
    BY <2>2, VehicleType DEF TypeOK
  <2>4. /\ CommitVehicleEdit(v)
        /\ running' = [k \in DOMAIN running |->
                         IF k = key
                         THEN [running[k] EXCEPT !.config = Place(@, p)]
                         ELSE running[k]]
    BY <1>5 DEF SetEcuPlacement
  <2>5. /\ DOMAIN E = DOMAIN vehicle.ecus
        /\ \A e \in DOMAIN E : E[e] = vehicle.ecus[e]
                               \/ E[e] = Place(vehicle.ecus[e], p)
    OBVIOUS
  <2>6. \A k \in DOMAIN running :
          /\ running'[k].ecu = running[k].ecu
          /\ \/ running'[k].config = running[k].config
             \/ running'[k].config = Place(running[k].config, p)
    BY <2>1, <2>4, Configs, PlaceType
  <2>7. DOMAIN running' = DOMAIN running  BY <2>4
  <2> HIDE DEF E, v
  <2> QED BY <2>3, <2>4, <2>5, <2>6, <2>7, PlaceStep
<1>6. ASSUME NEW key \in GatewayKeys, SetVehicleGateway(key), ~Refuse PROVE IndInv'
  <2> DEFINE gateways == {e \in DOMAIN vehicle.ecus : MatchesKey(e, key)}
             E == [e \in DOMAIN vehicle.ecus |->
                     Place(vehicle.ecus[e],
                           IF e \in gateways THEN AtTheFront ELSE BehindIt)]
             N == Put(Put(vehicle.networks, GatewayLinkId, TRUE),
                      BehindGatewayLinkId, FALSE)
             moved == [vehicle EXCEPT !.ecus = E]
             v == [moved EXCEPT !.networks = N]
             where(k) == IF k = key THEN AtTheFront ELSE BehindIt
  <2>1. AtTheFront \in Placement /\ BehindIt \in Placement
    BY InputAssumption DEF AtTheFront, BehindIt, Placement
  <2>2. IsMap(E, Ecus, Config)
    BY <2>1, Configs, ConfigType DEF IsMap, TypeOK, IsVehicle
  <2>3. IsMap(N, NetworkIds, BOOLEAN)
    BY PutType, InputAssumption DEF TypeOK, IsVehicle
  <2>4. WithGateway(vehicle, gateways) = v
    BY DEF WithGateway, TypeOK, IsVehicle
  <2>5. /\ CommitVehicleEdit(WithGateway(vehicle, gateways))
        /\ running' = [k \in DOMAIN running |->
                         [running[k] EXCEPT !.config = Place(@, where(k))]]
    BY <1>6 DEF SetVehicleGateway
  <2>6. \A k \in DOMAIN running : where(k) \in Placement
    BY <2>1
  <2>7. /\ DOMAIN E = DOMAIN vehicle.ecus
        /\ \A e \in DOMAIN E : \E p : E[e] = Place(vehicle.ecus[e], p)
    OBVIOUS
  <2> HIDE DEF E, N, gateways, where
  <2>8. IsVehicle(moved) /\ moved.ecus = E
    BY <2>2, VehicleType DEF TypeOK
  <2> HIDE DEF moved
  <2>9. IsVehicle(v) /\ v.ecus = E
    BY <2>3, <2>8, VehicleType
  <2> HIDE DEF v
  <2>10. \A k \in DOMAIN running :
           /\ running'[k].ecu = running[k].ecu
           /\ \E p : running'[k].config = Place(running[k].config, p)
    BY <2>5, <2>6, Configs, PlaceType
  <2>11. DOMAIN running' = DOMAIN running  BY <2>5
  <2> QED BY <2>4, <2>5, <2>7, <2>9, <2>10, <2>11, PlaceStep
<1> QED BY <1>1, <1>3, <1>4, <1>5, <1>6 DEF EditWiring

\* Without duplicate addresses the rebuild refuses only over an identifier that
\* is both a broadcast's and an ECU's own, and follows the ECUs otherwise.
LEMMA RebuildFollows ==
  ASSUME NEW r, RebuildFunctionalTargets(r), ~HasDuplicateAddress(r)
  PROVE  \/ Shadowed(r) # {}
         \/ /\ functionalTargets' = BuildFunctionalTargetMap(r)
            /\ keyByLogicalAddress' = BuildLogicalAddressIndex(r)
            /\ reply' = "ok"
BY DEF RebuildFunctionalTargets

\* An accepted vehicle runs under the invariant.
LEMMA LoadVehicleKeeps ==
  ASSUME IndInv, TypeOK', NEW v, IsVehicle(v), LoadVehicle(v), ~Refuse
  PROVE  IndInv'
<1> DEFINE r == BuildEcuMap(v)
<1>1. /\ IsAccepted(v) /\ vehicle' = v /\ running' = r
      /\ keyByLogicalAddress' = BuildLogicalAddressIndex(r)
      /\ functionalTargets' = BuildFunctionalTargetMap(r)
      /\ BumpConfigGeneration
  BY DEF LoadVehicle
<1>2. /\ DOMAIN r = {KeyOf(e) : e \in Routable(v)}
      /\ \A k \in DOMAIN r : /\ r[k].ecu \in Routable(v)
                             /\ KeyOf(r[k].ecu) = k
                             /\ r[k].config = v.ecus[r[k].ecu]
  BY BuildEcuMapType DEF IndInv, TypeOK
<1>3. /\ \A d, e \in Routable(v) : KeyOf(d) = KeyOf(e) => d = e
      /\ ~HasDuplicateAddress(r)
  BY <1>1 DEF IsAccepted, SharesIdentifiers
<1> HIDE DEF r
<1>4. ModelMatchesRunning'
  BY <1>1, <1>2 DEF ModelMatchesRunning, SameSettings
<1>5. Registry'
  BY <1>1, <1>3, <1>4 DEF Registry
<1>6. IndexesFollowEcus'
  BY <1>1 DEF IndexesFollowEcus
<1>7. BridgeServesWhatRuns'
  BY <1>1, BumpType DEF IndInv, BridgeServesWhatRuns
<1> QED BY <1>5, <1>6, <1>7 DEF IndInv

\* A service that runs no ECU meets the invariant whatever address index it
\* was left with.
LEMMA NothingRuns ==
  /\ BuildFunctionalTargetMap(Nothing) = Nothing
  /\ EndpointsOf(Nothing) = Nothing
  /\ ~HasDuplicateAddress(Nothing)
  /\ \A l : Routable(Blank(l)) = {}
<1>1. DOMAIN Nothing = {}  BY DEF Nothing
<1>2. BuildFunctionalTargetMap(Nothing) = Nothing
  <2>1. {FunctionalId[Nothing[k].ecu] : k \in DOMAIN Nothing} \ {NoId} = {}
    BY <1>1
  <2> QED BY <2>1 DEF BuildFunctionalTargetMap, Nothing
<1>3. EndpointsOf(Nothing) = Nothing
  <2>1. (DOMAIN Nothing \cap CanIds)
          \cup ({FunctionalId[Nothing[k].ecu] : k \in DOMAIN Nothing} \ {NoId}) = {}
    BY <1>1
  <2> QED BY <2>1 DEF EndpointsOf, Nothing
<1>4. ~HasDuplicateAddress(Nothing)
  BY <1>1 DEF HasDuplicateAddress
<1>5. \A l : Routable(Blank(l)) = {}
  BY <1>1 DEF Routable, Blank
<1> QED BY <1>2, <1>3, <1>4, <1>5

\* Clear and CreateEmptyVehicle keep the invariant.
LEMMA DiscardKeeps ==
  ASSUME IndInv, TypeOK', NEW l, Discard(Blank(l))
  PROVE  IndInv'
<1>1. /\ vehicle' = Blank(l) /\ running' = Nothing /\ functionalTargets' = Nothing
      /\ BumpConfigGeneration
  BY DEF Discard
<1>2. DOMAIN running' = {}  BY <1>1 DEF Nothing
<1>3. Routable(vehicle') = {}  BY <1>1, NothingRuns
<1>4. Registry'
  BY <1>1, <1>2, <1>3, NothingRuns DEF Registry, ModelMatchesRunning
<1>5. IndexesFollowEcus'
  BY <1>1, <1>2, NothingRuns DEF IndexesFollowEcus
<1>6. BridgeServesWhatRuns'
  BY <1>1, BumpType DEF IndInv, BridgeServesWhatRuns
<1> QED BY <1>4, <1>5, <1>6 DEF IndInv

\* The indexes follow an edit of the ECUs that keeps the registry.
LEMMA RebuiltKeeps ==
  ASSUME IndInv, TypeOK', Registry', BumpConfigGeneration,
         RebuildFunctionalTargets(running')
  PROVE  IndInv'
<1>1. ~HasDuplicateAddress(running')  BY DEF Registry
<1>2. IndexesFollowEcus'
  BY <1>1, RebuildFollows DEF IndexesFollowEcus
<1>3. BridgeServesWhatRuns'
  BY BumpType DEF IndInv, BridgeServesWhatRuns
<1> QED BY <1>2, <1>3 DEF IndInv

\* An added ECU has a key of its own, and an address it shares with nobody.
LEMMA AddEcuRegistry ==
  ASSUME IndInv, NEW a \in Addable, AddEcu(a[1], a[2]), ~Refuse
  PROVE  Registry'
<1> DEFINE e == a[1]
           key == RequestId[e]
           cfg == NewConfig(a[2])
           new == [NewEcu(e, cfg) EXCEPT !.permissive = isPermissive]
<1>1. /\ e \in Ecus /\ a[2] \in Placement /\ key \in CanIds /\ LogicalAddress[e] = NoId
      /\ key \notin DOMAIN running
  BY InputAssumption, AddressAssumption DEF AddEcu, RejectDuplicateIdentifiers
<1>2. KeyOf(e) = key /\ key # NoId
  BY <1>1, AddressAssumption DEF KeyOf
<1>3. cfg \in Config
  BY <1>1, InputAssumption DEF NewConfig, Config, Placement
<1>4. new.ecu = e /\ new.config = cfg
  BY <1>1, <1>3, NewEcuType, RunningEcuType DEF IndInv, TypeOK
<1>5. /\ running' = Put(running, key, new)
      /\ vehicle' = [vehicle EXCEPT !.ecus = Put(@, e, cfg)]
  BY DEF AddEcu
<1> HIDE DEF key, cfg, new
<1>6. vehicle'.ecus = Put(vehicle.ecus, e, cfg)
  <2>1. IsMap(Put(vehicle.ecus, e, cfg), Ecus, Config)
    BY <1>1, <1>3, PutType DEF IndInv, TypeOK, IsVehicle
  <2> QED BY <1>5, <2>1, VehicleType DEF IndInv, TypeOK
<1>7. e \notin DOMAIN vehicle.ecus
  BY <1>1, <1>2 DEF IndInv, Registry, ModelMatchesRunning, Routable
<1>8. /\ DOMAIN vehicle'.ecus = DOMAIN vehicle.ecus \cup {e}
      /\ vehicle'.ecus[e] = cfg
      /\ \A d \in DOMAIN vehicle.ecus : vehicle'.ecus[d] = vehicle.ecus[d]
  BY <1>6, <1>7 DEF Put
<1>9. Routable(vehicle') = Routable(vehicle) \cup {e}
  BY <1>2, <1>8 DEF Routable
<1>10. /\ DOMAIN running' = DOMAIN running \cup {key}
       /\ running'[key] = new
       /\ \A k \in DOMAIN running : running'[k] = running[k]
  BY <1>1, <1>5 DEF Put
<1>11. \A d \in Routable(vehicle) : KeyOf(d) # key /\ d \in DOMAIN vehicle.ecus
  BY <1>1 DEF IndInv, Registry, ModelMatchesRunning, Routable
<1> HIDE DEF e
<1>12. \A d, x \in Routable(vehicle') : KeyOf(d) = KeyOf(x) => d = x
  BY <1>2, <1>9, <1>11 DEF IndInv, Registry
<1>13. ~HasDuplicateAddress(running')
  BY <1>1, <1>4, <1>10, Configs DEF IndInv, Registry, HasDuplicateAddress
<1>14. ModelMatchesRunning'
  <2>1. DOMAIN running' = {KeyOf(d) : d \in Routable(vehicle')}
    BY <1>2, <1>9, <1>10 DEF IndInv, Registry, ModelMatchesRunning
  <2>2. /\ running'[key].ecu \in Routable(vehicle')
        /\ KeyOf(running'[key].ecu) = key
        /\ SameSettings(running'[key].config, vehicle'.ecus[running'[key].ecu])
    BY <1>2, <1>4, <1>8, <1>9, <1>10 DEF SameSettings
  <2>3. \A k \in DOMAIN running :
          /\ running'[k].ecu \in Routable(vehicle')
          /\ KeyOf(running'[k].ecu) = k
          /\ SameSettings(running'[k].config, vehicle'.ecus[running'[k].ecu])
    BY <1>8, <1>9, <1>10, <1>11 DEF IndInv, Registry, ModelMatchesRunning
  <2> QED BY <1>10, <2>1, <2>2, <2>3 DEF ModelMatchesRunning
<1> QED BY <1>12, <1>13, <1>14 DEF Registry

\* Removing by key takes exactly the ECU that runs under it out of the vehicle.
LEMMA RemoveEcuRegistry ==
  ASSUME IndInv, NEW key \in EcuKeys, RemoveEcu(key), ~Refuse
  PROVE  Registry'
<1> DEFINE e == running[key].ecu
           gone == {d \in DOMAIN vehicle.ecus : MatchesKey(d, key)}
<1>1. /\ key \in DOMAIN running
      /\ running' = Without(running, {key})
      /\ vehicle' = [vehicle EXCEPT !.ecus = Without(@, gone)]
  BY DEF RemoveEcu
<1>2. gone = {e}
  <2>1. e \in DOMAIN vehicle.ecus
    BY <1>1 DEF IndInv, Registry, ModelMatchesRunning, Routable
  <2>2. \A d \in DOMAIN vehicle.ecus : MatchesKey(d, key) <=> d = e
    BY <1>1, MatchesOnlyItsOwn DEF IndInv
  <2> QED BY <2>1, <2>2
<1> HIDE DEF gone
<1>3. vehicle'.ecus = Without(vehicle.ecus, {e})
  <2>1. IsMap(Without(vehicle.ecus, gone), Ecus, Config)
    BY WithoutType DEF IndInv, TypeOK, IsVehicle
  <2> QED BY <1>1, <1>2, <2>1, VehicleType DEF IndInv, TypeOK
<1>4. e \in Routable(vehicle) /\ KeyOf(e) = key
  BY <1>1 DEF IndInv, Registry, ModelMatchesRunning
<1> HIDE DEF e
<1>5. /\ DOMAIN vehicle'.ecus = DOMAIN vehicle.ecus \ {e}
      /\ \A d \in DOMAIN vehicle'.ecus : vehicle'.ecus[d] = vehicle.ecus[d]
  BY <1>3 DEF Without
<1>6. Routable(vehicle') = Routable(vehicle) \ {e}
  BY <1>5 DEF Routable
<1>7. /\ DOMAIN running' = DOMAIN running \ {key}
      /\ \A k \in DOMAIN running' : running'[k] = running[k]
  BY <1>1 DEF Without
<1>8. \A d, x \in Routable(vehicle') : KeyOf(d) = KeyOf(x) => d = x
  BY <1>6 DEF IndInv, Registry
<1>9. ~HasDuplicateAddress(running')
  BY <1>7 DEF IndInv, Registry, HasDuplicateAddress
<1>10. ModelMatchesRunning'
  <2>1. \A d \in Routable(vehicle) : KeyOf(d) = key => d = e
    BY <1>4 DEF IndInv, Registry
  <2>2. DOMAIN running' = {KeyOf(d) : d \in Routable(vehicle')}
    BY <1>4, <1>6, <1>7, <2>1 DEF IndInv, Registry, ModelMatchesRunning
  <2>3. \A k \in DOMAIN running' :
          /\ running'[k].ecu \in Routable(vehicle')
          /\ KeyOf(running'[k].ecu) = k
          /\ SameSettings(running'[k].config, vehicle'.ecus[running'[k].ecu])
    <3>1. ASSUME NEW k \in DOMAIN running'
          PROVE  /\ running'[k] = running[k] /\ k # key
                 /\ running[k].ecu \in Routable(vehicle)
                 /\ KeyOf(running[k].ecu) = k
                 /\ SameSettings(running[k].config, vehicle.ecus[running[k].ecu])
      BY <1>7 DEF IndInv, Registry, ModelMatchesRunning
    <3>2. ASSUME NEW k \in DOMAIN running'
          PROVE  /\ running[k].ecu \in Routable(vehicle')
                 /\ vehicle'.ecus[running[k].ecu] = vehicle.ecus[running[k].ecu]
      BY <1>4, <1>5, <1>6, <3>1 DEF Routable
    <3> QED BY <3>1, <3>2
  <2> QED BY <2>2, <2>3 DEF ModelMatchesRunning
<1> QED BY <1>8, <1>9, <1>10 DEF Registry

\* Editing the set of ECUs keeps the invariant.
LEMMA EditVehicleKeeps == IndInv /\ EditVehicle => IndInv'
<1> SUFFICES ASSUME IndInv, EditVehicle, TypeOK' PROVE IndInv'
  BY EditVehicleType DEF IndInv
<1>1. CASE Refuse  BY <1>1, RefuseKeeps
<1>2. ASSUME NEW v \in Loadable, LoadVehicle(v), ~Refuse PROVE IndInv'
  BY <1>2, LoadVehicleKeeps, InputAssumption
<1>3. ASSUME Clear \/ CreateEmptyVehicle PROVE IndInv'
  BY <1>3, DiscardKeeps DEF Clear, CreateEmptyVehicle, NoVehicle, EmptyVehicle
<1>4. ASSUME NEW a \in Addable, AddEcu(a[1], a[2]), ~Refuse PROVE IndInv'
  <2>1. BumpConfigGeneration /\ RebuildFunctionalTargets(running')
    BY <1>4 DEF AddEcu
  <2> QED BY <1>4, <2>1, AddEcuRegistry, RebuiltKeeps
<1>5. ASSUME NEW key \in EcuKeys, RemoveEcu(key), ~Refuse PROVE IndInv'
  <2>1. BumpConfigGeneration /\ RebuildFunctionalTargets(running')
    BY <1>5 DEF RemoveEcu
  <2> QED BY <1>5, <2>1, RemoveEcuRegistry, RebuiltKeeps
<1> QED BY <1>1, <1>2, <1>3, <1>4, <1>5 DEF EditVehicle

\* The state a program starts in meets the invariant.
LEMMA InitIndInv == Init => IndInv
<1> SUFFICES ASSUME Init PROVE IndInv
  OBVIOUS
<1>1. TypeOK  BY InitType
<1>2. DOMAIN Nothing = {}  BY DEF Nothing
<1>3. Routable(vehicle) = {}  BY NothingRuns DEF Init, NoVehicle
<1>4. Registry
  BY <1>2, <1>3, NothingRuns DEF Init, Registry, ModelMatchesRunning
<1>5. IndexesFollowEcus /\ BridgeServesWhatRuns
  BY <1>2, NothingRuns DEF Init, IndexesFollowEcus, BridgeServesWhatRuns
<1> QED BY <1>1, <1>4, <1>5 DEF IndInv

\* Every step keeps the invariant.
LEMMA NextIndInv == IndInv /\ [Next]_vars => IndInv'
<1>1. IndInv /\ UNCHANGED vars => IndInv'
  <2> SUFFICES ASSUME IndInv, UNCHANGED vars PROVE IndInv'
    OBVIOUS
  <2>1. TypeOK'  BY DEF IndInv, TypeOK, vars, modelVars
  <2> QED BY <2>1, QuietStep DEF vars, modelVars
<1> QED BY <1>1, EditVehicleKeeps, EditEcuKeeps, EditWiringKeeps,
           EditSimulationKeeps, RequestKeeps, RebuildEndpointsKeeps DEF Next

\* The inductive invariant holds throughout.
THEOREM Invariant == Spec => []IndInv
<1> QED BY InitIndInv, NextIndInv, PTL DEF Spec

\* However vehicles are loaded, edited and cleared, an identifier and an address
\* lead to the ECUs that carry them.
THEOREM IndexesFollow == Spec => []IndexesFollowEcus
<1>1. IndInv => IndexesFollowEcus  BY DEF IndInv
<1> QED BY <1>1, Invariant, PTL

\* The vehicle that is shown and saved is the one that is simulated.
THEOREM ModelIsSimulated == Spec => []ModelMatchesRunning
<1>1. IndInv => ModelMatchesRunning  BY DEF IndInv, Registry
<1> QED BY <1>1, Invariant, PTL

\* A bridge that sees no new generation serves the ECUs that run.
THEOREM BridgeIsCurrent == Spec => []BridgeServesWhatRuns
<1>1. IndInv => BridgeServesWhatRuns  BY DEF IndInv
<1> QED BY <1>1, Invariant, PTL

-----------------------------------------------------------------------------
(***************************************************************************)
(* Refused edits and unsaved work                                          *)
(***************************************************************************)
\* An edit of the set of ECUs that returns an error was refused outright, or
\* left behind an identifier that is a broadcast's and an ECU's own.
LEMMA RefusedStep ==
  IndInv /\ Next /\ reply' = "refused" => Refuse \/ Shadowed(running') # {}
<1> SUFFICES ASSUME IndInv, Next, reply' = "refused", ~Refuse
             PROVE  Shadowed(running') # {}
  OBVIOUS
<1> IndInv'  BY NextIndInv
<1> ~HasDuplicateAddress(running')  BY DEF IndInv, Registry
<1>1. CASE EditVehicle
  <2>1. CASE RebuildFunctionalTargets(running')
    BY <2>1, RebuildFollows
  <2>2. CASE ~RebuildFunctionalTargets(running')
    BY <1>1, <2>2 DEF EditVehicle, LoadVehicle, Clear, CreateEmptyVehicle, Discard,
                      AddEcu, RemoveEcu
  <2> QED BY <2>1, <2>2
<1>2. CASE EditEcu
  BY <1>2 DEF EditEcu, SetEcuOverrides, SetEcuTiming, SetEcuEnabled,
              SetEcuFaultConfinement, Configure
<1>3. CASE EditWiring
  BY <1>3 DEF EditWiring, UpsertNetwork, RemoveNetwork, SetEcuPlacement,
              SetVehicleGateway, CommitVehicleEdit
<1>4. CASE EditSimulation
  BY <1>4 DEF EditSimulation, SetFlowControlForEveryEcu, Configure, SetPermissiveMode,
              SetVehicleIdentity, ResetAllEcus, Start, Stop, SetRunning, MarkSaved
<1>5. CASE Request
  BY <1>5, RequestAnswers DEF Answer
<1>6. CASE RebuildEndpointsIfStale
  BY <1>6 DEF RebuildEndpointsIfStale
<1> QED BY <1>1, <1>2, <1>3, <1>4, <1>5, <1>6 DEF Next

\* A call that returns an error changed nothing, whatever calls came before,
\* but for the one refusal the model names.
THEOREM RefusalsChangeNothing == Spec => RefusedEditChangesNothing
<1>1. IndInv /\ [Next]_vars =>
        [reply' = "refused" =>
           \/ UNCHANGED <<modelVars, isRunning, isPermissive, unsaved, bridge>>
           \/ Shadowed(running') # {}]_vars
  BY RefusedStep DEF Refuse
<1> QED BY <1>1, Invariant, PTL DEF Spec, RefusedEditChangesNothing

\* Every step that changes the vehicle loads it, marks it as unsaved work or
\* places an ECU.
LEMMA UnsavedStep ==
  Next /\ reply' # "loaded" /\ vehicle' # vehicle =>
    unsaved' \/ \E key \in EcuKeys, p \in Placements : SetEcuPlacement(key, p)
<1> SUFFICES ASSUME Next, reply' # "loaded", vehicle' # vehicle, ~Refuse,
                    ~\E key \in EcuKeys, p \in Placements : SetEcuPlacement(key, p)
             PROVE  unsaved'
  BY DEF Refuse, modelVars
<1>1. CASE EditVehicle
  BY <1>1 DEF EditVehicle, LoadVehicle, Clear, CreateEmptyVehicle, Discard, AddEcu,
              RemoveEcu, BumpModelRevision
<1>2. CASE EditEcu
  BY <1>2 DEF EditEcu, SetEcuOverrides, SetEcuTiming, SetEcuEnabled,
              SetEcuFaultConfinement, Configure, BumpModelRevision
<1>3. CASE EditWiring
  BY <1>3 DEF EditWiring, UpsertNetwork, RemoveNetwork, SetVehicleGateway,
              BumpModelRevision
<1>4. CASE EditSimulation
  BY <1>4 DEF EditSimulation, SetFlowControlForEveryEcu, Configure, BumpModelRevision,
              SetPermissiveMode, SetVehicleIdentity, ResetAllEcus, Start, Stop,
              SetRunning, MarkSaved, modelVars
<1>5. CASE Request
  BY <1>5, RequestAnswers DEF Answer
<1>6. CASE RebuildEndpointsIfStale
  BY <1>6 DEF RebuildEndpointsIfStale, modelVars
<1> QED BY <1>1, <1>2, <1>3, <1>4, <1>5, <1>6 DEF Next

\* No edit but the placement of an ECU escapes the unsaved-work warning.
THEOREM EditsAreUnsaved == Spec => EditsAreUnsavedWork
<1>1. [Next]_vars =>
        [reply' # "loaded" /\ vehicle' # vehicle =>
           unsaved' \/ \E key \in EcuKeys, p \in Placements :
                         SetEcuPlacement(key, p)]_vars
  BY UnsavedStep
<1> QED BY <1>1, PTL DEF Spec, EditsAreUnsavedWork

-----------------------------------------------------------------------------
(***************************************************************************)
(* The wiring                                                              *)
(***************************************************************************)
\* A vehicle with nothing in it is wired soundly.
LEMMA BlankIsSound ==
  ASSUME NEW l
  PROVE  ValidateTopology(Blank(l))
BY DEF ValidateTopology, NamesDeclaredNetworks, RejectSharedGateways,
       RejectGatewayCycles, GatewaysFor, Upstream, Declared, Blank, Nothing

\* Taking ECUs away leaves sound wiring sound, and so does changing anything
\* about them but where they are placed.
LEMMA FewerEcusAreSound ==
  ASSUME NEW v, NEW w, ValidateTopology(v), w.networks = v.networks,
         DOMAIN w.ecus \subseteq DOMAIN v.ecus,
         \A e \in DOMAIN w.ecus : /\ w.ecus[e].network = v.ecus[e].network
                                  /\ w.ecus[e].behind = v.ecus[e].behind
  PROVE  ValidateTopology(w)
<1>1. Declared(w) = Declared(v)  BY DEF Declared
<1>2. \A n : GatewaysFor(w, n) \subseteq GatewaysFor(v, n)
  BY DEF GatewaysFor
<1>3. \A n : Upstream(w, n) \subseteq Upstream(v, n)
  BY <1>2 DEF Upstream, GatewaysFor
<1>4. NamesDeclaredNetworks(w)
  BY <1>1 DEF ValidateTopology, NamesDeclaredNetworks
<1>5. RejectSharedGateways(w)
  BY <1>2 DEF ValidateTopology, RejectSharedGateways
<1>6. RejectGatewayCycles(w)
  BY <1>1, <1>3 DEF ValidateTopology, RejectGatewayCycles
<1> QED BY <1>4, <1>5, <1>6 DEF ValidateTopology

\* A setting is not a placement.
LEMMA ConfigureIsSound ==
  ASSUME IndInv, ValidateTopology(vehicle), NEW keys,
         NEW field \in {"enabled", "timing", "overrides"}, NEW value,
         Configure(keys, field, value)
  PROVE  ValidateTopology(vehicle')
<1> DEFINE E == [e \in DOMAIN vehicle.ecus |->
                   IF \E k \in keys : MatchesKey(e, k)
                   THEN With(vehicle.ecus[e], field, value) ELSE vehicle.ecus[e]]
<1>1. /\ vehicle' = [vehicle EXCEPT !.ecus = E]
      /\ vehicle = [isLoaded |-> vehicle.isLoaded, ecus |-> vehicle.ecus,
                    networks |-> vehicle.networks]
  BY DEF Configure, IndInv, TypeOK, IsVehicle
<1>2. \A c \in Config : /\ With(c, field, value).network = c.network
                        /\ With(c, field, value).behind = c.behind
  BY DEF With, Config
<1>3. /\ DOMAIN E = DOMAIN vehicle.ecus
      /\ \A e \in DOMAIN E : /\ E[e].network = vehicle.ecus[e].network
                             /\ E[e].behind = vehicle.ecus[e].behind
  BY <1>2, Configs DEF IndInv
<1> HIDE DEF E
<1>4. vehicle'.networks = vehicle.networks /\ vehicle'.ecus = E
  BY <1>1
<1> QED BY <1>3, <1>4, FewerEcusAreSound

\* Every step but AddEcu leaves sound wiring sound.
LEMMA SoundStep ==
  IndInv /\ Next /\ ValidateTopology(vehicle) =>
    \/ vehicle' = vehicle
    \/ ValidateTopology(vehicle')
    \/ \E a \in Addable : AddEcu(a[1], a[2])
<1> SUFFICES ASSUME IndInv, Next, ValidateTopology(vehicle), ~Refuse,
                    ~\E a \in Addable : AddEcu(a[1], a[2])
             PROVE  vehicle' = vehicle \/ ValidateTopology(vehicle')
  BY DEF Refuse, modelVars
<1>1. ASSUME NEW v \in Loadable, LoadVehicle(v) PROVE ValidateTopology(vehicle')
  BY <1>1, InputAssumption DEF LoadVehicle
<1>2. ASSUME Clear \/ CreateEmptyVehicle PROVE ValidateTopology(vehicle')
  BY <1>2, BlankIsSound DEF Clear, CreateEmptyVehicle, Discard, NoVehicle, EmptyVehicle
<1>3. ASSUME NEW key \in EcuKeys, RemoveEcu(key) PROVE ValidateTopology(vehicle')
  <2> DEFINE E == Without(vehicle.ecus,
                          {e \in DOMAIN vehicle.ecus : MatchesKey(e, key)})
  <2>1. vehicle' = [vehicle EXCEPT !.ecus = E]
    BY <1>3 DEF RemoveEcu
  <2>2. IsMap(E, Ecus, Config)
    BY WithoutType DEF IndInv, TypeOK, IsVehicle
  <2>3. /\ DOMAIN E \subseteq DOMAIN vehicle.ecus
        /\ \A e \in DOMAIN E : E[e] = vehicle.ecus[e]
    BY DEF Without
  <2> HIDE DEF E
  <2>4. vehicle'.ecus = E /\ vehicle'.networks = vehicle.networks
    BY <2>1, <2>2, VehicleType DEF IndInv, TypeOK
  <2> QED BY <2>3, <2>4, FewerEcusAreSound
<1>4. CASE EditEcu
  BY <1>4, ConfigureIsSound
     DEF EditEcu, SetEcuOverrides, SetEcuTiming, SetEcuEnabled, SetEcuFaultConfinement
<1>5. CASE EditWiring
  BY <1>5 DEF EditWiring, UpsertNetwork, RemoveNetwork, SetEcuPlacement,
              SetVehicleGateway, CommitVehicleEdit, CanCommit
<1>6. CASE EditSimulation
  BY <1>6, ConfigureIsSound
     DEF EditSimulation, SetFlowControlForEveryEcu, SetPermissiveMode,
         SetVehicleIdentity, ResetAllEcus, Start, Stop, SetRunning, MarkSaved, modelVars
<1>7. CASE Request
  BY <1>7, RequestAnswers DEF Answer
<1>8. CASE RebuildEndpointsIfStale
  BY <1>8 DEF RebuildEndpointsIfStale, modelVars
<1> QED BY <1>1, <1>2, <1>3, <1>4, <1>5, <1>6, <1>7, <1>8 DEF Next, EditVehicle

\* However the wiring is edited, it stays one that could exist as long as no
\* ECU is added into it.
THEOREM WiringIsKept == Spec => WiringStaysSound
<1>1. IndInv /\ [Next]_vars =>
        [vehicle' # vehicle /\ ValidateTopology(vehicle) =>
           \/ ValidateTopology(vehicle')
           \/ \E a \in Addable : AddEcu(a[1], a[2])]_vars
  BY SoundStep
<1> QED BY <1>1, Invariant, PTL DEF Spec, WiringStaysSound

-----------------------------------------------------------------------------
(***************************************************************************)
(* Silence                                                                 *)
(***************************************************************************)
\* An ECU is in the state it was in, or in the one it starts in.
StatesKept ==
  \A k \in DOMAIN running \cap DOMAIN running' :
    running'[k].state = running[k].state \/ running'[k].state = DefaultState

\* Replacing another field of a running ECU keeps its state.
LEMMA StateKept ==
  ASSUME NEW r \in RunningEcu, NEW x
  PROVE  /\ [r EXCEPT !.config = x].state = r.state
         /\ [r EXCEPT !.permissive = x].state = r.state
         /\ [r EXCEPT !.canTransmit = x].state = r.state
BY DEF RunningEcu

\* No call but a request brings an ECU out of the state it starts in.
LEMMA OnlyRequestsUse ==
  ASSUME IndInv, Next, ~Request
  PROVE  StatesKept
<1> TypeOK  BY DEF IndInv
<1>1. CASE UNCHANGED running
  BY <1>1 DEF StatesKept
<1>2. ASSUME NEW keys, NEW field, NEW value, Configure(keys, field, value)
      PROVE  StatesKept
  <2>1. /\ DOMAIN running' = DOMAIN running
        /\ \A k \in DOMAIN running :
             running'[k] = IF k \in keys
                           THEN [running[k] EXCEPT !.config = With(@, field, value)]
                           ELSE running[k]
    BY <1>2 DEF Configure
  <2>2. ASSUME NEW k \in DOMAIN running PROVE running'[k].state = running[k].state
    <3> DEFINE c == With(running[k].config, field, value)
    <3>1. running'[k] = IF k \in keys THEN [running[k] EXCEPT !.config = c]
                        ELSE running[k]
      BY <2>1
    <3> HIDE DEF c
    <3>2. [running[k] EXCEPT !.config = c].state = running[k].state
      BY Configs, StateKept
    <3> QED BY <3>1, <3>2
  <2> QED BY <2>1, <2>2 DEF StatesKept
<1>3. CASE EditVehicle
  <2>1. ASSUME NEW v \in Loadable, LoadVehicle(v), ~UNCHANGED running
        PROVE  StatesKept
    <3>1. running' = BuildEcuMap(v)
      BY <2>1 DEF LoadVehicle, Refuse, modelVars
    <3>2. ASSUME NEW k \in DOMAIN BuildEcuMap(v)
          PROVE  BuildEcuMap(v)[k].state = DefaultState
      BY DEF BuildEcuMap, NewEcu
    <3> QED BY <3>1, <3>2 DEF StatesKept
  <2>2. ASSUME Clear \/ CreateEmptyVehicle PROVE StatesKept
    BY <2>2 DEF Clear, CreateEmptyVehicle, Discard, Nothing, StatesKept
  <2>3. ASSUME NEW a \in Addable, AddEcu(a[1], a[2]), ~UNCHANGED running
        PROVE  StatesKept
    <3> DEFINE new == [NewEcu(a[1], NewConfig(a[2])) EXCEPT !.permissive = isPermissive]
    <3>1. running' = Put(running, RequestId[a[1]], new)
      BY <2>3 DEF AddEcu, Refuse, modelVars
    <3>2. new.state = DefaultState  BY DEF NewEcu
    <3> HIDE DEF new
    <3> QED BY <3>1, <3>2 DEF Put, StatesKept
  <2>4. ASSUME NEW key \in EcuKeys, RemoveEcu(key), ~UNCHANGED running
        PROVE  StatesKept
    BY <2>4 DEF RemoveEcu, Refuse, modelVars, Without, StatesKept
  <2> QED BY <1>1, <1>3, <2>1, <2>2, <2>3, <2>4 DEF EditVehicle
<1>4. CASE EditEcu
  <2>1. ASSUME NEW key \in EcuKeys, NEW canTransmit \in BusStates,
               SetEcuFaultConfinement(key, canTransmit), ~UNCHANGED running
        PROVE  StatesKept
    <3>1. running' = [running EXCEPT ![key] =
                        [running[key] EXCEPT !.canTransmit = canTransmit]]
      BY <2>1 DEF SetEcuFaultConfinement, Refuse, modelVars
    <3> QED BY <3>1, Configs, StateKept DEF StatesKept
  <2> QED BY <1>1, <1>2, <1>4, <2>1
          DEF EditEcu, SetEcuOverrides, SetEcuTiming, SetEcuEnabled, Refuse, modelVars
<1>5. CASE EditWiring
  <2>1. ASSUME NEW key \in EcuKeys, NEW p \in Placements, SetEcuPlacement(key, p),
               ~UNCHANGED running
        PROVE  StatesKept
    <3>1. running' = [k \in DOMAIN running |->
                        IF k = key THEN [running[k] EXCEPT !.config = Place(@, p)]
                        ELSE running[k]]
      BY <2>1 DEF SetEcuPlacement, Refuse, modelVars
    <3> QED BY <3>1, Configs, StateKept DEF StatesKept
  <2>2. ASSUME NEW key \in GatewayKeys, SetVehicleGateway(key), ~UNCHANGED running
        PROVE  StatesKept
    <3>1. running' = [k \in DOMAIN running |->
                        [running[k] EXCEPT !.config =
                           Place(@, IF k = key THEN AtTheFront ELSE BehindIt)]]
      BY <2>2 DEF SetVehicleGateway, Refuse, modelVars
    <3>2. ASSUME NEW k \in DOMAIN running PROVE running'[k].state = running[k].state
      BY <3>1, Configs, StateKept
    <3> QED BY <3>1, <3>2 DEF StatesKept
  <2> QED BY <1>1, <1>5, <2>1, <2>2
          DEF EditWiring, UpsertNetwork, RemoveNetwork, Refuse, modelVars
<1>6. CASE EditSimulation
  <2>1. ASSUME NEW isOn \in PermissiveModes, SetPermissiveMode(isOn) PROVE StatesKept
    BY <2>1, Configs, StateKept DEF SetPermissiveMode, StatesKept
  <2>2. ASSUME ResetAllEcus PROVE StatesKept
    BY <2>2 DEF ResetAllEcus, NewEcu, StatesKept
  <2> QED BY <1>1, <1>2, <1>6, <2>1, <2>2
          DEF EditSimulation, SetFlowControlForEveryEcu, SetVehicleIdentity, Start, Stop,
              SetRunning, MarkSaved, Refuse, modelVars
<1>7. CASE RebuildEndpointsIfStale
  BY <1>1, <1>7 DEF RebuildEndpointsIfStale, modelVars
<1> QED BY <1>3, <1>4, <1>5, <1>6, <1>7 DEF Next

\* Whichever way a request is addressed, the ECUs that handle it run in a
\* running simulation and are not silent.
LEMMA RequestsAreAudible ==
  Request => \E keys : /\ Answer(keys)
                       /\ \A k \in keys : /\ isRunning /\ k \in DOMAIN running
                                          /\ ~IsSilent(running[k])
<1> SUFFICES ASSUME Request
             PROVE  \E keys : /\ Answer(keys)
                              /\ \A k \in keys : /\ isRunning /\ k \in DOMAIN running
                                                 /\ ~IsSilent(running[k])
  OBVIOUS
<1>1. CASE Answer({})  BY <1>1
<1>2. CASE isRunning /\ \E keys : Answer(Audible(keys))
  BY <1>2 DEF Audible
<1>3. ASSUME ~Answer({}) PROVE isRunning /\ \E keys : Answer(Audible(keys))
  BY <1>3 DEF Request, ProcessByCanId, ProcessByLogicalAddress, ProcessOnKey,
              ProcessFunctional, ProcessFunctionalByLogicalAddress
<1> QED BY <1>1, <1>2, <1>3

\* A request reaches only ECUs that are on the air, however the vehicle, its
\* wiring and its power switches came to be what they are.
THEOREM SilentEcusAreLeftAlone == Spec => SilentEcusHearNothing
<1> DEFINE Heard ==
      \A k \in DOMAIN running \cap DOMAIN running' :
        running[k].state = DefaultState /\ running'[k].state = UsedState =>
          /\ isRunning
          /\ running[k].config.enabled
          /\ running[k].canTransmit
          /\ ~DiagnosticPathTo(vehicle, running[k].config).blocked
<1>1. ASSUME IndInv, Next PROVE Heard
  <2>1. CASE ~Request
    <3>1. StatesKept  BY <1>1, <2>1, OnlyRequestsUse
    <3> QED BY <3>1, InputAssumption DEF StatesKept
  <2>2. CASE Request
    <3>1. PICK keys : /\ Answer(keys)
                      /\ \A k \in keys : /\ isRunning /\ k \in DOMAIN running
                                         /\ ~IsSilent(running[k])
      BY <2>2, RequestsAreAudible
    <3>2. \A k \in DOMAIN running : k \notin keys => running'[k] = running[k]
      BY <3>1 DEF Answer, Process
    <3> QED BY <3>1, <3>2, InputAssumption DEF IsSilent
  <2> QED BY <2>1, <2>2
<1>2. IndInv /\ [Next]_vars => [Heard]_vars
  BY <1>1
<1> QED BY <1>2, Invariant, PTL DEF Spec, SilentEcusHearNothing

-----------------------------------------------------------------------------
(***************************************************************************)
(* The two traversals of the wiring, down from the entry points and up to  *)
(* one.  Both are recursive functions of the number of hops; what they     *)
(* compute is found by induction over a set of numbers.                    *)
(***************************************************************************)
\* Induction over the natural numbers, for a set.
LEMMA NatBySets ==
  ASSUME NEW A, 0 \in A, \A n \in Nat : n \in A => n + 1 \in A
  PROVE  \A n \in Nat : n \in A
<1> SUFFICES ASSUME NEW n \in Nat, n \notin A PROVE FALSE
  OBVIOUS
<1> DEFINE T == {0 .. k : k \in {j \in 0 .. n : j \notin A}}
           R == StrictSubsetOrdering(Nat)
           S == FiniteSubsetsOf(Nat)
<1>1. IsWellFoundedOn(R, S)
  BY FS_StrictSubsetOrderingWellFounded
<1>2. T \subseteq S
  <2>1. \A k \in 0 .. n : 0 .. k \in SUBSET Nat /\ IsFiniteSet(0 .. k)
    BY FS_Interval
  <2>2. QED
    BY <2>1 DEF FiniteSubsetsOf
<1>3. T # {}
  <2>1. 0 .. n \in T
    OBVIOUS
  <2>2. QED
    BY <2>1
<1> HIDE DEF R, S
<1>4. PICK x \in T : \A y \in T : <<y, x>> \notin R
  BY <1>1, <1>2, <1>3, WFMin
<1>5. PICK k \in 0 .. n : x = 0 .. k /\ k \notin A
  OBVIOUS
<1>6. k # 0 /\ k - 1 \in Nat /\ k - 1 \in 0 .. n
  BY <1>5
<1>7. 0 .. (k - 1) \subseteq 0 .. k /\ 0 .. (k - 1) # 0 .. k
  <2>1. k \in 0 .. k /\ k \notin 0 .. (k - 1)
    BY <1>6
  <2>2. 0 .. (k - 1) \subseteq 0 .. k
    BY <1>6
  <2>3. QED
    BY <2>1, <2>2
<1>8. <<0 .. (k - 1), 0 .. k>> \in R
  <2>1. 0 .. (k - 1) \in SUBSET Nat /\ 0 .. k \in SUBSET Nat
    BY <1>6
  <2>2. QED
    BY <1>7, <2>1 DEF R, StrictSubsetOrdering
<1>9. 0 .. (k - 1) \notin T
  BY <1>4, <1>5, <1>8
<1>10. k - 1 \in A
  BY <1>6, <1>9
<1>11. QED
  BY <1>5, <1>6, <1>10

\* f starts with first and goes on by step.
Follows(f, V, first, step, n) ==
  /\ f \in [0 .. n -> V]
  /\ f[0] = first
  /\ \A k \in 1 .. n : f[k] = step[f[k - 1]]

\* A recursive function on the first numbers exists: its next value is a step
\* away from the one before.
LEMMA RecursionExists ==
  ASSUME NEW V, NEW first \in V, NEW step \in [V -> V], NEW n \in Nat
  PROVE  \E f : Follows(f, V, first, step, n)
<1> DEFINE Up(m, f) == Follows(f, V, first, step, m)
           A == {m \in Nat : \E f : Up(m, f)}
<1>1. 0 \in A
  <2>1. Up(0, [k \in 0 .. 0 |-> first])
    BY DEF Follows
  <2> QED BY <2>1
<1>2. ASSUME NEW m \in Nat, m \in A PROVE m + 1 \in A
  <2>1. PICK f : Up(m, f)
    BY <1>2
  <2> DEFINE g == [k \in 0 .. (m + 1) |-> IF k = m + 1 THEN step[f[m]] ELSE f[k]]
  <2>2. /\ \A k \in 0 .. m : g[k] = f[k]
        /\ g[m + 1] = step[f[m]]
        /\ DOMAIN g = 0 .. (m + 1)
    OBVIOUS
  <2>3. g \in [0 .. (m + 1) -> V]
    BY <2>1 DEF Follows
  <2> HIDE DEF g
  <2>4. g[0] = first
    BY <2>1, <2>2 DEF Follows
  <2>5. ASSUME NEW k \in 1 .. (m + 1) PROVE g[k] = step[g[k - 1]]
    <3>1. CASE k = m + 1
      BY <2>2, <3>1
    <3>2. CASE k # m + 1
      <4>1. k \in 1 .. m /\ k \in 0 .. m /\ k - 1 \in 0 .. m
        BY <3>2
      <4> QED BY <2>1, <2>2, <4>1 DEF Follows
    <3> QED BY <3>1, <3>2
  <2>6. Up(m + 1, g)
    BY <2>3, <2>4, <2>5 DEF Follows
  <2> QED BY <2>6
<1> HIDE DEF A
<1>3. n \in A
  BY <1>1, <1>2, NatBySets
<1> QED BY <1>3 DEF A

-----------------------------------------------------------------------------
(***************************************************************************)
(* The search down from the entry points                                   *)
(***************************************************************************)
LEMMA NetworksAreFinite ==
  ASSUME NEW S \in SUBSET NetworkIds
  PROVE  /\ IsFiniteSet(S)
         /\ Cardinality(S) \in Nat
         /\ Cardinality(S) <= Cardinality(NetworkIds)
         /\ Cardinality(NetworkIds) \in Nat
<1>1. IsFiniteSet(NetworkIds)
  BY TopologyAssumption
<1>2. IsFiniteSet(S) /\ Cardinality(S) <= Cardinality(NetworkIds)
  BY <1>1, FS_Subset
<1> QED BY <1>1, <1>2, FS_CardinalityType

\* Level is the search down from the entry points of v.
IsSearch(v, Level) ==
  /\ Level \in [0 .. Cardinality(NetworkIds) -> SUBSET Declared(v)]
  /\ Level[0] = EntryPoints(v)
  /\ \A k \in 1 .. Cardinality(NetworkIds) :
       Level[k] = Level[k - 1] \cup Behind(v, Level[k - 1])

LEMMA ReachedIsTheSearch ==
  ASSUME NEW v, IsVehicle(v), NamesDeclaredNetworks(v)
  PROVE  IsSearch(v, Reached(v))
<1> DEFINE N == Cardinality(NetworkIds)
           V == SUBSET Declared(v)
           step == [S \in V |-> S \cup Behind(v, S)]
           R(f) == [k \in 0 .. N |->
                      IF k = 0 THEN EntryPoints(v) ELSE f[k - 1] \cup Behind(v, f[k - 1])]
<1>1. N \in Nat
  BY NetworksAreFinite
<1>2. EntryPoints(v) \in V
  BY DEF EntryPoints
<1>3. \A S : Behind(v, S) \in V
  BY DEF Behind, NamesDeclaredNetworks
<1>4. step \in [V -> V]
  BY <1>3
<1>5. \A S \in V : step[S] = S \cup Behind(v, S)
  OBVIOUS
<1>6. Reached(v) = CHOOSE f : f = R(f)
  BY DEF Reached
<1> HIDE DEF N, V, step
<1> HIDE DEF R
<1>7. PICK g : Follows(g, V, EntryPoints(v), step, N)
  BY <1>1, <1>2, <1>4, RecursionExists
<1>8. g = R(g)
  <2>1. ASSUME NEW k \in 0 .. N, k # 0 PROVE g[k] = g[k - 1] \cup Behind(v, g[k - 1])
    <3>1. k \in 1 .. N /\ k - 1 \in 0 .. N
      BY <1>1, <2>1
    <3>2. g[k - 1] \in V
      BY <1>7, <3>1 DEF Follows
    <3> QED BY <1>5, <1>7, <3>1, <3>2 DEF Follows
  <2> QED BY <1>7, <2>1 DEF R, Follows
<1> DEFINE r == Reached(v)
<1>9. r = R(r)
  BY <1>6, <1>8, Zenon
<1> HIDE DEF r
<1> DEFINE A == {k \in Nat : k \in 0 .. N => r[k] \in V}
<1>10. \A k \in 0 .. N : r[k] = IF k = 0 THEN EntryPoints(v)
                                ELSE r[k - 1] \cup Behind(v, r[k - 1])
  BY <1>9 DEF R
<1>11. 0 \in 0 .. N
  BY <1>1
<1>12. 0 \in A
  BY <1>1, <1>2, <1>10
<1>13. ASSUME NEW k \in Nat, k \in A PROVE k + 1 \in A
  <2>1. SUFFICES ASSUME k + 1 \in 0 .. N PROVE r[k + 1] \in V
    OBVIOUS
  <2>2. k \in 0 .. N /\ k + 1 # 0 /\ (k + 1) - 1 = k
    BY <1>1, <2>1
  <2>3. r[k] \in V
    BY <1>13, <2>2
  <2>4. r[k + 1] = r[k] \cup Behind(v, r[k])
    BY <1>10, <2>1, <2>2
  <2> QED BY <1>3, <2>3, <2>4 DEF V
<1> HIDE DEF A
<1>14. \A k \in Nat : k \in A
  BY <1>12, <1>13, NatBySets
<1>15. \A k \in 0 .. N : r[k] \in V
  BY <1>14 DEF A
<1>16. r \in [0 .. N -> V]
  BY <1>9, <1>15 DEF R
<1>17. r[0] = EntryPoints(v)
  BY <1>10, <1>11
<1>18. \A k \in 1 .. N : r[k] = r[k - 1] \cup Behind(v, r[k - 1])
  <2>1. \A k \in 1 .. N : k \in 0 .. N /\ k # 0
    BY <1>1
  <2> QED BY <1>10, <2>1
<1> QED BY <1>16, <1>17, <1>18 DEF IsSearch, r, N, V

\* The search only ever adds networks.
LEMMA SearchGrows ==
  ASSUME NEW v, NEW L, IsSearch(v, L), NEW j \in 0 .. Cardinality(NetworkIds),
         NEW k \in j .. Cardinality(NetworkIds)
  PROVE  L[j] \subseteq L[k]
<1> DEFINE N == Cardinality(NetworkIds)
           A == {i \in Nat : j <= i /\ i <= N => L[j] \subseteq L[i]}
<1>1. N \in Nat
  BY NetworksAreFinite
<1>2. \A i \in 1 .. N : L[i - 1] \subseteq L[i]
  BY DEF IsSearch
<1> HIDE DEF N
<1>3. 0 \in A
  OBVIOUS
<1>4. ASSUME NEW i \in Nat, i \in A PROVE i + 1 \in A
  <2>1. SUFFICES ASSUME j <= i + 1, i + 1 <= N PROVE L[j] \subseteq L[i + 1]
    OBVIOUS
  <2>2. CASE j = i + 1
    BY <2>2
  <2>3. CASE j # i + 1
    <3>1. j <= i /\ i <= N /\ i + 1 \in 1 .. N /\ (i + 1) - 1 = i
      BY <1>1, <2>1, <2>3 DEF N
    <3>2. L[j] \subseteq L[i]
      BY <1>4, <3>1
    <3>3. L[i] \subseteq L[i + 1]
      BY <1>2, <3>1
    <3> QED BY <3>2, <3>3
  <2> QED BY <2>2, <2>3
<1> HIDE DEF A
<1>5. k \in Nat /\ j <= k /\ k <= N
  BY <1>1 DEF N
<1>6. k \in A
  BY <1>3, <1>4, <1>5, NatBySets
<1> QED BY <1>5, <1>6 DEF A

\* With as many hops as there are networks the search has found all it ever
\* finds: until then each hop that finds something finds a network more.
LEMMA SearchEnds ==
  ASSUME NEW v, IsVehicle(v), NamesDeclaredNetworks(v), NEW L, IsSearch(v, L)
  PROVE  /\ Cardinality(Declared(v)) \in 0 .. Cardinality(NetworkIds)
         /\ L[Cardinality(Declared(v))] = L[Cardinality(NetworkIds)]
<1> DEFINE N == Cardinality(NetworkIds)
           D == Declared(v)
           c == Cardinality(D)
           Closed(i) == Behind(v, L[i]) \subseteq L[i]
<1>1. D \in SUBSET NetworkIds
  BY DEF IsVehicle, IsMap, Declared
<1>2. N \in Nat /\ c \in Nat /\ c <= N /\ IsFiniteSet(D)
  BY <1>1, NetworksAreFinite
<1>3. \A i \in 0 .. N : L[i] \in SUBSET D
  BY DEF IsSearch
<1>4. \A i \in 1 .. N : L[i] = L[i - 1] \cup Behind(v, L[i - 1])
  BY DEF IsSearch
<1>5. \A S : Behind(v, S) \subseteq D
  BY DEF Behind, NamesDeclaredNetworks
<1>6. \A i \in 0 .. N : IsFiniteSet(L[i]) /\ Cardinality(L[i]) \in Nat
  BY <1>1, <1>3, NetworksAreFinite
<1> HIDE DEF N, c, D
<1> DEFINE A == {i \in Nat : i <= N => Closed(i) \/ Cardinality(L[i]) >= i}
<1>7. 0 \in A
  BY <1>2, <1>6
<1>8. ASSUME NEW i \in Nat, i \in A PROVE i + 1 \in A
  <2>1. SUFFICES ASSUME i + 1 <= N
                 PROVE  Closed(i + 1) \/ Cardinality(L[i + 1]) >= i + 1
    OBVIOUS
  <2>2. i \in 0 .. N /\ i + 1 \in 0 .. N /\ i + 1 \in 1 .. N /\ (i + 1) - 1 = i
    BY <1>2, <2>1
  <2>3. L[i + 1] = L[i] \cup Behind(v, L[i])
    BY <1>4, <2>2
  <2>4. CASE Closed(i)
    <3>1. L[i + 1] = L[i]
      BY <2>3, <2>4
    <3> QED BY <2>4, <3>1
  <2>5. CASE ~Closed(i)
    <3>1. Cardinality(L[i]) >= i
      BY <1>8, <2>2, <2>5
    <3>2. L[i] \in SUBSET L[i + 1] /\ L[i] # L[i + 1]
      BY <2>3, <2>5
    <3>3. /\ IsFiniteSet(L[i + 1]) /\ Cardinality(L[i + 1]) \in Nat
          /\ Cardinality(L[i]) \in Nat
      BY <1>6, <2>2
    <3>4. /\ Cardinality(L[i]) <= Cardinality(L[i + 1])
          /\ Cardinality(L[i + 1]) # Cardinality(L[i])
      BY <3>2, <3>3, FS_Subset
    <3>5. Cardinality(L[i + 1]) >= i + 1
      BY <3>1, <3>3, <3>4
    <3> QED BY <3>5
  <2> QED BY <2>4, <2>5
<1> HIDE DEF A
<1>9. c \in A
  BY <1>2, <1>7, <1>8, NatBySets
<1>10. Closed(c)
  <2>1. c \in 0 .. N
    BY <1>2
  <2>2. Closed(c) \/ Cardinality(L[c]) >= c
    BY <1>2, <1>9 DEF A
  <2>3. CASE Cardinality(L[c]) >= c
    <3>1. Cardinality(L[c]) <= c /\ (c = Cardinality(L[c]) => D = L[c])
      BY <1>2, <1>3, <2>1, FS_Subset DEF c
    <3>2. D = L[c]
      BY <1>2, <1>6, <2>1, <2>3, <3>1
    <3> QED BY <1>5, <3>2
  <2> QED BY <2>2, <2>3
<1> DEFINE B == {i \in Nat : c <= i /\ i <= N => L[i] = L[c]}
<1>11. 0 \in B
  BY <1>2
<1>12. ASSUME NEW i \in Nat, i \in B PROVE i + 1 \in B
  <2>1. SUFFICES ASSUME c <= i + 1, i + 1 <= N PROVE L[i + 1] = L[c]
    OBVIOUS
  <2>2. CASE c = i + 1
    BY <2>2
  <2>3. CASE c # i + 1
    <3>1. c <= i /\ i <= N /\ i + 1 \in 1 .. N /\ (i + 1) - 1 = i
      BY <1>2, <2>1, <2>3
    <3>2. L[i] = L[c]
      BY <1>12, <3>1
    <3>3. L[i + 1] = L[i] \cup Behind(v, L[i])
      BY <1>4, <3>1
    <3> QED BY <1>10, <3>2, <3>3
  <2> QED BY <2>2, <2>3
<1> HIDE DEF B
<1>13. N \in B
  BY <1>2, <1>11, <1>12, NatBySets
<1>14. L[N] = L[c]
  BY <1>2, <1>13 DEF B
<1> QED BY <1>2, <1>14 DEF N, c, D

\* The gateway that forwards onto a network, of which there is one at most.
Gateway(v, n) == v.ecus[FindGatewayForNetwork(v, n)]

LEMMA TheGateway ==
  ASSUME NEW v, IsVehicle(v), RejectSharedGateways(v), NEW n \in NetworkIds,
         GatewaysFor(v, n) # {}
  PROVE  /\ Gateway(v, n) \in Config
         /\ \A S : n \in Behind(v, S) <=> Gateway(v, n).network \in S
<1> DEFINE g == FindGatewayForNetwork(v, n)
<1>1. g \in GatewaysFor(v, n)
  BY DEF FindGatewayForNetwork
<1>2. \A e \in GatewaysFor(v, n) : e = g
  BY <1>1 DEF RejectSharedGateways
<1> HIDE DEF g
<1>3. g \in DOMAIN v.ecus /\ n \in v.ecus[g].behind
  BY <1>1 DEF GatewaysFor
<1>4. v.ecus[g] \in Config
  BY <1>3 DEF IsVehicle, IsMap
<1>5. ASSUME NEW S PROVE n \in Behind(v, S) <=> v.ecus[g].network \in S
  BY <1>2, <1>3 DEF Behind, GatewaysFor
<1> QED BY <1>4, <1>5 DEF Gateway, g

LEMMA NobodyForwards ==
  ASSUME NEW v, NEW n, GatewaysFor(v, n) = {}, NEW S
  PROVE  n \notin Behind(v, S)
BY DEF GatewaysFor, Behind

\* The search finds a network that is no entry point one hop after the network
\* of its gateway.
LEMMA OneHopLater ==
  ASSUME NEW v, IsVehicle(v), RejectSharedGateways(v), NEW L, IsSearch(v, L),
         NEW n \in NetworkIds, n \notin EntryPoints(v),
         NEW k \in 1 .. Cardinality(NetworkIds)
  PROVE  n \in L[k] <=> /\ GatewaysFor(v, n) # {}
                        /\ Gateway(v, n).network \in L[k - 1]
<1> DEFINE N == Cardinality(NetworkIds)
           Found(i) == GatewaysFor(v, n) # {} /\ Gateway(v, n).network \in L[i - 1]
           A == {i \in Nat : i \in 1 .. N => (n \in L[i] <=> Found(i))}
<1>1. N \in Nat
  BY NetworksAreFinite
<1>2. L[0] = EntryPoints(v)
  BY DEF IsSearch
<1>3. \A i \in 1 .. N : n \in L[i] <=> n \in L[i - 1] \/ Found(i)
  <2>1. ASSUME NEW i \in 1 .. N PROVE n \in Behind(v, L[i - 1]) <=> Found(i)
    <3>1. CASE GatewaysFor(v, n) = {}
      BY <3>1, NobodyForwards
    <3>2. CASE GatewaysFor(v, n) # {}
      BY <3>2, TheGateway
    <3> QED BY <3>1, <3>2
  <2>2. \A i \in 1 .. N : L[i] = L[i - 1] \cup Behind(v, L[i - 1])
    BY DEF IsSearch
  <2> HIDE DEF Found
  <2> QED BY <2>1, <2>2
<1>4. 0 \in A
  OBVIOUS
<1>5. ASSUME NEW i \in Nat, i \in A PROVE i + 1 \in A
  <2>1. SUFFICES ASSUME i + 1 \in 1 .. N PROVE n \in L[i + 1] <=> Found(i + 1)
    OBVIOUS
  <2>2. (i + 1) - 1 = i
    OBVIOUS
  <2>3. n \in L[i + 1] <=> n \in L[i] \/ Found(i + 1)
    BY <1>3, <2>1, <2>2
  <2>4. CASE i = 0
    BY <1>2, <2>3, <2>4
  <2>5. CASE i # 0
    <3>1. i \in 1 .. N /\ i - 1 \in 0 .. N /\ i \in (i - 1) .. N
      BY <1>1, <2>1, <2>5
    <3>2. n \in L[i] => Found(i)
      BY <1>5, <3>1
    <3>3. L[i - 1] \subseteq L[i]
      BY <3>1, SearchGrows
    <3>4. Found(i) => Found(i + 1)
      BY <2>2, <3>3
    <3> QED BY <2>3, <3>2, <3>4
  <2> QED BY <2>4, <2>5
<1> HIDE DEF A
<1>6. k \in Nat /\ k \in 1 .. N
  BY <1>1 DEF N
<1>7. k \in A
  BY <1>4, <1>5, <1>6, NatBySets
<1> QED BY <1>6, <1>7 DEF A

-----------------------------------------------------------------------------
(***************************************************************************)
(* The walk up to an entry point                                           *)
(***************************************************************************)
Paths == [reachable : BOOLEAN, hops : Nat, blocked : BOOLEAN]

LEMMA ThroughType ==
  ASSUME NEW path \in Paths, NEW b \in BOOLEAN
  PROVE  /\ Through(path, b) \in Paths
         /\ Through(path, b).reachable <=> path.reachable
         /\ path.reachable => Through(path, b).hops = path.hops + 1
<1>1. CASE ~path.reachable
  BY <1>1 DEF Through, Paths, NoPath
<1>2. CASE path.reachable
  <2> DEFINE h == path.hops + 1
             blocked == path.blocked \/ ~b
  <2>1. h \in Nat /\ path.reachable \in BOOLEAN
    BY DEF Paths
  <2>2. blocked \in BOOLEAN
    BY Zenon
  <2>3. Through(path, b) = [path EXCEPT !.hops = h, !.blocked = blocked]
    BY <1>2 DEF Through
  <2>4. path = [reachable |-> path.reachable, hops |-> path.hops, blocked |-> path.blocked]
    BY DEF Paths
  <2> HIDE DEF h, blocked
  <2>5. Through(path, b) = [reachable |-> path.reachable, hops |-> h, blocked |-> blocked]
    BY <2>3, <2>4
  <2>6. Through(path, b) \in Paths
    <3>1. \A x \in BOOLEAN, y \in Nat, z \in BOOLEAN :
            [reachable |-> x, hops |-> y, blocked |-> z] \in Paths
      BY DEF Paths
    <3> QED BY <2>1, <2>2, <2>5, <3>1, Zenon
  <2>7. Through(path, b).reachable = path.reachable /\ Through(path, b).hops = h
    BY <2>5
  <2> QED BY <2>6, <2>7 DEF h
<1> QED BY <1>1, <1>2

\* Walk goes on hop by hop from not knowing a way at all.
IsWalk(v, Walk) ==
  /\ Walk \in [0 .. HopLimit(v) -> [NetworkIds -> Paths]]
  /\ Walk[0] = [n \in NetworkIds |-> NoPath]
  /\ \A k \in 1 .. HopLimit(v) : Walk[k] = OneHop(v, Walk[k - 1])

LEMMA OneHopType ==
  ASSUME NEW v, IsVehicle(v), NEW nearer \in [NetworkIds -> Paths]
  PROVE  OneHop(v, nearer) \in [NetworkIds -> Paths]
<1> SUFFICES ASSUME NEW n \in NetworkIds PROVE OneHop(v, nearer)[n] \in Paths
  BY DEF OneHop
<1>1. NoPath \in Paths /\ DirectPath \in Paths
  BY DEF NoPath, DirectPath, Paths
<1> DEFINE between == v.ecus[FindGatewayForNetwork(v, n)]
<1>2. OneHop(v, nearer)[n] =
        IF IsEntryPoint(v, n) THEN DirectPath
        ELSE IF GatewaysFor(v, n) = {} THEN NoPath
        ELSE IF between.network = NoNetwork THEN NoPath
             ELSE Through(nearer[between.network], between.enabled)
  BY DEF OneHop
<1>3. ASSUME GatewaysFor(v, n) # {} PROVE between \in Config
  <2>1. FindGatewayForNetwork(v, n) \in GatewaysFor(v, n)
    BY <1>3 DEF FindGatewayForNetwork
  <2>2. FindGatewayForNetwork(v, n) \in DOMAIN v.ecus
    BY <2>1 DEF GatewaysFor
  <2> QED BY <2>2 DEF IsVehicle, IsMap
<1> HIDE DEF between
<1>4. ASSUME between \in Config, between.network # NoNetwork
      PROVE  Through(nearer[between.network], between.enabled) \in Paths
  <2>1. between.network \in NetworkIds /\ between.enabled \in BOOLEAN
    BY <1>4 DEF Config
  <2> QED BY <2>1, ThroughType
<1> QED BY <1>1, <1>2, <1>3, <1>4

LEMMA PathFromIsAWalk ==
  ASSUME NEW v, IsVehicle(v)
  PROVE  \E Walk : IsWalk(v, Walk) /\ PathFrom(v) = Walk[HopLimit(v)]
<1> DEFINE H == HopLimit(v)
           V == [NetworkIds -> Paths]
           lost == [n \in NetworkIds |-> NoPath]
           step == [w \in V |-> OneHop(v, w)]
           R(f) == [k \in 0 .. H |-> IF k = 0 THEN lost ELSE OneHop(v, f[k - 1])]
           r == CHOOSE f : f = R(f)
<1>1. H \in Nat
  <2>1. Declared(v) \in SUBSET NetworkIds
    BY DEF IsVehicle, IsMap, Declared
  <2> QED BY <2>1, NetworksAreFinite DEF HopLimit
<1>2. lost \in V
  <2>1. NoPath \in Paths
    BY DEF NoPath, Paths
  <2> QED BY <2>1
<1>3. \A w \in V : OneHop(v, w) \in V
  BY OneHopType
<1>4. step \in [V -> V]
  BY <1>3
<1>5. \A w \in V : step[w] = OneHop(v, w)
  OBVIOUS
<1>6. PathFrom(v) = r[H]
  BY DEF PathFrom
<1> HIDE DEF H, V, step, lost, R
<1>7. PICK g : Follows(g, V, lost, step, H)
  BY <1>1, <1>2, <1>4, RecursionExists
<1>8. g = R(g)
  <2>1. ASSUME NEW k \in 0 .. H, k # 0 PROVE g[k] = OneHop(v, g[k - 1])
    <3>1. k \in 1 .. H /\ k - 1 \in 0 .. H
      BY <1>1, <2>1
    <3>2. g[k - 1] \in V
      BY <1>7, <3>1 DEF Follows
    <3> QED BY <1>5, <1>7, <3>1, <3>2 DEF Follows
  <2> QED BY <1>7, <2>1 DEF R, Follows
<1>9. r = R(r)
  BY <1>8, Zenon
<1> HIDE DEF r
<1>10. \A k \in 0 .. H : r[k] = IF k = 0 THEN lost ELSE OneHop(v, r[k - 1])
  BY <1>9 DEF R
<1>11. 0 \in 0 .. H
  BY <1>1
<1> DEFINE A == {k \in Nat : k \in 0 .. H => r[k] \in V}
<1>12. 0 \in A
  BY <1>2, <1>10, <1>11
<1>13. ASSUME NEW k \in Nat, k \in A PROVE k + 1 \in A
  <2>1. SUFFICES ASSUME k + 1 \in 0 .. H PROVE r[k + 1] \in V
    OBVIOUS
  <2>2. k \in 0 .. H /\ k + 1 # 0 /\ (k + 1) - 1 = k
    BY <1>1, <2>1
  <2>3. r[k] \in V
    BY <1>13, <2>2
  <2>4. r[k + 1] = OneHop(v, r[k])
    BY <1>10, <2>1, <2>2
  <2> QED BY <1>3, <2>3, <2>4
<1> HIDE DEF A
<1>14. \A k \in Nat : k \in A
  BY <1>12, <1>13, NatBySets
<1>15. \A k \in 0 .. H : r[k] \in V
  BY <1>14 DEF A
<1>16. r \in [0 .. H -> V]
  BY <1>9, <1>15 DEF R
<1>17. r[0] = lost
  BY <1>10, <1>11
<1>18. \A k \in 1 .. H : r[k] = OneHop(v, r[k - 1])
  <2>1. \A k \in 1 .. H : k \in 0 .. H /\ k # 0
    BY <1>1
  <2> QED BY <1>10, <2>1
<1>19. IsWalk(v, r)
  BY <1>16, <1>17, <1>18 DEF IsWalk, H, V, lost
<1> QED BY <1>6, <1>19 DEF H

\* h is how many hops the search needs to find n.
FoundAt(L, n, h) == n \in L[h] /\ (h > 0 => n \notin L[h - 1])

\* A walk of k + 1 hops finds a way from exactly the networks the search finds
\* in k, as many hops long as the search needs.
Agrees(W, L, k) ==
  \A n \in NetworkIds :
    /\ W[k + 1][n].reachable <=> n \in L[k]
    /\ W[k + 1][n].reachable => W[k + 1][n].hops \in 0 .. k
                                /\ FoundAt(L, n, W[k + 1][n].hops)

LEMMA TheWalkOneHopOn ==
  ASSUME NEW v, IsVehicle(v), NEW W, IsWalk(v, W), NEW k \in Nat, k + 1 \in 1 .. HopLimit(v),
         NEW n \in NetworkIds
  PROVE  /\ W[k] \in [NetworkIds -> Paths]
         /\ n \in EntryPoints(v) => W[k + 1][n] = DirectPath
         /\ n \notin EntryPoints(v) =>
              /\ GatewaysFor(v, n) = {} => W[k + 1][n] = NoPath
              /\ GatewaysFor(v, n) # {} =>
                   W[k + 1][n] = IF Gateway(v, n).network = NoNetwork THEN NoPath
                                 ELSE Through(W[k][Gateway(v, n).network],
                                              Gateway(v, n).enabled)
<1>1. HopLimit(v) \in Nat
  <2>1. Declared(v) \in SUBSET NetworkIds
    BY DEF IsVehicle, IsMap, Declared
  <2> QED BY <2>1, NetworksAreFinite DEF HopLimit
<1>2. (k + 1) - 1 = k /\ k \in 0 .. HopLimit(v)
  BY <1>1
<1>3. W[k] \in [NetworkIds -> Paths]
  BY <1>2 DEF IsWalk
<1>4. W[k + 1] = OneHop(v, W[k])
  BY <1>2 DEF IsWalk
<1>5. n \in EntryPoints(v) <=> IsEntryPoint(v, n)
  BY DEF EntryPoints, IsEntryPoint
<1>6. W[k + 1][n] =
        IF IsEntryPoint(v, n) THEN DirectPath
        ELSE IF GatewaysFor(v, n) = {} THEN NoPath
        ELSE IF Gateway(v, n).network = NoNetwork THEN NoPath
             ELSE Through(W[k][Gateway(v, n).network], Gateway(v, n).enabled)
  BY <1>4 DEF OneHop, Gateway
<1> QED BY <1>3, <1>5, <1>6

LEMMA WalkAndSearchAgree ==
  ASSUME NEW v, IsVehicle(v), RejectSharedGateways(v),
         NEW L, IsSearch(v, L), NEW W, IsWalk(v, W), NEW c \in Nat,
         c = Cardinality(Declared(v)), c <= Cardinality(NetworkIds)
  PROVE  Agrees(W, L, c)
<1> DEFINE N == Cardinality(NetworkIds)
           A == {k \in Nat : k <= c => Agrees(W, L, k)}
<1>1. N \in Nat /\ HopLimit(v) = c + 1
  BY NetworksAreFinite DEF HopLimit
<1>2. L[0] = EntryPoints(v) /\ \A k \in 0 .. N : L[k] \subseteq NetworkIds
  <2>1. Declared(v) \subseteq NetworkIds
    BY DEF IsVehicle, IsMap, Declared
  <2> QED BY <2>1 DEF IsSearch
<1>3. \A n \in NetworkIds : ~W[0][n].reachable
  BY DEF IsWalk, NoPath
<1>4. /\ DirectPath.reachable /\ DirectPath.hops = 0
      /\ ~NoPath.reachable
  BY DEF DirectPath, NoPath
<1> HIDE DEF N
\* The networks of which only their gateway's network is known.
<1>5. ASSUME NEW k \in Nat, k <= c, NEW n \in NetworkIds, n \notin EntryPoints(v),
             GatewaysFor(v, n) # {},
             NEW u, u = Gateway(v, n).network
      PROVE  /\ u \in NetworkIds \cup {NoNetwork}
             /\ u = NoNetwork => ~W[k + 1][n].reachable
             /\ u \in NetworkIds =>
                  /\ W[k + 1][n].reachable <=> W[k][u].reachable
                  /\ W[k][u].reachable => W[k + 1][n].hops = W[k][u].hops + 1
                  /\ W[k][u] \in Paths
  <2>1. k + 1 \in 1 .. HopLimit(v)
    BY <1>1, <1>5
  <2>2. Gateway(v, n) \in Config
    BY <1>5, TheGateway
  <2>3. u \in NetworkIds \cup {NoNetwork} /\ Gateway(v, n).enabled \in BOOLEAN
    BY <1>5, <2>2 DEF Config
  <2>4. /\ W[k] \in [NetworkIds -> Paths]
        /\ W[k + 1][n] = IF u = NoNetwork THEN NoPath
                         ELSE Through(W[k][u], Gateway(v, n).enabled)
    BY <1>5, <2>1, TheWalkOneHopOn
  <2>5. CASE u = NoNetwork
    BY <1>4, <2>4, <2>5, TopologyAssumption
  <2>6. CASE u \in NetworkIds
    <3>1. W[k][u] \in Paths /\ u # NoNetwork
      BY <2>4, <2>6, TopologyAssumption
    <3>2. W[k + 1][n] = Through(W[k][u], Gateway(v, n).enabled)
      BY <2>4, <3>1
    <3> QED BY <2>3, <3>1, <3>2, ThroughType
  <2> QED BY <2>3, <2>5, <2>6
<1>6. ASSUME NEW k \in Nat, k <= c, NEW n \in NetworkIds, n \in EntryPoints(v)
      PROVE  /\ W[k + 1][n].reachable /\ n \in L[k]
             /\ W[k + 1][n].hops \in 0 .. k /\ FoundAt(L, n, W[k + 1][n].hops)
  <2>1. k + 1 \in 1 .. HopLimit(v) /\ k \in 0 .. N
    BY <1>1, <1>6 DEF N
  <2>2. W[k + 1][n] = DirectPath
    BY <1>6, <2>1, TheWalkOneHopOn
  <2>3. L[0] \subseteq L[k]
    BY <2>1, <1>1, SearchGrows DEF N
  <2> QED BY <1>2, <1>4, <1>6, <2>2, <2>3 DEF FoundAt
<1>7. ASSUME NEW k \in Nat, k <= c, NEW n \in NetworkIds, n \notin EntryPoints(v),
             GatewaysFor(v, n) = {}
      PROVE  ~W[k + 1][n].reachable /\ n \notin L[k]
  <2>1. k + 1 \in 1 .. HopLimit(v) /\ k \in 0 .. N
    BY <1>1, <1>7 DEF N
  <2>2. W[k + 1][n] = NoPath
    BY <1>7, <2>1, TheWalkOneHopOn
  <2>3. n \notin L[k]
    <3>1. CASE k = 0
      BY <1>2, <1>7, <3>1
    <3>2. CASE k # 0
      <4>1. k \in 1 .. N
        BY <2>1, <3>2
      <4> QED BY <1>7, <4>1, OneHopLater DEF N
    <3> QED BY <3>1, <3>2
  <2> QED BY <1>4, <2>2, <2>3
<1>8. 0 \in A
  <2>1. ASSUME NEW n \in NetworkIds, n \notin EntryPoints(v)
        PROVE  ~W[0 + 1][n].reachable /\ n \notin L[0]
    <3>1. CASE GatewaysFor(v, n) = {}
      BY <1>7, <2>1, <3>1
    <3>2. CASE GatewaysFor(v, n) # {}
      BY <1>2, <1>3, <1>5, <2>1, <3>2
    <3> QED BY <3>1, <3>2
  <2> QED BY <1>6, <2>1 DEF Agrees
<1>9. ASSUME NEW k \in Nat, k \in A PROVE k + 1 \in A
  <2>1. SUFFICES ASSUME k + 1 <= c PROVE Agrees(W, L, k + 1)
    OBVIOUS
  <2> DEFINE j == k + 1
  <2>2. j \in Nat /\ j <= c /\ k \in 0 .. N /\ j \in 1 .. N /\ j - 1 = k
    BY <1>1, <2>1 DEF N
  <2>3. Agrees(W, L, k)
    BY <1>9, <2>1
  <2> HIDE DEF j
  <2>4. ASSUME NEW n \in NetworkIds, n \notin EntryPoints(v), GatewaysFor(v, n) # {}
        PROVE  /\ W[j + 1][n].reachable <=> n \in L[j]
               /\ W[j + 1][n].reachable => W[j + 1][n].hops \in 0 .. j
                                           /\ FoundAt(L, n, W[j + 1][n].hops)
    <3> DEFINE u == Gateway(v, n).network
    <3>1. n \in L[j] <=> u \in L[k]
      BY <2>2, <2>4, OneHopLater DEF N
    <3>2. u \in NetworkIds \cup {NoNetwork} /\ L[k] \subseteq NetworkIds
      BY <1>2, <1>5, <2>2, <2>4
    <3>3. CASE u = NoNetwork
      BY <1>5, <2>2, <2>4, <3>1, <3>2, <3>3, TopologyAssumption
    <3>4. CASE u \in NetworkIds
      <4>1. /\ W[j + 1][n].reachable <=> W[j][u].reachable
            /\ W[j][u].reachable => W[j + 1][n].hops = W[j][u].hops + 1
        BY <1>5, <2>2, <2>4, <3>4
      <4> HIDE DEF u
      <4>2. /\ W[j][u].reachable <=> u \in L[k]
            /\ W[j][u].reachable => W[j][u].hops \in 0 .. k
                                    /\ FoundAt(L, u, W[j][u].hops)
        BY <2>3, <3>4 DEF Agrees, j
      <4>3. ASSUME W[j][u].reachable, NEW h, h = W[j][u].hops
            PROVE  h + 1 \in 0 .. j /\ FoundAt(L, n, h + 1)
        <5>1. h \in 0 .. k /\ u \in L[h] /\ (h > 0 => u \notin L[h - 1])
          BY <4>2, <4>3 DEF FoundAt
        <5>2. h + 1 \in 1 .. N /\ (h + 1) - 1 = h /\ h + 1 \in 0 .. j
          BY <1>1, <2>2, <5>1
        <5>3. n \in L[h + 1]
          BY <2>4, <5>1, <5>2, OneHopLater DEF N, u
        <5>4. n \notin L[h]
          <6>1. CASE h = 0
            BY <1>2, <2>4, <6>1
          <6>2. CASE h # 0
            <7>1. h \in 1 .. N /\ h > 0
              BY <1>1, <5>1, <5>2, <6>2
            <7> QED BY <2>4, <5>1, <7>1, OneHopLater DEF N, u
          <6> QED BY <6>1, <6>2
        <5> QED BY <5>2, <5>3, <5>4 DEF FoundAt
      <4> QED BY <3>1, <4>1, <4>2, <4>3
    <3> QED BY <3>2, <3>3, <3>4
  <2>5. ASSUME NEW n \in NetworkIds
        PROVE  /\ W[j + 1][n].reachable <=> n \in L[j]
               /\ W[j + 1][n].reachable => W[j + 1][n].hops \in 0 .. j
                                           /\ FoundAt(L, n, W[j + 1][n].hops)
    BY <1>6, <1>7, <2>2, <2>4
  <2> QED BY <2>5 DEF Agrees, j
<1> HIDE DEF A
<1>10. c \in A
  BY <1>8, <1>9, NatBySets
<1> QED BY <1>10 DEF A

\* On a vehicle with sound wiring the two traversals agree.
LEMMA TraversalsAgree ==
  ASSUME NEW v, IsVehicle(v), ValidateTopology(v), NEW n \in NetworkIds
  PROVE  LET path == PathFrom(v)[n]
             depths == NetworkDepths(v)
         IN  /\ path.reachable <=> n \in DOMAIN depths
             /\ path.reachable => path.hops = depths[n]
<1> DEFINE N == Cardinality(NetworkIds)
           c == Cardinality(Declared(v))
           L == Reached(v)
           path == PathFrom(v)[n]
           depths == NetworkDepths(v)
<1>1. NamesDeclaredNetworks(v) /\ RejectSharedGateways(v)
  BY DEF ValidateTopology
<1>2. IsSearch(v, L)
  BY <1>1, ReachedIsTheSearch
<1>3. DOMAIN depths = L[N] /\ \A m \in L[N] : depths[m] = CHOOSE k \in 0 .. N : FoundAt(L, m, k)
  BY DEF NetworkDepths, FoundAt
<1> HIDE DEF L, depths
<1>4. c \in 0 .. N /\ L[c] = L[N]
  BY <1>1, <1>2, SearchEnds
<1>5. N \in Nat
  BY NetworksAreFinite
<1> HIDE DEF N
<1>6. PICK W : IsWalk(v, W) /\ PathFrom(v) = W[HopLimit(v)]
  BY PathFromIsAWalk
<1>7. path = W[c + 1][n]
  BY <1>6 DEF HopLimit
<1>8. Agrees(W, L, c)
  BY <1>1, <1>2, <1>4, <1>5, <1>6, WalkAndSearchAgree DEF N
<1>9. /\ path.reachable <=> n \in L[c]
      /\ path.reachable => path.hops \in 0 .. c /\ FoundAt(L, n, path.hops)
  BY <1>7, <1>8 DEF Agrees
<1> HIDE DEF path, c
<1>10. ASSUME path.reachable PROVE path.hops = depths[n]
  <2> DEFINE h == path.hops
             d == CHOOSE k \in 0 .. N : FoundAt(L, n, k)
  <2>1. h \in 0 .. N /\ FoundAt(L, n, h)
    BY <1>4, <1>5, <1>9, <1>10
  <2>2. d \in 0 .. N /\ FoundAt(L, n, d)
    BY <2>1
  <2> HIDE DEF h, d
  <2>3. ASSUME NEW i \in 0 .. N, NEW j \in 0 .. N, FoundAt(L, n, i), FoundAt(L, n, j), i < j
        PROVE  FALSE
    <3>1. j - 1 \in i .. N /\ j > 0
      BY <1>5, <2>3
    <3>2. L[i] \subseteq L[j - 1]
      BY <1>2, <3>1, SearchGrows DEF N
    <3> QED BY <2>3, <3>1, <3>2 DEF FoundAt
  <2>4. h = d
    BY <1>5, <2>1, <2>2, <2>3
  <2>5. depths[n] = d
    BY <1>3, <1>4, <1>9, <1>10 DEF d
  <2> QED BY <2>4, <2>5 DEF h
<1> QED BY <1>3, <1>4, <1>9, <1>10 DEF path, depths

\* Whatever the operator edits, as long as the wiring is sound: an ECU's path to
\* a tester exists exactly if the diagram of the networks places its network,
\* and crosses as many gateways as the diagram shows.
THEOREM PathsAgree == Spec => []PathsAgreeWithDepths
<1>1. TypeOK => PathsAgreeWithDepths
  BY TraversalsAgree DEF TypeOK, PathsAgreeWithDepths
<1> QED BY <1>1, TypeCorrect, PTL
=============================================================================
