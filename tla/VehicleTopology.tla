--------------------------- MODULE VehicleTopology ---------------------------
(***************************************************************************)
(* How the ECUs of a vehicle are wired, after the topology half of         *)
(* crates/core-domain/src/model.rs: networks, the ECUs that sit on them    *)
(* and the gateways that forward onto further ones.  A vehicle is          *)
(*   [isLoaded |-> whether there is one at all (an Option in the service), *)
(*    ecus     |-> each of its ECUs and how it is configured,              *)
(*    networks |-> each declared network and whether a tester attaches     *)
(*                 to it].                                                 *)
(* ECUs stand for the entries of m_vecEcus; their order matters only where *)
(* two of them forward onto one network, which ValidateTopology refuses.   *)
(***************************************************************************)
EXTENDS Integers, FiniteSets

CONSTANTS
  Ecus,            \* the ECUs a vehicle may have
  NetworkIds,      \* the ids networks are declared under
  NoNetwork,       \* the placement of an ECU nobody has placed
  Timings,         \* timing parameters, ISO-TP flow control included
  Overrides        \* lists of response overrides

ASSUME TopologyAssumption ==
  /\ IsFiniteSet(NetworkIds)
  /\ NoNetwork \notin NetworkIds

\* The configuration of an ECU as far as an operator edits it at run time.
Config == [network   : NetworkIds \cup {NoNetwork},
           behind    : SUBSET NetworkIds,      \* m_vecGatewayForNetworkIds
           enabled   : BOOLEAN,
           timing    : Timings,
           overrides : Overrides]

\* map is a function from some of the keys to values.
IsMap(map, keys, values) ==
  DOMAIN map \subseteq keys /\ map \in [DOMAIN map -> values]

IsVehicle(v) ==
  /\ v = [isLoaded |-> v.isLoaded, ecus |-> v.ecus, networks |-> v.networks]
  /\ v.isLoaded \in BOOLEAN
  /\ IsMap(v.ecus, Ecus, Config)
  /\ IsMap(v.networks, NetworkIds, BOOLEAN)

Declared(v) == DOMAIN v.networks
IsEntryPoint(v, n) == n \in Declared(v) /\ v.networks[n]

GatewaysFor(v, n) == {e \in DOMAIN v.ecus : n \in v.ecus[e].behind}
FindGatewayForNetwork(v, n) == CHOOSE e \in GatewaysFor(v, n) : TRUE

(***************************************************************************)
(* Vehicle::ValidateTopology and its two helpers                           *)
(***************************************************************************)
NamesDeclaredNetworks(v) ==
  \A e \in DOMAIN v.ecus :
    /\ v.ecus[e].network \in Declared(v) \cup {NoNetwork}
    /\ v.ecus[e].behind \subseteq Declared(v) \ {v.ecus[e].network}

RejectSharedGateways(v) ==
  \A n \in NetworkIds : \A d, e \in GatewaysFor(v, n) : d = e

\* The network one hop nearer the tester, when something forwards onto n and
\* is itself on a network.
Upstream(v, n) == {v.ecus[e].network : e \in GatewaysFor(v, n)} \ {NoNetwork}

\* Walking upstream meets a network twice exactly if some networks only lead
\* to each other.
RejectGatewayCycles(v) ==
  \A loop \in SUBSET Declared(v) :
    (\A n \in loop : Upstream(v, n) \cap loop # {}) => loop = {}

ValidateTopology(v) ==
  /\ NamesDeclaredNetworks(v)
  /\ RejectSharedGateways(v)
  /\ RejectGatewayCycles(v)

(***************************************************************************)
(* Vehicle::NormalizeEntryPoints: where nobody marked an entry point, every *)
(* network nothing forwards onto becomes one.                              *)
(***************************************************************************)
NormalizeEntryPoints(v) ==
  IF \E n \in Declared(v) : v.networks[n] THEN v
  ELSE [v EXCEPT !.networks =
          [n \in Declared(v) |-> GatewaysFor(v, n) = {}]]

(***************************************************************************)
(* Vehicle::DiagnosticPathTo: the walk from a network up to an entry       *)
(* point.  A gateway that is on no network ends it: no path, and then no   *)
(* gateway that is switched off either.                                    *)
(***************************************************************************)
NoPath == [reachable |-> FALSE, hops |-> 0, blocked |-> FALSE]
DirectPath == [reachable |-> TRUE, hops |-> 0, blocked |-> FALSE]

HopLimit(v) == Cardinality(Declared(v)) + 1

\* Mutated form of Through: a gateway that is switched off ends the path.
ThroughEnabled(path, isEnabled) ==
  IF ~path.reachable \/ ~isEnabled THEN NoPath
  ELSE [path EXCEPT !.hops = @ + 1]

Through(path, isEnabled) ==
  IF ~path.reachable THEN NoPath
  ELSE [path EXCEPT !.hops = @ + 1, !.blocked = @ \/ ~isEnabled]

\* One hop of the walk: nearer is what walks with one hop less to go find.
OneHop(v, nearer) ==
  [n \in NetworkIds |->
     IF IsEntryPoint(v, n) THEN DirectPath
     ELSE IF GatewaysFor(v, n) = {} THEN NoPath
     ELSE LET between == v.ecus[FindGatewayForNetwork(v, n)]
          IN  IF between.network = NoNetwork THEN NoPath
              ELSE Through(nearer[between.network], between.enabled)]

PathFrom(v) ==
  LET Walk[left \in 0 .. HopLimit(v)] ==
        IF left = 0 THEN [n \in NetworkIds |-> NoPath]
        ELSE OneHop(v, Walk[left - 1])
  IN  Walk[HopLimit(v)]

DiagnosticPathTo(v, config) ==
  IF config.network = NoNetwork THEN DirectPath
  ELSE PathFrom(v)[config.network]

(***************************************************************************)
(* Vehicle::NetworkDepths: breadth-first from the entry points.  Reached   *)
(* [k] are the networks behind at most k gateways.                         *)
(***************************************************************************)
EntryPoints(v) == {n \in Declared(v) : v.networks[n]}

\* What the gateways on the networks of reached forward onto.
Behind(v, reached) ==
  UNION {v.ecus[e].behind : e \in {x \in DOMAIN v.ecus : v.ecus[x].network \in reached}}

Reached(v) ==
  LET Level[k \in 0 .. Cardinality(NetworkIds)] ==
        IF k = 0 THEN EntryPoints(v)
        ELSE Level[k - 1] \cup Behind(v, Level[k - 1])
  IN  Level

\* Each network a chain of gateways connects to an entry point, with the
\* number of them.
NetworkDepths(v) ==
  LET Level == Reached(v)
      limit == Cardinality(NetworkIds)
  IN  [n \in Level[limit] |->
         CHOOSE k \in 0 .. limit :
           n \in Level[k] /\ (k > 0 => n \notin Level[k - 1])]
=============================================================================
