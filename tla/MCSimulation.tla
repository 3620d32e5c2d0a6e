----------------------------- MODULE MCSimulation -----------------------------
\* Instances of SimulationService for TLC.
EXTENDS SimulationService, TLC

\* ECUs; identifiers and logical addresses; networks; timings and overrides.
CONSTANTS gateway, engine, eth, obd
CONSTANTS r1, r2, s1, s2, f, l1, l2
CONSTANTS front, back, inner
CONSTANTS t1, t2, none

\* The gateway is reachable over CAN and DoIP, the engine over CAN, eth over
\* DoIP; obd claims the broadcast identifier of the others for itself.
MCRequestId == [e \in Ecus |-> CASE e = gateway -> r1 [] e = engine -> r2
                                 [] e = obd -> f [] OTHER -> NoId]
MCResponseId == [e \in Ecus |-> CASE e = gateway -> s1 [] e = engine -> s2
                                  [] e = obd -> r2 [] OTHER -> NoId]
MCFunctionalId == [e \in Ecus |-> IF e \in {gateway, engine} THEN f ELSE NoId]
MCLogicalAddress == [e \in Ecus |-> CASE e = gateway -> l1 [] e = eth -> l2
                                      [] OTHER -> NoId]

Plain(n, gated) == [network |-> n, behind |-> gated, enabled |-> TRUE,
                    timing |-> t1, overrides |-> none]
Flat(E) == [isLoaded |-> TRUE, ecus |-> [e \in E |-> Plain(NoNetwork, {})], networks |-> <<>>]

Unplaced == [network |-> NoNetwork, behind |-> {}]
RegistryLoadable == {Flat({gateway, eth}), Flat({engine, obd})}
RegistryAddable == {engine, obd} \X {Unplaced}

\* A chain: the gateway on the front network, the engine behind it, a further
\* network behind the engine.
Chained ==
  [isLoaded |-> TRUE,
   ecus |-> (gateway :> Plain(front, {back}) @@ engine :> Plain(back, {inner})),
   networks |-> (front :> TRUE @@ back :> FALSE @@ inner :> FALSE)]

WiringLoadable == {Chained}
WiringAddable == {<<engine, [network |-> back, behind |-> {}]>>}
WiringPlacements ==
  {Unplaced, [network |-> inner, behind |-> {back}]}
WiringDeclarable == {<<inner, FALSE>>, <<back, TRUE>>}
=============================================================================
