----------------------------- MODULE MCCanBridge -----------------------------
\* An instance of CanBridge for TLC: two ECUs and a broadcast both answer.
EXTENDS CanBridge

CONSTANTS EngineId, GatewayId, BroadcastId
MCEcus == {EngineId, GatewayId}
MCIds == {EngineId, GatewayId, BroadcastId}

Sends(e, size) == [ecu |-> e, size |-> size]
MCPlans == (EngineId :> {}) @@ (GatewayId :> {<<Sends(GatewayId, 1)>>})
           @@ (BroadcastId :> {<<Sends(EngineId, 2), Sends(GatewayId, MaxSize + 1)>>})
MCSizes == (EngineId :> {}) @@ (GatewayId :> {2}) @@ (BroadcastId :> {0, 1})
MCRequests == (EngineId :> 0) @@ (GatewayId :> 2) @@ (BroadcastId :> 1)
=============================================================================
