---------------------------- MODULE MCDoIpEntity ----------------------------
(* The entity alone, under callers that order its operations in any way:
   three sockets and two to be registered at most, three tester addresses  
   the entity accepts and one it does not.                                 *)
EXTENDS DoIpEntity, TLC

CONSTANTS s1, s2, s3, testerA, testerB, testerC, ecu

MCSocket == {s1, s2, s3}
MCAcceptable == {testerA, testerB, testerC}
MCAddress == MCAcceptable \cup {ecu}

Healthy ==
    [maxSockets |-> 2, forcedRoutingActivationCode |-> "None",
     forcedDiagnosticNack |-> "None", forcedHeaderNack |-> "None"]

(* Nothing injected, and the two injected codes that register an address:
   one routes at once, the other waits.                                    *)
MCSettings ==
    {Healthy,
     [Healthy EXCEPT !.forcedRoutingActivationCode = "Activated"],
     [Healthy EXCEPT !.forcedRoutingActivationCode = "DeniedMissingAuthentication"]}

MCPlans == {<<>>, <<0>>}

Symmetry == Permutations(MCSocket) \cup Permutations(MCAcceptable)
=============================================================================
