---------------------------- MODULE MCDoIpServer ----------------------------
(* A small DoIP server: two sockets, an accepted and a reserved tester
   address, and the settings that tell the entity's branches apart.        *)
EXTENDS DoIpServer

CONSTANTS s1, s2, tester, other

MCSocket == {s1, s2}
MCAddress == {tester, other}
MCAcceptable == {tester}

Healthy ==
    [maxSockets |-> 1, forcedRoutingActivationCode |-> "None",
     forcedDiagnosticNack |-> "None", forcedHeaderNack |-> "None"]

(* With 04 injected a socket is registered and waits; with the injection
   taken back, the same request activates it.                              *)
MCSettings ==
    {Healthy,
     [Healthy EXCEPT !.forcedRoutingActivationCode = "DeniedMissingAuthentication"]}

Activate(a) ==
    [kind |-> "RoutingActivationRequest", address |-> a, supported |-> TRUE]
Diagnose(a) == [kind |-> "DiagnosticMessage", address |-> a]

MCChunks ==
    {<<Activate(tester), Diagnose(tester)>>,
     <<Activate(other), Activate(tester)>>,
     <<Diagnose(tester)>>}

MCPlans == {<<>>, <<1, 0>>}
=============================================================================
