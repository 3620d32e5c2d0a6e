--------------------------- MODULE MCExchangeGate ---------------------------
\* An instance of ExchangeGate for TLC: an ECU on CAN and one that has no CAN
\* identifier, which answer alone or both.
EXTENDS ExchangeGate, TLC

CONSTANTS Engine, Body
MCEcus == {Engine, Body}
MCRequestCanId == (Engine :> 7) @@ (Body :> 0)
MCLimits == {Unlimited, 1}
MCOutcomes == {(Engine :> 1), (Body :> 2), (Engine :> 2) @@ (Body :> 2)}
=============================================================================
