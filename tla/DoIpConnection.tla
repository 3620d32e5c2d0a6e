--------------------------- MODULE DoIpConnection ---------------------------
(***************************************************************************)
(* One TCP_DATA connection of the DoIP entity: the pure decision logic of  *)
(* crates/doip/src/connection.rs.  Time is counted in ticks of the         *)
(* server's connection clock (250 ms).                                     *)
(***************************************************************************)
EXTENDS Naturals

CONSTANTS
    Address,             \* tester source addresses that occur in requests
    AcceptableAddress,   \* those IsAcceptableTesterAddress lets through
    NoAddress,           \* no tester address registered on the socket
    InitialInactivity,   \* ticks of T_TCP_Initial_Inactivity
    GeneralInactivity    \* ticks of T_TCP_General_Inactivity

ASSUME AddressAssumption ==
    /\ AcceptableAddress \subseteq Address
    /\ NoAddress \notin Address

ASSUME InactivityAssumption ==
    /\ InitialInactivity \in Nat \ {0}
    /\ GeneralInactivity \in Nat
    /\ InitialInactivity <= GeneralInactivity

ConnectionState ==
    {"Initialized", "PendingAuthentication", "RoutingActive", "Finalize"}

RoutingActivationOutcome ==
    {"DeniedUnknownSourceAddress", "DeniedAllSocketsRegistered",
     "DeniedSourceAddressMismatch", "DeniedSourceAddressInUse",
     "DeniedMissingAuthentication", "DeniedUnsupportedActivationType",
     "Activated"}

(* The state is "Absent" for a socket the connection table has no entry of.
   `injected` is a history field the properties read: the registration was
   put there by a forced response code, not by the decision table.         *)
Connection ==
    [state: ConnectionState \cup {"Absent"},
     sourceAddress: Address \cup {NoAddress},
     idle: Nat,
     injected: BOOLEAN]

Absent ==
    [state |-> "Absent", sourceAddress |-> NoAddress,
     idle |-> 0, injected |-> FALSE]

NewConnection ==
    [state |-> "Initialized", sourceAddress |-> NoAddress,
     idle |-> 0, injected |-> FALSE]

IsRegistered(c) == c.sourceAddress # NoAddress

(* Mutated form of NoteActivity: traffic restarts every timer.             *)
NoteActivityAlways(c) ==
    IF c.state = "Absent" THEN c ELSE [c EXCEPT !.idle = 0]

(* Traffic restarts the general timer and never the initial one.           *)
NoteActivity(c) ==
    IF c.state \in {"Absent", "Initialized"} THEN c ELSE [c EXCEPT !.idle = 0]

Deadline(c) ==
    IF c.state = "Initialized" THEN InitialInactivity ELSE GeneralInactivity

(* One tick: a finished connection, or one whose deadline is reached, is
   due to be dropped; any other has been idle for one tick more.           *)
IsDueAfterTick(c) ==
    \/ c.state = "Finalize"
    \/ c.idle + 1 >= Deadline(c)

AfterTick(c) ==
    CASE c.state = "Absent"  -> Absent
      [] c.state # "Absent" /\ IsDueAfterTick(c)  -> Absent
      [] OTHER -> [c EXCEPT !.idle = @ + 1]

(* Mutated form of DecideRoutingActivation: an activated socket may move to
   another address.                                                        *)
DecideWithoutMismatch(c, address, supported, activeElsewhere, hasFreeSocket) ==
    CASE ~supported -> "DeniedUnsupportedActivationType"
      [] supported /\ address \notin AcceptableAddress ->
            "DeniedUnknownSourceAddress"
      [] OTHER -> IF activeElsewhere THEN "DeniedSourceAddressInUse"
                  ELSE IF ~hasFreeSocket THEN "DeniedAllSocketsRegistered"
                  ELSE "Activated"

(* The decision table, in the order the code applies it.                   *)
DecideRoutingActivation(c, address, supported, activeElsewhere, hasFreeSocket) ==
    CASE ~supported ->
            "DeniedUnsupportedActivationType"
      [] supported /\ address \notin AcceptableAddress ->
            "DeniedUnknownSourceAddress"
      [] supported /\ address \in AcceptableAddress /\ IsRegistered(c) ->
            IF c.sourceAddress = address THEN "Activated"
                                         ELSE "DeniedSourceAddressMismatch"
      [] OTHER ->
            IF activeElsewhere     THEN "DeniedSourceAddressInUse"
            ELSE IF ~hasFreeSocket THEN "DeniedAllSocketsRegistered"
            ELSE "Activated"

ClosesSocket(outcome) ==
    outcome \notin {"Activated", "DeniedMissingAuthentication"}

(* Every outcome starts the general timer from zero; a closing denial keeps
   the address the connection already had.                                 *)
ApplyRoutingActivation(c, address, outcome, forced) ==
    IF ClosesSocket(outcome)
    THEN [c EXCEPT !.state = "Finalize", !.idle = 0]
    ELSE [state |-> IF outcome = "Activated" THEN "RoutingActive"
                                             ELSE "PendingAuthentication",
          sourceAddress |-> address,
          idle |-> 0,
          injected |-> forced \/ c.injected]
=============================================================================
