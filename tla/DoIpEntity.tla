----------------------------- MODULE DoIpEntity -----------------------------
(***************************************************************************)
(* The DoIP entity of crates/doip-server/src/entity.rs: the connection     *)
(* table and what each TCP message does to it and is answered with.  Every *)
(* operation runs under the entity's mutex and is one step.  The settings  *)
(* have a mutex of their own, which HandleTcp takes once for each field it *)
(* needs: a PUT of new settings may land between two of those reads, so    *)
(* HandleTcp is given what each of its reads saw.                          *)
(***************************************************************************)
EXTENDS DoIpConnection, Sequences, FiniteSets

CONSTANTS
    Socket,      \* the transport's socket numbers; one is never used twice
    Settings,    \* the settings PUT /doip/settings may store
    Capacity,    \* the largest maxSockets among them
    Plans        \* answers of a routed request: sequences of due ticks

(* "None" injects nothing.  The header NACK codes 00 and 04 close the
   socket, 01 to 03 discard the message; the diagnostic code 02 closes,
   03 to 06 do not.                                                        *)
SettingsShape ==
    [maxSockets: Nat \ {0},
     forcedRoutingActivationCode: RoutingActivationOutcome \cup {"None"},
     forcedDiagnosticNack: {"None", "Close", "Keep"},
     forcedHeaderNack: {"None", "Close", "Keep"}]

ASSUME SettingsAssumption ==
    /\ Settings \subseteq SettingsShape
    /\ Capacity \in Nat
    /\ \A w \in Settings : w.maxSockets <= Capacity

ASSUME SocketAssumption == IsFiniteSet(Socket)

VARIABLES
    connections,   \* m_mapConnections
    settings       \* m_arcMtxSettings

entityVars == <<connections, settings>>

(***************************************************************************)
(* Messages, by what tells them apart for the entity.  A "Discardable" one *)
(* fails the header check with a code that keeps the socket (unknown type, *)
(* too large) or is of a type that is not served on TCP; an "Unreadable"   *)
(* one fails it with a code that closes (pattern, payload length).         *)
(***************************************************************************)
RoutingActivationRequest ==
    [kind: {"RoutingActivationRequest"}, address: Address, supported: BOOLEAN]
DiagnosticMessage == [kind: {"DiagnosticMessage"}, address: Address]
OtherMessage ==
    [kind: {"AliveCheckRequest", "AliveCheckResponse", "SentByAnEntity",
            "Discardable", "Unreadable"}]

Message == RoutingActivationRequest \cup DiagnosticMessage \cup OtherMessage

(* What the simulation made of a routed request.                           *)
SimulationResult ==
    [verdict: {"NoTarget", "Stopped", "TooLargeForSubnetwork", "Silenced"},
     plan: {<<>>}]
    \cup [verdict: {"Handled"}, plan: Plans]

(* What successive reads of the settings may see while `new` is stored.    *)
SettingsReads(new) ==
    {<<settings, settings, settings>>,
     <<settings, settings, new>>,
     <<settings, new, new>>}

-----------------------------------------------------------------------------
(* Replies and reactions.                                                  *)

ReplyAt(kind, to, at) == [kind |-> kind, to |-> to, at |-> at]
Silence == [replies |-> <<>>, close |-> FALSE]
Reply(kind, to) == [replies |-> <<ReplyAt(kind, to, 0)>>, close |-> FALSE]
ReplyAndClose(kind, to) == [replies |-> <<ReplyAt(kind, to, 0)>>, close |-> TRUE]

NackReaction(kind, to, effect) ==
    IF effect = "Close" THEN ReplyAndClose(kind, to) ELSE Reply(kind, to)

(* Mutated forms of ActiveElsewhere and RegisteredElsewhere: only sockets
   that route are looked at, not those still holding an address.           *)
RoutingElsewhere(table, s, a) ==
    \E t \in Socket \ {s} :
        table[t].sourceAddress = a /\ table[t].state = "RoutingActive"

RoutingSocketsElsewhere(table, s) ==
    {t \in Socket \ {s} : table[t].state = "RoutingActive"}

ActiveElsewhere(table, s, a) ==
    \E t \in Socket \ {s} : table[t].sourceAddress = a

RegisteredElsewhere(table, s) ==
    {t \in Socket \ {s} : IsRegistered(table[t])}

RoutingOutcome(table, s, m, seen) ==
    IF seen[3].forcedRoutingActivationCode # "None"
    THEN seen[3].forcedRoutingActivationCode
    ELSE DecideRoutingActivation(table[s], m.address, m.supported,
             ActiveElsewhere(table, s, m.address),
             Cardinality(RegisteredElsewhere(table, s)) < seen[2].maxSockets)

IsRoutingActivation(s, m, seen) ==
    /\ connections[s].state # "Absent"
    /\ m.kind = "RoutingActivationRequest"
    /\ seen[1].forcedHeaderNack = "None"

(* HandleDiagnosticMessage calls the simulation.                           *)
IsRouted(s, m, seen) ==
    /\ m.kind = "DiagnosticMessage"
    /\ seen[1].forcedHeaderNack = "None"
    /\ connections[s].state = "RoutingActive"
    /\ seen[2].forcedDiagnosticNack = "None"
    /\ m.address = connections[s].sourceAddress

(* Mutated form of DiagnosticReaction: a registered socket is enough, routing
   need not be active.                                                     *)
DiagnosticReactionOnceRegistered(s, m, seen, result) ==
    IF connections[s].sourceAddress = m.address
    THEN Reply("Ack", m.address) ELSE Silence

DiagnosticReaction(s, m, seen, result) ==
    CASE connections[s].state # "RoutingActive" -> Silence
      [] connections[s].state = "RoutingActive" /\ ~IsRouted(s, m, seen) ->
            NackReaction("DiagnosticNack", m.address,
                IF seen[2].forcedDiagnosticNack = "None"
                THEN "Close" ELSE seen[2].forcedDiagnosticNack)
      [] IsRouted(s, m, seen) /\ result.verdict \in {"Silenced", "Handled"} ->
            [replies |-> <<ReplyAt("Ack", m.address, 0)>> \o
                [i \in 1..Len(result.plan) |->
                    ReplyAt("Answer", m.address, result.plan[i])],
             close |-> FALSE]
      [] OTHER -> Reply("DiagnosticNack", m.address)

(* What HandleTcp returns to the task that read the message.               *)
Reaction(s, m, seen, result) ==
    CASE seen[1].forcedHeaderNack # "None" ->
            NackReaction("HeaderNack", NoAddress, seen[1].forcedHeaderNack)
      [] OTHER ->
    CASE m.kind = "RoutingActivationRequest" ->
            IF connections[s].state = "Absent" THEN Silence
            ELSE LET outcome == RoutingOutcome(connections, s, m, seen)
                 IN  NackReaction(IF outcome = "Activated" THEN "Activated"
                                                           ELSE "Denied",
                                  m.address,
                                  IF ClosesSocket(outcome) THEN "Close" ELSE "Keep")
      [] m.kind = "DiagnosticMessage" -> DiagnosticReaction(s, m, seen, result)
      [] m.kind = "AliveCheckRequest" ->
            IF IsRegistered(connections[s])
            THEN Reply("AliveCheckResponse", connections[s].sourceAddress)
            ELSE Silence
      [] m.kind \in {"AliveCheckResponse", "SentByAnEntity"} -> Silence
      [] m.kind = "Discardable" -> Reply("HeaderNack", NoAddress)
      [] m.kind = "Unreadable" -> ReplyAndClose("HeaderNack", NoAddress)

-----------------------------------------------------------------------------
(* The operations.                                                         *)

OpenConnection(s) ==
    /\ connections[s].state = "Absent"
    /\ connections' = [connections EXCEPT ![s] = NewConnection]
    /\ UNCHANGED settings

CloseConnection(s) ==
    /\ connections' = [connections EXCEPT ![s] = Absent]
    /\ UNCHANGED settings

Expired ==
    {s \in Socket : /\ connections[s].state # "Absent"
                    /\ IsDueAfterTick(connections[s])}

Tick ==
    /\ connections' = [s \in Socket |-> AfterTick(connections[s])]
    /\ UNCHANGED settings

(* Activity is noted before anything is read; a routing activation request
   is then decided and applied.  No other message changes the table.       *)
HandleTcp(s, m, seen) ==
    LET noted == [connections EXCEPT ![s] = NoteActivity(@)]
        outcome == RoutingOutcome(connections, s, m, seen)
    IN  /\ connections' =
              IF IsRoutingActivation(s, m, seen)
              THEN [noted EXCEPT ![s] =
                       ApplyRoutingActivation(@, m.address, outcome,
                           seen[3].forcedRoutingActivationCode # "None")]
              ELSE noted
        /\ settings' = seen[3]

PutSettings(new) ==
    /\ settings' = new
    /\ UNCHANGED connections

EntityInit ==
    /\ connections = [s \in Socket |-> Absent]
    /\ settings \in Settings

(* Messages arrive on sockets that are open: a finished connection and one
   whose timer ran out may still have messages waiting.                    *)
EntityNext ==
    \/ \E s \in Socket : OpenConnection(s) \/ CloseConnection(s)
    \/ \E s \in Socket, m \in Message, new \in Settings :
          \E seen \in SettingsReads(new) : HandleTcp(s, m, seen)
    \/ Tick
    \/ \E new \in Settings : PutSettings(new)

EntitySpec == EntityInit /\ [][EntityNext]_entityVars

-----------------------------------------------------------------------------
(* Properties.                                                             *)

(* Every table entry is a connection and the settings are ones that PUT
   /doip/settings stores.                                                  *)
EntityTypeOK ==
    /\ connections \in [Socket -> Connection]
    /\ settings \in Settings

(* Two sockets are registered for one tester address only if an injected
   response code, not the decision table, registered one of them: the
   in-use check of HandleRoutingActivation looks at every other entry,
   those of finished connections included.                                 *)
UniqueSourceAddress ==
    \A s, t \in Socket :
        /\ s # t
        /\ IsRegistered(connections[s])
        /\ connections[s].sourceAddress = connections[t].sourceAddress
        => connections[s].injected \/ connections[t].injected

(* However the operator moves maxSockets while testers activate, the sockets
   the decision table registered never outnumber the largest capacity the
   entity was ever told to advertise.                                      *)
CapacityRespected ==
    Cardinality({s \in Socket : /\ IsRegistered(connections[s])
                                /\ ~connections[s].injected}) <= Capacity

(* A connection never outlives its deadline: an unactivated one the initial
   timer, any other the general one.                                       *)
IdleBelowDeadline ==
    \A s \in Socket :
        connections[s].state # "Absent" =>
            connections[s].idle < Deadline(connections[s])

(* Registration and state agree: what routes or waits for authentication is
   registered, what never asked is not, and only an injected code registers
   an address the entity does not accept.                                  *)
RegistrationMatchesState ==
    \A s \in Socket :
        LET c == connections[s]
        IN  /\ c.state \in {"RoutingActive", "PendingAuthentication"} => IsRegistered(c)
            /\ c.state \in {"Absent", "Initialized"} => ~IsRegistered(c) /\ ~c.injected
            /\ IsRegistered(c) => c.injected \/ c.sourceAddress \in AcceptableAddress

(* The entity keeps the promise of DoIpRouting: the routing the decision
   table granted is exclusive, bounded, and moves to another address only
   after it was released.                                                  *)
GrantedAddress ==
    [s \in Socket |->
        IF connections[s].state = "RoutingActive" /\ ~connections[s].injected
        THEN connections[s].sourceAddress ELSE NoAddress]

Routing == INSTANCE DoIpRouting WITH holds <- GrantedAddress
RoutingIsGrantedOnce == Routing!Spec
=============================================================================
