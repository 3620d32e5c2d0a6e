------------------------------ MODULE DoIpProofs ------------------------------
(***************************************************************************)
(* Proofs about DoIP, for any number of sockets, tester addresses, settings *)
(* and timer lengths, any chunks the peers send and any plans the          *)
(* simulation answers with.                                                *)
(*                                                                         *)
(* The first part is about the entity.  Its inductive invariant is the     *)
(* conjunction of everything the entity's runs check: uniqueness alone is  *)
(* not inductive, because it rests on what a registered connection looks   *)
(* like and on how a registration can come about.                          *)
(*                                                                         *)
(* The second part is about the server's tasks.  The server is first shown *)
(* to implement the entity, so that everything proved of the entity's      *)
(* table holds however the tasks interleave; the promises of the tasks     *)
(* follow from what a reaction looks like, from the sleeps adding up, and  *)
(* from what a socket was told.                                            *)
(***************************************************************************)
EXTENDS DoIpServer, FiniteSetTheorems, SequenceTheorems, TLAPS

Decided ==
    {s \in Socket : IsRegistered(connections[s]) /\ ~connections[s].injected}

(* The part of the invariant that speaks of one connection alone.          *)
WellFormed(c) ==
    /\ c \in Connection
    /\ c.state # "Absent" => c.idle < Deadline(c)
    /\ c.state \in {"RoutingActive", "PendingAuthentication"} => IsRegistered(c)
    /\ c.state \in {"Absent", "Initialized"} => ~IsRegistered(c) /\ ~c.injected
    /\ IsRegistered(c) => c.injected \/ c.sourceAddress \in AcceptableAddress

IInv ==
    /\ connections \in [Socket -> Connection]
    /\ settings \in Settings
    /\ \A s \in Socket : WellFormed(connections[s])
    /\ UniqueSourceAddress
    /\ CapacityRespected

(* d brings no registration of its own to the table: it registers what c
   registered, or nothing, or what an injected code told it to.            *)
AddsNoDecision(c, d) ==
    \/ d.sourceAddress = c.sourceAddress /\ d.injected = c.injected
    \/ d.sourceAddress = NoAddress
    \/ d.injected

(* The invariant gives the invariants the run checks.                      *)
LEMMA IInvImplies ==
    IInv => /\ EntityTypeOK /\ UniqueSourceAddress /\ CapacityRespected
            /\ IdleBelowDeadline /\ RegistrationMatchesState
BY DEF IInv, WellFormed, EntityTypeOK, IdleBelowDeadline, RegistrationMatchesState

-----------------------------------------------------------------------------
(* Lemmas about one connection.                                            *)

(* A connection that does not exist, or has just been opened, is well formed. *)
LEMMA AbsentWellFormed == WellFormed(Absent) /\ WellFormed(NewConnection)
<1>1. WellFormed(Absent)
  BY AddressAssumption DEF WellFormed, Absent, Connection, IsRegistered
<1>3. WellFormed(NewConnection)
  BY AddressAssumption, InactivityAssumption
     DEF WellFormed, NewConnection, Connection, ConnectionState, Deadline, IsRegistered
<1>4. QED
  BY <1>1, <1>3

(* A message on a connection keeps it well formed.                        *)
LEMMA NoteActivityKeeps ==
    ASSUME NEW c, WellFormed(c)
    PROVE  WellFormed(NoteActivity(c)) /\ AddsNoDecision(c, NoteActivity(c))
BY InactivityAssumption
   DEF WellFormed, NoteActivity, AddsNoDecision, Connection, ConnectionState,
       Deadline, IsRegistered

(* A tick that does not end a connection keeps it well formed.            *)
LEMMA AfterTickKeeps ==
    ASSUME NEW c, WellFormed(c)
    PROVE  WellFormed(AfterTick(c)) /\ AddsNoDecision(c, AfterTick(c))
<1>1. CASE c.state = "Absent"
  <2>1. AfterTick(c) = Absent
    BY <1>1 DEF AfterTick
  <2>2. QED
    BY <2>1, AbsentWellFormed DEF AddsNoDecision, Absent
<1>2. CASE c.state # "Absent" /\ IsDueAfterTick(c)
  <2>1. AfterTick(c) = Absent
    BY <1>2 DEF AfterTick
  <2>2. QED
    BY <2>1, AbsentWellFormed DEF AddsNoDecision, Absent
<1>3. CASE c.state # "Absent" /\ ~IsDueAfterTick(c)
  <2>1. AfterTick(c) = [c EXCEPT !.idle = @ + 1]
    BY <1>3 DEF AfterTick
  <2>2. QED
    BY <1>3, <2>1, InactivityAssumption
       DEF WellFormed, IsDueAfterTick, AddsNoDecision, Connection, Deadline,
           IsRegistered
<1>4. QED
  BY <1>1, <1>2, <1>3

(* What the decision table grants: nothing but an accepted address, to a
   socket that has it already or to an unregistered one while the address is
   free elsewhere and a socket is left.                                    *)
LEMMA DecisionGrants ==
    ASSUME NEW c, NEW a, NEW supported \in BOOLEAN, NEW elsewhere \in BOOLEAN,
           NEW free \in BOOLEAN
    PROVE  LET outcome == DecideRoutingActivation(c, a, supported, elsewhere, free)
           IN  /\ outcome \in RoutingActivationOutcome \ {"DeniedMissingAuthentication"}
               /\ outcome = "Activated" =>
                     /\ a \in AcceptableAddress
                     /\ IsRegistered(c) => c.sourceAddress = a
                     /\ ~IsRegistered(c) => ~elsewhere /\ free
<1>1. CASE ~supported
  BY <1>1 DEF DecideRoutingActivation, RoutingActivationOutcome
<1>2. CASE supported /\ a \notin AcceptableAddress
  BY <1>2 DEF DecideRoutingActivation, RoutingActivationOutcome
<1>3. CASE supported /\ a \in AcceptableAddress /\ IsRegistered(c)
  BY <1>3 DEF DecideRoutingActivation, RoutingActivationOutcome
<1>4. CASE supported /\ a \in AcceptableAddress /\ ~IsRegistered(c)
  BY <1>4 DEF DecideRoutingActivation, RoutingActivationOutcome
<1>5. QED
  BY <1>1, <1>2, <1>3, <1>4

(* Every outcome of a routing activation leaves a well-formed connection. *)
LEMMA ApplyWellFormed ==
    ASSUME NEW c, WellFormed(c), NEW a \in Address, NEW forced \in BOOLEAN,
           NEW outcome \in RoutingActivationOutcome,
           ~ClosesSocket(outcome) => forced \/ a \in AcceptableAddress,
           c.state = "Absent" => FALSE
    PROVE  WellFormed(ApplyRoutingActivation(c, a, outcome, forced))
<1>1. CASE ClosesSocket(outcome)
  <2> DEFINE d == [c EXCEPT !.state = "Finalize", !.idle = 0]
  <2>1. ApplyRoutingActivation(c, a, outcome, forced) = d
    BY <1>1 DEF ApplyRoutingActivation
  <2>2. c \in Connection
    BY DEF WellFormed
  <2>3. /\ d.state = "Finalize" /\ d.idle = 0
        /\ d.sourceAddress = c.sourceAddress /\ d.injected = c.injected
    BY <2>2 DEF Connection
  <2>4. d \in Connection
    BY <2>2 DEF Connection, ConnectionState
  <2>5. WellFormed(d)
    <3> HIDE DEF d
    <3> QED
      BY <2>3, <2>4, InactivityAssumption DEF WellFormed, Deadline, IsRegistered
  <2>6. QED
    BY <2>1, <2>5
<1>2. CASE ~ClosesSocket(outcome)
  BY <1>2, InactivityAssumption, AddressAssumption
     DEF ApplyRoutingActivation, WellFormed, Connection, ConnectionState, Deadline,
         IsRegistered
<1>3. QED
  BY <1>1, <1>2

-----------------------------------------------------------------------------
(* Lemmas about the table.                                                 *)

(* A step that brings no decided registration to any entry keeps the two
   invariants that relate entries.                                         *)
LEMMA NoDecisionKeeps ==
    ASSUME UniqueSourceAddress, CapacityRespected,
           \A t \in Socket : AddsNoDecision(connections[t], connections'[t])
    PROVE  UniqueSourceAddress' /\ CapacityRespected'
<1>1. UniqueSourceAddress'
  BY DEF UniqueSourceAddress, AddsNoDecision, IsRegistered
<1>2. Decided' \subseteq Decided
  BY DEF Decided, AddsNoDecision, IsRegistered
<1>3. IsFiniteSet(Decided) /\ IsFiniteSet(Decided')
  BY SocketAssumption, FS_Subset DEF SocketAssumption, Decided
<1>4. Cardinality(Decided') <= Cardinality(Decided)
  BY <1>2, <1>3, FS_Subset
<1>5. Cardinality(Decided) \in Nat /\ Cardinality(Decided') \in Nat
  BY <1>3, FS_CardinalityType
<1>6. Cardinality(Decided) <= Capacity
  BY DEF CapacityRespected, Decided
<1>7. Cardinality(Decided') <= Capacity
  BY <1>4, <1>5, <1>6, SettingsAssumption DEF SettingsAssumption
<1>8. QED
  BY <1>1, <1>7 DEF CapacityRespected, Decided

(* A decided grant of a free address to an unregistered socket keeps them
   too, while fewer than maxSockets other sockets are registered.          *)
LEMMA GrantKeeps ==
    ASSUME IInv, NEW s \in Socket, NEW a,
           ~IsRegistered(connections[s]),
           ~ActiveElsewhere(connections, s, a),
           Cardinality(RegisteredElsewhere(connections, s)) < Capacity,
           connections'[s].sourceAddress = a,
           \A t \in Socket \ {s} : connections'[t] = connections[t]
    PROVE  UniqueSourceAddress' /\ CapacityRespected'
<1>1. UniqueSourceAddress'
  BY DEF IInv, UniqueSourceAddress, ActiveElsewhere, IsRegistered
<1> DEFINE R == RegisteredElsewhere(connections, s)
<1>2. Decided' \subseteq R \cup {s}
  BY DEF Decided, RegisteredElsewhere, IsRegistered
<1>3. IsFiniteSet(R) /\ s \notin R
  BY SocketAssumption, FS_Subset DEF SocketAssumption, RegisteredElsewhere
<1> HIDE DEF R
<1>4. IsFiniteSet(R \cup {s}) /\ Cardinality(R \cup {s}) = Cardinality(R) + 1
  BY <1>3, FS_AddElement
<1>5. IsFiniteSet(Decided') /\ Cardinality(Decided') <= Cardinality(R \cup {s})
  BY <1>2, <1>4, FS_Subset
<1>6. Cardinality(R) \in Nat /\ Cardinality(Decided') \in Nat
  BY <1>3, <1>5, FS_CardinalityType
<1>7. Cardinality(R) < Capacity
  BY DEF R
<1>8. Cardinality(Decided') <= Capacity
  BY <1>4, <1>5, <1>6, <1>7, SettingsAssumption DEF SettingsAssumption
<1>9. QED
  BY <1>1, <1>8 DEF CapacityRespected, Decided

(* A step that replaces one entry by a well-formed one with no decision of
   its own keeps the invariant.                                            *)
LEMMA ReplacingOneKeeps ==
    ASSUME IInv, NEW s \in Socket, NEW d, WellFormed(d),
           AddsNoDecision(connections[s], d),
           connections' = [connections EXCEPT ![s] = d],
           settings' \in Settings
    PROVE  IInv'
<1>1. connections \in [Socket -> Connection]
  BY DEF IInv
<1>2. /\ connections'[s] = d
      /\ \A t \in Socket \ {s} : connections'[t] = connections[t]
  BY <1>1
<1>3. \A t \in Socket : WellFormed(connections'[t])
  BY <1>2 DEF IInv
<1>4. connections' \in [Socket -> Connection]
  BY <1>1 DEF WellFormed
<1>5. \A t \in Socket : AddsNoDecision(connections[t], connections'[t])
  BY <1>2 DEF AddsNoDecision
<1>6. UniqueSourceAddress' /\ CapacityRespected'
  BY <1>5, NoDecisionKeeps DEF IInv
<1>7. QED
  BY <1>3, <1>4, <1>6 DEF IInv, WellFormed

-----------------------------------------------------------------------------
(* The invariant is inductive: one theorem per operation.                  *)

(* The empty table satisfies the invariant.                               *)
LEMMA InitEstablishes == EntityInit => IInv
<1> SUFFICES ASSUME EntityInit PROVE IInv
  OBVIOUS
<1>1. connections = [t \in Socket |-> Absent] /\ settings \in Settings
  BY DEF EntityInit
<1>2. \A t \in Socket : WellFormed(connections[t]) /\ ~IsRegistered(connections[t])
  BY <1>1, AbsentWellFormed DEF Absent, IsRegistered
<1>3. connections \in [Socket -> Connection]
  BY <1>1, AbsentWellFormed DEF WellFormed
<1>4. UniqueSourceAddress
  BY <1>2 DEF UniqueSourceAddress
<1>5. CapacityRespected
  <2>1. {t \in Socket : IsRegistered(connections[t]) /\ ~connections[t].injected} = {}
    BY <1>2
  <2>2. QED
    BY <2>1, FS_EmptySet, SettingsAssumption DEF CapacityRespected, SettingsAssumption
<1>6. QED
  BY <1>1, <1>2, <1>3, <1>4, <1>5 DEF IInv

(* Accepting a socket keeps the invariant.                                *)
LEMMA OpenKeeps ==
    ASSUME IInv, NEW s \in Socket, OpenConnection(s) PROVE IInv'
<1>1. WellFormed(NewConnection) /\ AddsNoDecision(connections[s], NewConnection)
  BY AbsentWellFormed DEF AddsNoDecision, NewConnection
<1>2. QED
  BY <1>1, ReplacingOneKeeps DEF OpenConnection, IInv

(* Removing a connection keeps the invariant.                             *)
LEMMA CloseKeeps ==
    ASSUME IInv, NEW s \in Socket, CloseConnection(s) PROVE IInv'
<1>1. WellFormed(Absent) /\ AddsNoDecision(connections[s], Absent)
  BY AbsentWellFormed DEF AddsNoDecision, Absent
<1>2. QED
  BY <1>1, ReplacingOneKeeps DEF CloseConnection, IInv

(* The clock keeps the invariant: it removes or ages, and registers nobody. *)
LEMMA TickKeeps ==
    ASSUME IInv, Tick PROVE IInv'
<1>1. \A t \in Socket : connections'[t] = AfterTick(connections[t])
  BY DEF Tick
<1>2. \A t \in Socket : /\ WellFormed(connections'[t])
                        /\ AddsNoDecision(connections[t], connections'[t])
  BY <1>1, AfterTickKeeps DEF IInv
<1>3. connections' \in [Socket -> Connection]
  BY <1>1, <1>2 DEF Tick, WellFormed
<1>4. UniqueSourceAddress' /\ CapacityRespected'
  BY <1>2, NoDecisionKeeps DEF IInv
<1>5. QED
  BY <1>2, <1>3, <1>4 DEF IInv, Tick, WellFormed

(* New settings keep the invariant, because they bound later decisions only. *)
LEMMA PutSettingsKeeps ==
    ASSUME IInv, NEW new \in Settings, PutSettings(new) PROVE IInv'
BY DEF IInv, PutSettings, UniqueSourceAddress, CapacityRespected

(* The reads of one message see settings that were really stored.          *)
LEMMA SeenSettings ==
    ASSUME IInv, NEW new \in Settings, NEW seen \in SettingsReads(new)
    PROVE  /\ seen[1] \in Settings /\ seen[2] \in Settings /\ seen[3] \in Settings
           /\ \A i \in {1, 2, 3} :
                 /\ seen[i].maxSockets \in Nat
                 /\ seen[i].maxSockets <= Capacity
                 /\ seen[i].forcedRoutingActivationCode
                       \in RoutingActivationOutcome \cup {"None"}
<1>1. seen[1] \in Settings /\ seen[2] \in Settings /\ seen[3] \in Settings
  BY DEF SettingsReads, IInv
<1>2. QED
  BY <1>1, SettingsAssumption DEF SettingsAssumption, SettingsShape

(* The outcome of a routing activation request is forced, or it is what the
   decision table grants.                                                  *)
LEMMA RoutingOutcomeGrants ==
    ASSUME IInv, NEW new \in Settings, NEW seen \in SettingsReads(new),
           NEW s \in Socket, NEW m \in RoutingActivationRequest,
           NEW forced, forced = (seen[3].forcedRoutingActivationCode # "None")
    PROVE  LET outcome == RoutingOutcome(connections, s, m, seen)
           IN  /\ outcome \in RoutingActivationOutcome
               /\ ~ClosesSocket(outcome) /\ ~forced =>
                     /\ m.address \in AcceptableAddress
                     /\ IsRegistered(connections[s]) =>
                           connections[s].sourceAddress = m.address
                     /\ ~IsRegistered(connections[s]) =>
                           /\ ~ActiveElsewhere(connections, s, m.address)
                           /\ Cardinality(RegisteredElsewhere(connections, s)) < Capacity
<1> DEFINE elsewhere == ActiveElsewhere(connections, s, m.address)
           taken == Cardinality(RegisteredElsewhere(connections, s))
           free == taken < seen[2].maxSockets
           decided == DecideRoutingActivation(connections[s], m.address, m.supported,
                                              elsewhere, free)
           outcome == RoutingOutcome(connections, s, m, seen)
<1>1. taken \in Nat
  <2>1. IsFiniteSet(RegisteredElsewhere(connections, s))
    BY SocketAssumption, FS_Subset DEF SocketAssumption, RegisteredElsewhere
  <2>2. QED
    BY <2>1, FS_CardinalityType
<1>2. /\ m.supported \in BOOLEAN /\ elsewhere \in BOOLEAN /\ free \in BOOLEAN
  BY DEF RoutingActivationRequest, ActiveElsewhere
<1>3. /\ decided \in RoutingActivationOutcome \ {"DeniedMissingAuthentication"}
      /\ decided = "Activated" =>
            /\ m.address \in AcceptableAddress
            /\ IsRegistered(connections[s]) => connections[s].sourceAddress = m.address
            /\ ~IsRegistered(connections[s]) => ~elsewhere /\ free
  BY <1>2, DecisionGrants
<1>4. free => taken < Capacity
  <2>1. /\ seen[2].maxSockets \in Nat /\ seen[2].maxSockets <= Capacity
    BY SeenSettings
  <2>2. QED
    BY <1>1, <2>1, SettingsAssumption DEF SettingsAssumption
<1>5. CASE forced
  <2>1. /\ outcome = seen[3].forcedRoutingActivationCode
        /\ outcome \in RoutingActivationOutcome
    BY <1>5, SeenSettings DEF RoutingOutcome
  <2>2. QED
    BY <1>5, <2>1
<1>6. CASE ~forced
  <2>1. outcome = decided
    BY <1>6 DEF RoutingOutcome
  <2> HIDE DEF decided, outcome, free
  <2>2. ~ClosesSocket(outcome) => decided = "Activated"
    BY <1>3, <2>1 DEF ClosesSocket
  <2>3. QED
    BY <1>3, <1>4, <2>1, <2>2 DEF outcome
<1>7. QED
  BY <1>5, <1>6

(* A registration the decision table is about to make, of address a on s.  *)
FreshGrant(s, a) ==
    /\ ~IsRegistered(connections[s])
    /\ ~ActiveElsewhere(connections, s, a)
    /\ Cardinality(RegisteredElsewhere(connections, s)) < Capacity

(* What a message does to the entry of its socket, and to no other.        *)
HandleEffect(s, d) ==
    /\ WellFormed(d)
    /\ connections' = [connections EXCEPT ![s] = d]
    /\ AddsNoDecision(connections[s], d) \/ FreshGrant(s, d.sourceAddress)

(* What one message does to the table: it changes its own socket at most. *)
LEMMA HandleTcpEffect ==
    ASSUME IInv, NEW s \in Socket, NEW m \in Message, NEW new \in Settings,
           NEW seen \in SettingsReads(new), HandleTcp(s, m, seen)
    PROVE  settings' \in Settings /\ \E d : HandleEffect(s, d)
<1> DEFINE c == connections[s]
           n == NoteActivity(c)
           noted == [connections EXCEPT ![s] = n]
           outcome == RoutingOutcome(connections, s, m, seen)
           forced == seen[3].forcedRoutingActivationCode # "None"
           applied == ApplyRoutingActivation(n, m.address, outcome, forced)
<1>1. settings' \in Settings
  BY SeenSettings DEF HandleTcp
<1>2. WellFormed(c) /\ connections \in [Socket -> Connection]
  BY DEF IInv
<1>3. WellFormed(n) /\ AddsNoDecision(c, n)
  BY <1>2, NoteActivityKeeps
<1>4. CASE ~IsRoutingActivation(s, m, seen)
  <2>1. connections' = noted
    BY <1>4 DEF HandleTcp
  <2>2. HandleEffect(s, n)
    BY <1>3, <2>1 DEF HandleEffect
  <2>3. QED
    BY <1>1, <2>2
<1>5. CASE IsRoutingActivation(s, m, seen)
  <2>1. m \in RoutingActivationRequest /\ m.address \in Address
    BY <1>5 DEF IsRoutingActivation, Message, RoutingActivationRequest,
                DiagnosticMessage, OtherMessage
  <2>2. n.sourceAddress = c.sourceAddress /\ n.injected = c.injected
        /\ n.state = c.state /\ c.state # "Absent"
    BY <1>2, <1>5 DEF NoteActivity, WellFormed, Connection, IsRoutingActivation
  <2>3. connections' = [noted EXCEPT ![s] =
                          ApplyRoutingActivation(@, m.address, outcome, forced)]
    BY <1>5 DEF HandleTcp
  <2>4. noted[s] = n
    BY <1>2
  <2>5. connections' = [noted EXCEPT ![s] = applied]
    BY <2>3, <2>4
  <2>6. connections' = [connections EXCEPT ![s] = applied]
    <3> HIDE DEF applied, n
    <3> QED
      BY <1>2, <2>5
  <2>7. /\ outcome \in RoutingActivationOutcome
        /\ ~ClosesSocket(outcome) /\ ~forced =>
              /\ m.address \in AcceptableAddress
              /\ IsRegistered(c) => c.sourceAddress = m.address
              /\ ~IsRegistered(c) => FreshGrant(s, m.address)
    BY <2>1, RoutingOutcomeGrants DEF FreshGrant
  <2> HIDE DEF outcome, forced, n, c
  <2>8. WellFormed(applied)
    <3>1. forced \in BOOLEAN
      BY DEF forced
    <3>2. QED
      BY <1>3, <2>1, <2>2, <2>7, <3>1, ApplyWellFormed
  <2>9. AddsNoDecision(c, applied) \/ FreshGrant(s, applied.sourceAddress)
    <3>1. CASE ClosesSocket(outcome)
      <4>1. applied.sourceAddress = n.sourceAddress /\ applied.injected = n.injected
        BY <1>3, <3>1 DEF ApplyRoutingActivation, WellFormed, Connection
      <4>2. QED
        BY <2>2, <4>1 DEF AddsNoDecision
    <3>2. CASE ~ClosesSocket(outcome) /\ forced
      BY <3>2 DEF ApplyRoutingActivation, AddsNoDecision
    <3>3. CASE ~ClosesSocket(outcome) /\ ~forced
      <4>1. applied.sourceAddress = m.address /\ applied.injected = (forced \/ n.injected)
        BY <3>3 DEF ApplyRoutingActivation
      <4>2. c.injected \in BOOLEAN
        BY <1>2 DEF WellFormed, Connection
      <4>3. applied.injected = c.injected
        BY <2>2, <3>3, <4>1, <4>2
      <4>4. QED
        BY <2>7, <3>3, <4>1, <4>3 DEF AddsNoDecision
    <3>4. QED
      BY <3>1, <3>2, <3>3
  <2>10. HandleEffect(s, applied)
    BY <2>6, <2>8, <2>9 DEF HandleEffect, c
  <2>11. QED
    BY <1>1, <2>10
<1>6. QED
  BY <1>4, <1>5

(* A message keeps the invariant, whichever settings each of its reads sees. *)
LEMMA HandleTcpKeeps ==
    ASSUME IInv, NEW s \in Socket, NEW d, HandleEffect(s, d), settings' \in Settings
    PROVE  IInv'
<1>1. CASE AddsNoDecision(connections[s], d)
  BY <1>1, ReplacingOneKeeps DEF HandleEffect
<1>2. CASE FreshGrant(s, d.sourceAddress)
  <2>1. connections \in [Socket -> Connection]
    BY DEF IInv
  <2>2. /\ connections'[s] = d
        /\ \A t \in Socket \ {s} : connections'[t] = connections[t]
    BY <2>1 DEF HandleEffect
  <2>3. UniqueSourceAddress' /\ CapacityRespected'
    BY <1>2, <2>2, GrantKeeps DEF FreshGrant
  <2>4. \A t \in Socket : WellFormed(connections'[t])
    BY <2>2 DEF IInv, HandleEffect
  <2>5. connections' \in [Socket -> Connection]
    BY <2>1 DEF HandleEffect, WellFormed
  <2>6. QED
    BY <2>3, <2>4, <2>5 DEF IInv, WellFormed
<1>3. QED
  BY <1>1, <1>2 DEF HandleEffect

(* No step of the entity leaves the invariant.                            *)
LEMMA NextKeeps == IInv /\ [EntityNext]_entityVars => IInv'
<1> SUFFICES ASSUME IInv, [EntityNext]_entityVars PROVE IInv'
  OBVIOUS
<1>1. ASSUME NEW s \in Socket, OpenConnection(s) PROVE IInv'
  BY <1>1, OpenKeeps
<1>2. ASSUME NEW s \in Socket, CloseConnection(s) PROVE IInv'
  BY <1>2, CloseKeeps
<1>3. ASSUME NEW s \in Socket, NEW m \in Message, NEW new \in Settings,
             NEW seen \in SettingsReads(new), HandleTcp(s, m, seen)
      PROVE IInv'
  BY <1>3, HandleTcpEffect, HandleTcpKeeps
<1>4. CASE Tick
  BY <1>4, TickKeeps
<1>5. ASSUME NEW new \in Settings, PutSettings(new) PROVE IInv'
  BY <1>5, PutSettingsKeeps
<1>6. CASE UNCHANGED entityVars
  BY <1>6 DEF IInv, entityVars, UniqueSourceAddress, CapacityRespected
<1>7. QED
  BY <1>1, <1>2, <1>3, <1>4, <1>5, <1>6 DEF EntityNext

(* The inductive invariant holds throughout every behaviour of the entity. *)
THEOREM EntityInvariant == EntitySpec => []IInv
BY InitEstablishes, NextKeeps, PTL DEF EntitySpec

(* The connection table never holds anything that is not a connection.     *)
THEOREM EntityTypeCorrect == EntitySpec => []EntityTypeOK
BY EntityInvariant, IInvImplies, PTL

(* Two sockets share a tester address only through an injected code.       *)
THEOREM SourceAddressesAreUnique == EntitySpec => []UniqueSourceAddress
BY EntityInvariant, IInvImplies, PTL

(* Decided registrations never outnumber the advertised capacity.          *)
THEOREM CapacityIsRespected == EntitySpec => []CapacityRespected
BY EntityInvariant, IInvImplies, PTL

(* No connection outlives the deadline of the timer that governs it.       *)
THEOREM DeadlinesAreKept == EntitySpec => []IdleBelowDeadline
BY EntityInvariant, IInvImplies, PTL

(* A connection's state and its registered address always agree.           *)
THEOREM RegistrationIsConsistent == EntitySpec => []RegistrationMatchesState
BY EntityInvariant, IInvImplies, PTL

-----------------------------------------------------------------------------
(* The entity implements DoIpRouting.                                      *)

(* What DoIpRouting sees of one connection.                                *)
GrantOf(c) ==
    IF c.state = "RoutingActive" /\ ~c.injected THEN c.sourceAddress ELSE NoAddress

(* The instance counts sets the way this module does.                      *)
LEMMA CardinalityIsTheSame ==
    \A S : Routing!Cardinality(S) = Cardinality(S)
BY DEF Routing!Cardinality, Cardinality, Routing!IsFiniteSet, IsFiniteSet

(* The refinement: the empty table grants routing to nobody.              *)
LEMMA InitMaps == EntityInit => Routing!Init
BY DEF EntityInit, Routing!Init, GrantedAddress, Absent

(* The entry of one socket changes: nothing happens to its routing, it is
   released, or it is granted while it may be.                             *)
LEMMA HandleTcpMaps ==
    ASSUME IInv, NEW s \in Socket, NEW d, HandleEffect(s, d)
    PROVE  Routing!Next \/ UNCHANGED GrantedAddress
<1> DEFINE c == connections[s]
           a == d.sourceAddress
<1>1. /\ connections'[s] = d
      /\ \A t \in Socket \ {s} : connections'[t] = connections[t]
  BY DEF IInv, HandleEffect
<1>2. /\ GrantedAddress  = [t \in Socket |-> GrantOf(connections[t])]
      /\ GrantedAddress' = [t \in Socket |-> GrantOf(connections'[t])]
  BY DEF GrantedAddress, GrantOf
<1>3. \A t \in Socket \ {s} : GrantedAddress'[t] = GrantedAddress[t]
  BY <1>1, <1>2
<1>4. GrantedAddress[s] = GrantOf(c) /\ GrantedAddress'[s] = GrantOf(d)
  BY <1>1, <1>2
<1>5. CASE GrantOf(d) = GrantOf(c)
  BY <1>2, <1>3, <1>4, <1>5
<1>6. CASE GrantOf(d) = NoAddress
  <2>1. Routing!Release({s})
    <3>1. \A t \in Socket : GrantedAddress'[t] =
                 IF t \in {s} THEN NoAddress ELSE GrantedAddress[t]
      BY <1>3, <1>4, <1>6
    <3>2. QED
      BY <1>2, <3>1 DEF Routing!Release
  <2>2. QED
    BY <2>1 DEF Routing!Next
<1>7. CASE GrantOf(d) # GrantOf(c) /\ GrantOf(d) # NoAddress
  <2>1. /\ d.state = "RoutingActive" /\ ~d.injected
        /\ GrantOf(d) = a /\ a # NoAddress
    BY <1>7 DEF GrantOf
  <2>2. a \in AcceptableAddress
    BY <2>1 DEF HandleEffect, WellFormed, IsRegistered
  <2>3. /\ GrantedAddress[s] = NoAddress
        /\ \A t \in Socket : GrantedAddress[t] # a
        /\ Cardinality(Routing!Held) < Capacity
    <3>1. CASE AddsNoDecision(c, d)
      <4>1. c.sourceAddress = a /\ ~c.injected /\ c.state # "RoutingActive"
        BY <1>7, <2>1, <3>1 DEF AddsNoDecision, GrantOf
      <4>2. GrantedAddress[s] = NoAddress
        BY <1>4, <4>1 DEF GrantOf
      <4>3. \A t \in Socket \ {s} : GrantedAddress[t] # a
        BY <1>2, <2>1, <4>1 DEF GrantOf, IInv, UniqueSourceAddress, IsRegistered
      <4>4. Routing!Held \subseteq Decided \ {s}
        BY <1>2, <4>2 DEF Routing!Held, Decided, GrantOf, IsRegistered
      <4>5. s \in Decided
        BY <2>1, <4>1 DEF Decided, IsRegistered
      <4>6. IsFiniteSet(Decided)
        BY SocketAssumption, FS_Subset DEF SocketAssumption, Decided
      <4>7. /\ IsFiniteSet(Decided \ {s})
            /\ Cardinality(Decided \ {s}) = Cardinality(Decided) - 1
        BY <4>5, <4>6, FS_RemoveElement
      <4>8. Cardinality(Routing!Held) <= Cardinality(Decided \ {s})
            /\ IsFiniteSet(Routing!Held)
        BY <4>4, <4>7, FS_Subset
      <4>9. Cardinality(Routing!Held) \in Nat /\ Cardinality(Decided) \in Nat
        BY <4>6, <4>8, FS_CardinalityType
      <4>10. Cardinality(Decided) <= Capacity
        BY DEF IInv, CapacityRespected, Decided
      <4>11. Cardinality(Routing!Held) < Capacity
        BY <4>7, <4>8, <4>9, <4>10, SettingsAssumption DEF SettingsAssumption
      <4>12. QED
        BY <2>1, <4>2, <4>3, <4>11
    <3>2. CASE FreshGrant(s, a)
      <4>1. GrantedAddress[s] = NoAddress
        BY <1>4, <3>2 DEF FreshGrant, GrantOf, IsRegistered
      <4>2. \A t \in Socket \ {s} : GrantedAddress[t] # a
        BY <1>2, <2>1, <3>2 DEF FreshGrant, ActiveElsewhere, GrantOf
      <4> DEFINE R == RegisteredElsewhere(connections, s)
      <4>3. Routing!Held \subseteq R
        BY <1>2, <4>1 DEF Routing!Held, RegisteredElsewhere, GrantOf, IsRegistered
      <4>4. IsFiniteSet(R)
        BY SocketAssumption, FS_Subset DEF SocketAssumption, RegisteredElsewhere
      <4> HIDE DEF R
      <4>5. Cardinality(Routing!Held) <= Cardinality(R) /\ IsFiniteSet(Routing!Held)
        BY <4>3, <4>4, FS_Subset
      <4>6. Cardinality(Routing!Held) \in Nat /\ Cardinality(R) \in Nat
        BY <4>4, <4>5, FS_CardinalityType
      <4>7. Cardinality(R) < Capacity
        BY <3>2 DEF FreshGrant, R
      <4>8. Cardinality(Routing!Held) < Capacity
        BY <4>5, <4>6, <4>7, SettingsAssumption DEF SettingsAssumption
      <4>9. QED
        BY <2>1, <4>1, <4>2, <4>8
    <3>3. QED
      BY <3>1, <3>2 DEF HandleEffect
  <2>4. GrantedAddress' = [GrantedAddress EXCEPT ![s] = a]
    BY <1>2, <1>3, <1>4, <2>1
  <2>5. Routing!Grant(s, a)
    BY <2>3, <2>4, CardinalityIsTheSame DEF Routing!Grant
  <2>6. QED
    BY <2>2, <2>5 DEF Routing!Next
<1>8. QED
  BY <1>5, <1>6, <1>7

(* Opening, closing and ticking release routing and grant none.            *)
LEMMA ReleasingMaps ==
    ASSUME \A t \in Socket :
              \/ GrantOf(connections'[t]) = GrantOf(connections[t])
              \/ GrantOf(connections'[t]) = NoAddress
    PROVE  Routing!Next
<1> DEFINE S == {t \in Socket : GrantOf(connections'[t]) # GrantOf(connections[t])}
<1>1. /\ GrantedAddress  = [t \in Socket |-> GrantOf(connections[t])]
      /\ GrantedAddress' = [t \in Socket |-> GrantOf(connections'[t])]
  BY DEF GrantedAddress, GrantOf
<1>2. Routing!Release(S)
  <2>1. \A t \in Socket : GrantedAddress'[t] =
               IF t \in S THEN NoAddress ELSE GrantedAddress[t]
    BY <1>1
  <2>2. QED
    BY <1>1, <2>1 DEF Routing!Release
<1>3. S \in SUBSET Socket
  OBVIOUS
<1>4. QED
  BY <1>2, <1>3 DEF Routing!Next

(* The refinement: every step grants, moves or releases routing, or stutters. *)
LEMMA NextMaps ==
    IInv /\ [EntityNext]_entityVars => [Routing!Next]_GrantedAddress
<1> SUFFICES ASSUME IInv, [EntityNext]_entityVars
             PROVE  Routing!Next \/ UNCHANGED GrantedAddress
  OBVIOUS
<1>1. connections \in [Socket -> Connection]
  BY DEF IInv
<1>2. ASSUME NEW s \in Socket, OpenConnection(s) PROVE Routing!Next
  <2>1. \A t \in Socket : connections'[t] = connections[t]
                         \/ connections'[t] = NewConnection
    BY <1>1, <1>2 DEF OpenConnection
  <2>2. GrantOf(NewConnection) = NoAddress
    BY DEF GrantOf, NewConnection
  <2>3. QED
    BY <2>1, <2>2, ReleasingMaps
<1>3. ASSUME NEW s \in Socket, CloseConnection(s) PROVE Routing!Next
  <2>1. \A t \in Socket : connections'[t] = connections[t] \/ connections'[t] = Absent
    BY <1>1, <1>3 DEF CloseConnection
  <2>2. GrantOf(Absent) = NoAddress
    BY DEF GrantOf, Absent
  <2>3. QED
    BY <2>1, <2>2, ReleasingMaps
<1>4. ASSUME NEW s \in Socket, NEW m \in Message, NEW new \in Settings,
             NEW seen \in SettingsReads(new), HandleTcp(s, m, seen)
      PROVE Routing!Next \/ UNCHANGED GrantedAddress
  BY <1>4, HandleTcpEffect, HandleTcpMaps
<1>5. CASE Tick
  <2>1. ASSUME NEW t \in Socket
        PROVE  \/ GrantOf(connections'[t]) = GrantOf(connections[t])
               \/ GrantOf(connections'[t]) = NoAddress
    <3> DEFINE c == connections[t]
    <3>1. connections'[t] = AfterTick(c) /\ c \in Connection
      BY <1>1, <1>5 DEF Tick
    <3>2. AfterTick(c) = Absent \/ AfterTick(c) = [c EXCEPT !.idle = @ + 1]
      BY DEF AfterTick
    <3>3. QED
      BY <3>1, <3>2 DEF GrantOf, Absent, Connection
  <2>2. QED
    BY <2>1, ReleasingMaps
<1>6. ASSUME NEW new \in Settings, PutSettings(new) PROVE UNCHANGED GrantedAddress
  BY <1>6 DEF PutSettings, GrantedAddress
<1>7. CASE UNCHANGED entityVars
  BY <1>7 DEF entityVars, GrantedAddress
<1>8. QED
  BY <1>2, <1>3, <1>4, <1>5, <1>6, <1>7 DEF EntityNext

(* Whatever is sent, timed out or injected, the routing the decision table
   grants is exclusive, bounded and released before it moves.              *)
THEOREM EntityKeepsTheRoutingPromise == EntitySpec => RoutingIsGrantedOnce
<1>1. EntitySpec => [][Routing!Next]_GrantedAddress
  BY EntityInvariant, NextMaps, PTL DEF EntitySpec
<1>2. EntitySpec => Routing!Init
  BY InitMaps DEF EntitySpec
<1>3. QED
  BY <1>1, <1>2, PTL DEF RoutingIsGrantedOnce, Routing!Spec

-----------------------------------------------------------------------------
(***************************************************************************)
(* The server's tasks                                                      *)
(***************************************************************************)
(* What is left of a reaction: only the first reply may be anything but an
   answer of the simulation, nothing is due later than LastDue, and only a
   task that is replying has replies left.                                 *)
WellShaped(r) ==
    /\ r \in ReactionShape
    /\ \A i \in 2..Len(r.replies) : r.replies[i].kind = "Answer"
    /\ \A i \in 1..Len(r.replies) : r.replies[i].at <= LastDue

RepliesLeft(s) ==
    /\ WellShaped(reaction[s])
    /\ reaction[s].replies # <<>> => task[s] = "Replying"

(* The ticks passed and those still to sleep cover what was slept for, and
   that covers the next reply.                                             *)
SleepsAddUp(s) ==
    reaction[s].replies # <<>> =>
        /\ sentAt[s] <= LastDue
        /\ reaction[s].replies[1].at <= sentAt[s]
        /\ sentAt[s] <= age[s] + wait[s]

(* The address of a socket that routes is the one it was told, unless the
   reply that tells it is the next to be sent.                             *)
IsAnnouncing(r) == r.replies # <<>> /\ r.replies[1].kind = "Activated"

KnowsItsAddress(s) ==
    connections[s].state = "RoutingActive" =>
        connections[s].sourceAddress =
            IF IsAnnouncing(reaction[s]) THEN reaction[s].replies[1].to ELSE told[s]

HasATask(s) ==
    task[s] \in {"NotAccepted", "Done"} => connections[s].state = "Absent"

SocketInv(s) == HasATask(s) /\ RepliesLeft(s) /\ SleepsAddUp(s) /\ KnowsItsAddress(s)

TasksInv == TypeOK /\ \A s \in Socket : SocketInv(s)

-----------------------------------------------------------------------------
(* What HandleTcp returns.                                                 *)

Kinds == {"HeaderNack", "Activated", "Denied", "Ack", "Answer",
          "DiagnosticNack", "AliveCheckResponse"}

(* A reaction of a single reply.                                           *)
IsSingle(r, kind, to) ==
    /\ WellShaped(r)
    /\ r.replies = <<ReplyAt(kind, to, 0)>>
    /\ r.replies # <<>> /\ Len(r.replies) = 1
    /\ r.replies[1] = ReplyAt(kind, to, 0)

(* The constructors of a reaction make what they say.                      *)
LEMMA SingleReplies ==
    ASSUME NEW kind \in Kinds, NEW to \in Address \cup {NoAddress}, NEW effect
    PROVE  /\ IsSingle(Reply(kind, to), kind, to)
           /\ IsSingle(ReplyAndClose(kind, to), kind, to)
           /\ IsSingle(NackReaction(kind, to, effect), kind, to)
<1> DEFINE one == <<ReplyAt(kind, to, 0)>>
<1>1. ReplyAt(kind, to, 0) \in ReplyShape /\ ReplyAt(kind, to, 0).at = 0
  BY DEF ReplyAt, ReplyShape, Kinds
<1>2. one \in Seq(ReplyShape) /\ Len(one) = 1 /\ one # <<>>
      /\ one[1] = ReplyAt(kind, to, 0)
  BY <1>1
<1>3. ASSUME NEW close \in BOOLEAN
      PROVE  IsSingle([replies |-> one, close |-> close], kind, to)
  <2>1. [replies |-> one, close |-> close] \in ReactionShape
    BY <1>2 DEF ReactionShape
  <2>2. \A i \in 1..Len(one) : i = 1
    BY <1>2
  <2>3. \A i \in 1..Len(one) : one[i].at <= LastDue
    BY <1>1, <1>2, <2>2, ServerAssumption
  <2>4. \A i \in 2..Len(one) : FALSE
    BY <1>2
  <2>5. QED
    BY <1>2, <2>1, <2>3, <2>4 DEF IsSingle, WellShaped
<1>4. Reply(kind, to) = [replies |-> one, close |-> FALSE]
  BY DEF Reply
<1>5. ReplyAndClose(kind, to) = [replies |-> one, close |-> TRUE]
  BY DEF ReplyAndClose
<1>6. QED
  BY <1>3, <1>4, <1>5 DEF NackReaction

LEMMA SilenceIsShaped == WellShaped(Silence) /\ Silence.replies = <<>>
<1>1. <<>> \in Seq(ReplyShape) /\ Len(<<>>) = 0
  OBVIOUS
<1>2. QED
  BY <1>1 DEF WellShaped, Silence, ReactionShape

(* The reaction to a routed request acknowledges it and then answers.      *)
LEMMA RoutedReplies ==
    ASSUME NEW to \in Address, NEW plan \in Seq(0..LastDue)
    PROVE  LET r == [replies |-> <<ReplyAt("Ack", to, 0)>> \o
                         [i \in 1..Len(plan) |-> ReplyAt("Answer", to, plan[i])],
                     close |-> FALSE]
           IN  /\ WellShaped(r) /\ r.replies # <<>>
               /\ r.replies[1] = ReplyAt("Ack", to, 0)
<1> DEFINE answers == [i \in 1..Len(plan) |-> ReplyAt("Answer", to, plan[i])]
           one == <<ReplyAt("Ack", to, 0)>>
           all == one \o answers
<1>1. Len(plan) \in Nat /\ \A i \in 1..Len(plan) : plan[i] \in 0..LastDue
  BY LenProperties, ElementOfSeq
<1>2. \A at \in 0..LastDue, kind \in Kinds : ReplyAt(kind, to, at) \in ReplyShape
  BY ServerAssumption DEF ReplyAt, ReplyShape, Kinds
<1>3. answers \in Seq(ReplyShape) /\ Len(answers) = Len(plan)
  BY <1>1, <1>2 DEF Kinds
<1>4. one \in Seq(ReplyShape) /\ Len(one) = 1 /\ one[1] = ReplyAt("Ack", to, 0)
  BY <1>2, ServerAssumption DEF Kinds
<1>5. all \in Seq(ReplyShape) /\ Len(all) = 1 + Len(plan) /\ all[1] = ReplyAt("Ack", to, 0)
  BY <1>1, <1>3, <1>4
<1>6. \A i \in 2..Len(all) : all[i] = ReplyAt("Answer", to, plan[i - 1])
                             /\ plan[i - 1] \in 0..LastDue
  <2> SUFFICES ASSUME NEW i \in 2..Len(all)
               PROVE  all[i] = ReplyAt("Answer", to, plan[i - 1]) /\ plan[i - 1] \in 0..LastDue
    OBVIOUS
  <2>1. i - 1 \in 1..Len(plan)
    BY <1>1, <1>5
  <2>2. all[i] = answers[i - 1]
    BY <1>3, <1>4, <1>5, <1>1
  <2>3. QED
    BY <1>1, <2>1, <2>2
<1>7. \A i \in 1..Len(all) : all[i].at <= LastDue
  <2>1. ReplyAt("Ack", to, 0).at = 0
    BY DEF ReplyAt
  <2>2. \A i \in 2..Len(all) : all[i].at = plan[i - 1]
    BY <1>6 DEF ReplyAt
  <2>3. \A i \in 1..Len(all) : i = 1 \/ i \in 2..Len(all)
    BY <1>1, <1>5
  <2>4. QED
    BY <1>5, <1>6, <2>1, <2>2, <2>3, ServerAssumption
<1>8. \A i \in 2..Len(all) : all[i].kind = "Answer"
  BY <1>6 DEF ReplyAt
<1>9. all # <<>>
  BY <1>1, <1>5
<1> HIDE DEF all
<1> DEFINE r == [replies |-> all, close |-> FALSE]
<1>10. WellShaped(r) /\ r.replies # <<>> /\ r.replies[1] = ReplyAt("Ack", to, 0)
  BY <1>5, <1>7, <1>8, <1>9 DEF WellShaped, ReactionShape
<1>11. QED
  BY <1>10 DEF all

(* A reaction acknowledges only what its socket may send, and announces an
   activation exactly when it made one.                                    *)
ReactionPromise(r, s, m, seen) ==
    /\ WellShaped(r)
    /\ r.replies # <<>> /\ r.replies[1].kind = "Ack" =>
          /\ connections[s].state = "RoutingActive"
          /\ r.replies[1].to = connections[s].sourceAddress
    /\ IsAnnouncing(r) <=>
          /\ IsRoutingActivation(s, m, seen)
          /\ RoutingOutcome(connections, s, m, seen) = "Activated"
    /\ IsAnnouncing(r) => r.replies[1].to = m.address

LEMMA ReactionKeepsItsPromise ==
    ASSUME EntityTypeOK, NEW s \in Socket, NEW m \in Message, NEW seen,
           NEW result \in SimulationResult \cup {[verdict |-> "NoTarget", plan |-> <<>>]}
    PROVE  ReactionPromise(Reaction(s, m, seen, result), s, m, seen)
<1> DEFINE r == Reaction(s, m, seen, result)
<1> SUFFICES ReactionPromise(r, s, m, seen)
  OBVIOUS
<1>1. ASSUME NEW kind \in Kinds \ {"Ack", "Activated"}, NEW to \in Address \cup {NoAddress},
             IsSingle(r, kind, to),
             ~(/\ IsRoutingActivation(s, m, seen)
               /\ RoutingOutcome(connections, s, m, seen) = "Activated")
      PROVE  ReactionPromise(r, s, m, seen)
  <2>1. WellShaped(r) /\ r.replies # <<>> /\ r.replies[1].kind = kind
    BY <1>1 DEF IsSingle, ReplyAt
  <2> HIDE DEF r
  <2>2. QED
    BY <1>1, <2>1 DEF ReactionPromise, IsAnnouncing, Kinds
<1>2. ASSUME r = Silence, ~IsRoutingActivation(s, m, seen)
      PROVE  ReactionPromise(r, s, m, seen)
  <2>1. WellShaped(r) /\ r.replies = <<>>
    BY <1>2, SilenceIsShaped
  <2> HIDE DEF r
  <2>2. QED
    BY <1>2, <2>1 DEF ReactionPromise, IsAnnouncing
<1>3. CASE seen[1].forcedHeaderNack # "None"
  <2>1. r = NackReaction("HeaderNack", NoAddress, seen[1].forcedHeaderNack)
    BY <1>3 DEF Reaction
  <2>2. IsSingle(r, "HeaderNack", NoAddress)
    BY <2>1, SingleReplies DEF Kinds
  <2>3. ~IsRoutingActivation(s, m, seen)
    BY <1>3 DEF IsRoutingActivation
  <2> HIDE DEF r
  <2>4. QED
    BY <1>1, <2>2, <2>3 DEF Kinds
<1>4. CASE seen[1].forcedHeaderNack = "None" /\ m.kind = "RoutingActivationRequest"
  <2> DEFINE outcome == RoutingOutcome(connections, s, m, seen)
             effect == IF ClosesSocket(outcome) THEN "Close" ELSE "Keep"
  <2>1. m.address \in Address
    BY <1>4 DEF Message, RoutingActivationRequest, DiagnosticMessage, OtherMessage
  <2>2. CASE connections[s].state = "Absent"
    <3>1. r = Silence /\ ~IsRoutingActivation(s, m, seen)
      BY <1>4, <2>2 DEF Reaction, IsRoutingActivation
    <3>2. QED
      BY <1>2, <3>1
  <2>3. CASE connections[s].state # "Absent" /\ outcome # "Activated"
    <3>1. r = NackReaction("Denied", m.address, effect)
      BY <1>4, <2>3 DEF Reaction
    <3>2. IsSingle(r, "Denied", m.address)
      BY <2>1, <3>1, SingleReplies DEF Kinds
    <3> HIDE DEF r, outcome
    <3>3. QED
      BY <1>1, <2>1, <2>3, <3>2 DEF Kinds, outcome
  <2>4. CASE connections[s].state # "Absent" /\ outcome = "Activated"
    <3>1. r = NackReaction("Activated", m.address, effect)
      BY <1>4, <2>4 DEF Reaction
    <3>2. IsSingle(r, "Activated", m.address)
      BY <2>1, <3>1, SingleReplies DEF Kinds
    <3>3. /\ WellShaped(r) /\ r.replies # <<>>
          /\ r.replies[1].kind = "Activated" /\ r.replies[1].to = m.address
      BY <3>2 DEF IsSingle, ReplyAt
    <3>4. IsRoutingActivation(s, m, seen)
      BY <1>4, <2>4 DEF IsRoutingActivation
    <3> HIDE DEF r
    <3>5. QED
      BY <2>4, <3>3, <3>4 DEF ReactionPromise, IsAnnouncing
  <2>5. QED
    BY <2>2, <2>3, <2>4
<1>5. CASE seen[1].forcedHeaderNack = "None" /\ m.kind = "DiagnosticMessage"
  <2>1. m.address \in Address
    BY <1>5 DEF Message, RoutingActivationRequest, DiagnosticMessage, OtherMessage
  <2>2. ~IsRoutingActivation(s, m, seen)
    BY <1>5 DEF IsRoutingActivation
  <2>3. r = DiagnosticReaction(s, m, seen, result)
    BY <1>5 DEF Reaction
  <2>4. CASE connections[s].state # "RoutingActive"
    <3>1. r = Silence
      BY <2>3, <2>4 DEF DiagnosticReaction, IsRouted
    <3>2. QED
      BY <1>2, <2>2, <3>1
  <2>5. CASE connections[s].state = "RoutingActive" /\ ~IsRouted(s, m, seen)
    <3> DEFINE effect == IF seen[2].forcedDiagnosticNack = "None"
                         THEN "Close" ELSE seen[2].forcedDiagnosticNack
    <3>1. r = NackReaction("DiagnosticNack", m.address, effect)
      BY <2>3, <2>5, Zenon DEF DiagnosticReaction
    <3>2. IsSingle(r, "DiagnosticNack", m.address)
      BY <2>1, <3>1, SingleReplies DEF Kinds
    <3> HIDE DEF r
    <3>3. QED
      BY <1>1, <2>1, <2>2, <3>2 DEF Kinds
  <2>6. CASE IsRouted(s, m, seen) /\ result.verdict \in {"Silenced", "Handled"}
    <3> DEFINE answer == [replies |-> <<ReplyAt("Ack", m.address, 0)>> \o
                              [i \in 1..Len(result.plan) |->
                                  ReplyAt("Answer", m.address, result.plan[i])],
                          close |-> FALSE]
    <3>1. r = answer
      BY <2>3, <2>6 DEF DiagnosticReaction, IsRouted
    <3>2. result.plan \in Seq(0..LastDue)
      <4>1. result.plan \in Plans \/ result.plan = <<>>
        BY <2>6 DEF SimulationResult
      <4>2. QED
        BY <4>1, ServerAssumption, EmptySeq
    <3>3. /\ WellShaped(answer) /\ answer.replies # <<>>
          /\ answer.replies[1] = ReplyAt("Ack", m.address, 0)
      BY <2>1, <3>2, RoutedReplies
    <3>4. /\ WellShaped(r) /\ r.replies # <<>>
          /\ r.replies[1].kind = "Ack" /\ r.replies[1].to = m.address
      BY <3>1, <3>3 DEF ReplyAt
    <3>5. connections[s].state = "RoutingActive" /\ m.address = connections[s].sourceAddress
      BY <2>6 DEF IsRouted
    <3> HIDE DEF r, answer
    <3>6. QED
      BY <2>2, <3>4, <3>5 DEF ReactionPromise, IsAnnouncing
  <2>7. CASE IsRouted(s, m, seen) /\ result.verdict \notin {"Silenced", "Handled"}
    <3>1. r = Reply("DiagnosticNack", m.address)
      BY <2>3, <2>7 DEF DiagnosticReaction, IsRouted
    <3>2. IsSingle(r, "DiagnosticNack", m.address)
      BY <2>1, <3>1, SingleReplies DEF Kinds
    <3> HIDE DEF r
    <3>3. QED
      BY <1>1, <2>1, <2>2, <3>2 DEF Kinds
  <2>8. QED
    BY <2>4, <2>5, <2>6, <2>7 DEF IsRouted
<1>6. CASE /\ seen[1].forcedHeaderNack = "None"
           /\ m.kind \in {"AliveCheckRequest", "AliveCheckResponse", "SentByAnEntity",
                         "Discardable", "Unreadable"}
  <2>1. ~IsRoutingActivation(s, m, seen)
    BY <1>6 DEF IsRoutingActivation
  <2>2. connections[s].sourceAddress \in Address \cup {NoAddress}
    BY DEF EntityTypeOK, Connection
  <2>3. \/ r = Silence
        \/ r = Reply("AliveCheckResponse", connections[s].sourceAddress)
        \/ r = Reply("HeaderNack", NoAddress)
        \/ r = ReplyAndClose("HeaderNack", NoAddress)
    BY <1>6 DEF Reaction
  <2>4. \/ r = Silence
        \/ IsSingle(r, "AliveCheckResponse", connections[s].sourceAddress)
        \/ IsSingle(r, "HeaderNack", NoAddress)
    BY <2>2, <2>3, SingleReplies DEF Kinds
  <2> HIDE DEF r
  <2>5. QED
    BY <1>1, <1>2, <2>1, <2>2, <2>4 DEF Kinds
<1>7. m.kind \in {"RoutingActivationRequest", "DiagnosticMessage", "AliveCheckRequest",
                 "AliveCheckResponse", "SentByAnEntity", "Discardable", "Unreadable"}
  BY DEF Message, RoutingActivationRequest, DiagnosticMessage, OtherMessage
<1>8. QED
  BY <1>3, <1>4, <1>5, <1>6, <1>7

-----------------------------------------------------------------------------
(* The server implements the entity.                                       *)

Results == SimulationResult \cup {[verdict |-> "NoTarget", plan |-> <<>>]}

(* Handling a message is HandleTcp on the first that is pending, and carrying
   on with the reaction it returns.                                        *)
LEMMA HandlingIsHandleTcp ==
    ASSUME TypeOK, NEW s \in Socket, HandleMessage(s)
    PROVE  /\ Head(pending[s]) \in Message
           /\ Tail(pending[s]) \in Seq(Message)
           /\ \E new \in Settings : \E seen \in SettingsReads(new), result \in Results :
                 /\ HandleTcp(s, Head(pending[s]), seen)
                 /\ CarryOn(s, Reaction(s, Head(pending[s]), seen, result), 0,
                            Tail(pending[s]))
<1>1. pending[s] \in Seq(Message) /\ pending[s] # <<>>
  BY DEF TypeOK, HandleMessage
<1>2. Head(pending[s]) \in Message /\ Tail(pending[s]) \in Seq(Message)
  BY <1>1, HeadTailProperties
<1>3. QED
  BY <1>2, Zenon DEF HandleMessage, Results

(* Every step of the server is one of the entity, or leaves it alone.      *)
LEMMA StepsAreTheEntitys == TypeOK /\ [Next]_vars => [EntityNext]_entityVars
<1> SUFFICES ASSUME TypeOK, [Next]_vars PROVE EntityNext \/ UNCHANGED entityVars
  OBVIOUS
<1>1. ASSUME NEW s \in Socket, Serve(s) PROVE EntityNext \/ UNCHANGED entityVars
  <2>1. CASE HandleMessage(s)
    <3>1. \E m \in Message, new \in Settings : \E seen \in SettingsReads(new) :
            HandleTcp(s, m, seen)
      BY <2>1, HandlingIsHandleTcp
    <3>2. QED
      BY <3>1, Zenon DEF EntityNext
  <2>2. CASE CloseAsTheReactionSays(s) \/ FinishClosing(s)
    BY <2>2 DEF CloseAsTheReactionSays, FinishClosing, EndTask, EntityNext
  <2>3. CASE \/ StartServing(s) \/ LeaveOnSignal(s) \/ SendReply(s)
             \/ RemoveCloseSignal(s)
    BY <2>3 DEF StartServing, LeaveOnSignal, SendReply, RemoveCloseSignal, entityVars
  <2>4. QED
    BY <1>1, <2>1, <2>2, <2>3 DEF Serve
<1>2. ASSUME NEW s \in Socket, Peer(s) PROVE EntityNext \/ UNCHANGED entityVars
  <2>1. CASE Accept(s)
    BY <2>1 DEF Accept, EntityNext
  <2>2. CASE WriteFails(s)
    BY <2>2 DEF WriteFails, EndTask, EntityNext
  <2>3. CASE LeaveOnEof(s) \/ ReadChunk(s)
    BY <2>3 DEF LeaveOnEof, ReadChunk, entityVars
  <2>4. QED
    BY <1>2, <2>1, <2>2, <2>3 DEF Peer
<1>3. ASSUME NEW s \in Socket, SignalExpired(s) PROVE UNCHANGED entityVars
  BY <1>3 DEF SignalExpired, entityVars
<1>4. CASE TickPasses
  BY <1>4 DEF TickPasses, EntityNext, entityVars
<1>5. CASE OperatorPutsSettings
  BY <1>5 DEF OperatorPutsSettings, EntityNext
<1>6. CASE Stop \/ UNCHANGED vars
  BY <1>6 DEF Stop, vars, entityVars
<1>7. QED
  BY <1>1, <1>2, <1>3, <1>4, <1>5, <1>6 DEF Next

-----------------------------------------------------------------------------
(* The invariant of the tasks, step by step.                               *)

LEMMA TasksStart == Init => TasksInv
<1> SUFFICES ASSUME Init PROVE TasksInv
  OBVIOUS
<1>1. EntityTypeOK
  BY InitEstablishes, IInvImplies DEF Init
<1>2. Silence \in ReactionShape /\ WellShaped(Silence) /\ Silence.replies = <<>>
  BY SilenceIsShaped DEF WellShaped
<1>3. TypeOK
  BY <1>1, <1>2, ServerAssumption, EmptySeq DEF Init, TypeOK, TaskState
<1>4. ASSUME NEW s \in Socket PROVE SocketInv(s)
  <2>1. connections[s] = Absent /\ reaction[s] = Silence
    BY DEF Init, EntityInit
  <2>2. connections[s].state = "Absent"
    BY <2>1 DEF Absent
  <2>3. QED
    BY <1>2, <2>1, <2>2
       DEF SocketInv, HasATask, RepliesLeft, SleepsAddUp, KnowsItsAddress
<1>5. QED
  BY <1>3, <1>4 DEF TasksInv

(* The socket t is as it was, for all its invariant looks at.              *)
IsUntouched(t) ==
    /\ connections'[t] = connections[t] /\ task'[t] = task[t]
    /\ reaction'[t] = reaction[t] /\ wait'[t] = wait[t]
    /\ sentAt'[t] = sentAt[t] /\ age'[t] = age[t] /\ told'[t] = told[t]

LEMMA UntouchedKeeps ==
    ASSUME NEW t \in Socket, SocketInv(t), IsUntouched(t)
    PROVE  SocketInv(t)'
BY DEF SocketInv, HasATask, RepliesLeft, SleepsAddUp, KnowsItsAddress, IsUntouched

(* A step that moves one socket on.                                        *)
LEMMA OneSocketKeeps ==
    ASSUME TasksInv, NEW s \in Socket, TypeOK', SocketInv(s)',
           \A t \in Socket \ {s} : IsUntouched(t)
    PROVE  TasksInv'
<1>1. ASSUME NEW t \in Socket PROVE SocketInv(t)'
  <2>1. CASE t = s
    BY <2>1
  <2>2. CASE t # s
    BY <2>2, UntouchedKeeps DEF TasksInv
  <2>3. QED
    BY <2>1, <2>2
<1>2. QED
  BY <1>1 DEF TasksInv

(* Carrying on sleeps exactly until the next reply is due, if it is not yet. *)
LEMMA CarryOnSleeps ==
    ASSUME TypeOK, NEW s \in Socket, NEW r, WellShaped(r), NEW since \in 0..LastDue,
           NEW left, CarryOn(s, r, since, left)
    PROVE  /\ reaction' \in [Socket -> ReactionShape] /\ task' \in [Socket -> TaskState]
           /\ wait' \in [Socket -> Nat] /\ sentAt' \in [Socket -> Nat]
           /\ \A t \in Socket \ {s} : /\ reaction'[t] = reaction[t] /\ task'[t] = task[t]
                                      /\ wait'[t] = wait[t] /\ sentAt'[t] = sentAt[t]
           /\ reaction'[s] = r
           /\ task'[s] \in {"Replying", "Reading", "Handling"}
           /\ r.replies # <<>> =>
                 /\ task'[s] = "Replying"
                 /\ sentAt'[s] <= LastDue /\ r.replies[1].at <= sentAt'[s]
                 /\ sentAt'[s] = since + wait'[s]
<1>1. r \in ReactionShape /\ r.replies \in Seq(ReplyShape)
  BY DEF WellShaped, ReactionShape
<1>2. /\ reaction \in [Socket -> ReactionShape] /\ task \in [Socket -> TaskState]
      /\ wait \in [Socket -> Nat] /\ sentAt \in [Socket -> Nat]
  BY DEF TypeOK
<1>3. reaction' = [reaction EXCEPT ![s] = r]
  BY DEF CarryOn
<1>4. CASE r.replies # <<>>
  <2> DEFINE at == Head(r.replies).at
             w == WaitFor(since, at)
  <2>1. Head(r.replies) = r.replies[1] /\ 1 \in 1..Len(r.replies)
    BY <1>1, <1>4, HeadTailProperties, LenProperties, EmptySeq
  <2>2. at \in Nat /\ at <= LastDue /\ at = r.replies[1].at
    <3>1. r.replies[1] \in ReplyShape
      BY <1>1, <2>1, ElementOfSeq
    <3>2. r.replies[1].at \in Nat
      BY <3>1 DEF ReplyShape
    <3>3. r.replies[1].at <= LastDue
      BY <2>1 DEF WellShaped
    <3>4. QED
      BY <2>1, <3>2, <3>3
  <2>3. /\ task' = [task EXCEPT ![s] = "Replying"]
        /\ wait' = [wait EXCEPT ![s] = w]
        /\ sentAt' = [sentAt EXCEPT ![s] = since + w]
    BY <1>4 DEF CarryOn
  <2>4. since \in Nat /\ LastDue \in Nat /\ since <= LastDue
    BY ServerAssumption
  <2>5. w \in Nat /\ since + w \in Nat /\ since + w <= LastDue /\ at <= since + w
    <3> HIDE DEF at
    <3>1. QED
      BY <2>2, <2>4 DEF WaitFor
  <2> HIDE DEF w, at
  <2>6. /\ wait' \in [Socket -> Nat] /\ sentAt' \in [Socket -> Nat]
        /\ wait'[s] = w /\ sentAt'[s] = since + w
        /\ \A t \in Socket \ {s} : wait'[t] = wait[t] /\ sentAt'[t] = sentAt[t]
    BY <1>2, <2>3, <2>5
  <2>7. /\ task' \in [Socket -> TaskState] /\ task'[s] = "Replying"
        /\ \A t \in Socket \ {s} : task'[t] = task[t]
    BY <1>2, <2>3 DEF TaskState
  <2>8. /\ reaction' \in [Socket -> ReactionShape] /\ reaction'[s] = r
        /\ \A t \in Socket \ {s} : reaction'[t] = reaction[t]
    BY <1>1, <1>2, <1>3
  <2>9. QED
    BY <2>2, <2>5, <2>6, <2>7, <2>8
<1>5. CASE r.replies = <<>>
  <2>1. /\ \E k \in {"Replying", "Reading", "Handling"} : task' = [task EXCEPT ![s] = k]
        /\ wait' = [wait EXCEPT ![s] = 0]
        /\ sentAt' = [sentAt EXCEPT ![s] = 0]
    BY <1>5 DEF CarryOn
  <2>2. QED
    BY <1>1, <1>2, <1>3, <1>5, <2>1 DEF TaskState
<1>6. QED
  BY <1>4, <1>5

(* A message on one connection changes its entry so that it routes as the
   reaction says, or as it did before.                                     *)
LEMMA HandleTcpRoutes ==
    ASSUME EntityTypeOK, NEW s \in Socket, NEW m, NEW seen, HandleTcp(s, m, seen)
    PROVE  /\ \A t \in Socket \ {s} : connections'[t] = connections[t]
           /\ connections'[s].state = "RoutingActive" =>
                 IF /\ IsRoutingActivation(s, m, seen)
                    /\ RoutingOutcome(connections, s, m, seen) = "Activated"
                 THEN connections'[s].sourceAddress = m.address
                 ELSE /\ connections[s].state = "RoutingActive"
                      /\ connections'[s].sourceAddress = connections[s].sourceAddress
<1> DEFINE c == connections[s]
           n == NoteActivity(c)
           noted == [connections EXCEPT ![s] = n]
           outcome == RoutingOutcome(connections, s, m, seen)
           forced == seen[3].forcedRoutingActivationCode # "None"
           applied == ApplyRoutingActivation(n, m.address, outcome, forced)
<1>1. connections \in [Socket -> Connection] /\ c \in Connection
  BY DEF EntityTypeOK
<1>2. n.state = c.state /\ n.sourceAddress = c.sourceAddress
  BY <1>1 DEF NoteActivity, Connection
<1>3. CASE ~IsRoutingActivation(s, m, seen)
  <2>1. connections' = noted
    BY <1>3 DEF HandleTcp
  <2>2. connections'[s] = n /\ \A t \in Socket \ {s} : connections'[t] = connections[t]
    <3> HIDE DEF n
    <3>1. QED
      BY <1>1, <2>1
  <2> HIDE DEF n
  <2>3. QED
    BY <1>2, <1>3, <2>2
<1>4. CASE IsRoutingActivation(s, m, seen)
  <2>1. connections' = [noted EXCEPT ![s] =
                          ApplyRoutingActivation(@, m.address, outcome, forced)]
    BY <1>4 DEF HandleTcp
  <2>2. noted[s] = n
    BY <1>1
  <2>3. connections' = [noted EXCEPT ![s] = applied]
    BY <2>1, <2>2
  <2>4. connections'[s] = applied /\ \A t \in Socket \ {s} : connections'[t] = connections[t]
    <3> HIDE DEF applied, n
    <3>1. QED
      BY <1>1, <2>3
  <2>5. /\ outcome = "Activated" => applied.sourceAddress = m.address
        /\ outcome # "Activated" => applied.state # "RoutingActive"
    <3>1. n \in [state : ConnectionState \cup {"Absent"}, sourceAddress : Address \cup {NoAddress},
                 idle : Nat, injected : BOOLEAN]
      BY <1>1 DEF NoteActivity, Connection
    <3> HIDE DEF outcome, forced, n
    <3>2. QED
      BY <3>1 DEF ApplyRoutingActivation, ClosesSocket
  <2> HIDE DEF applied, outcome
  <2>6. QED
    BY <1>4, <2>4, <2>5 DEF outcome
<1>5. QED
  BY <1>3, <1>4

(* Handling a message returns a reaction that keeps its promise, and starts
   its sleep.                                                              *)
LEMMA HandleMessageKeeps ==
    ASSUME TasksInv, EntityTypeOK', NEW s \in Socket, HandleMessage(s)
    PROVE  /\ TasksInv'
           /\ reaction'[s].replies # <<>> /\ reaction'[s].replies[1].kind = "Ack" =>
                 /\ reaction'[s].replies[1].to = connections[s].sourceAddress
                 /\ told[s] = connections[s].sourceAddress
<1> DEFINE m == Head(pending[s])
<1>1. TypeOK /\ EntityTypeOK /\ SocketInv(s)
  BY DEF TasksInv, TypeOK
<1>2. PICK new \in Settings : \E seen \in SettingsReads(new), result \in Results :
        /\ HandleTcp(s, m, seen)
        /\ CarryOn(s, Reaction(s, m, seen, result), 0, Tail(pending[s]))
  BY <1>1, HandlingIsHandleTcp
<1>3. PICK seen \in SettingsReads(new), result \in Results :
        /\ HandleTcp(s, m, seen)
        /\ CarryOn(s, Reaction(s, m, seen, result), 0, Tail(pending[s]))
  BY <1>2
<1>4. m \in Message /\ Tail(pending[s]) \in Seq(Message)
  BY <1>1, HandlingIsHandleTcp
<1> DEFINE r == Reaction(s, m, seen, result)
           activates == /\ IsRoutingActivation(s, m, seen)
                        /\ RoutingOutcome(connections, s, m, seen) = "Activated"
<1>5. ReactionPromise(r, s, m, seen)
  BY <1>1, <1>4, ReactionKeepsItsPromise DEF Results
<1>6. WellShaped(r) /\ (IsAnnouncing(r) <=> activates)
      /\ (IsAnnouncing(r) => r.replies[1].to = m.address)
  BY <1>5 DEF ReactionPromise
<1>7. 0 \in 0..LastDue
  BY ServerAssumption
<1>8. /\ \A t \in Socket \ {s} : connections'[t] = connections[t]
      /\ connections'[s].state = "RoutingActive" =>
            IF activates
            THEN connections'[s].sourceAddress = m.address
            ELSE /\ connections[s].state = "RoutingActive"
                 /\ connections'[s].sourceAddress = connections[s].sourceAddress
  BY <1>1, <1>3, HandleTcpRoutes
<1> HIDE DEF r, activates
<1>9. /\ reaction' \in [Socket -> ReactionShape] /\ task' \in [Socket -> TaskState]
      /\ wait' \in [Socket -> Nat] /\ sentAt' \in [Socket -> Nat]
      /\ \A t \in Socket \ {s} : /\ reaction'[t] = reaction[t] /\ task'[t] = task[t]
                                 /\ wait'[t] = wait[t] /\ sentAt'[t] = sentAt[t]
      /\ reaction'[s] = r
      /\ task'[s] \in {"Replying", "Reading", "Handling"}
      /\ r.replies # <<>> =>
            /\ task'[s] = "Replying"
            /\ sentAt'[s] <= LastDue /\ r.replies[1].at <= sentAt'[s]
            /\ sentAt'[s] = 0 + wait'[s]
  BY <1>1, <1>3, <1>6, <1>7, CarryOnSleeps DEF r
<1>10. /\ pending' = [pending EXCEPT ![s] = Tail(@)] /\ age' = [age EXCEPT ![s] = 0]
       /\ task[s] = "Handling"
       /\ UNCHANGED <<closeSignals, notified, expired, serving, told>>
  BY DEF HandleMessage
<1>11. pending' \in [Socket -> Seq(Message)] /\ age' \in [Socket -> 0..LastDue] /\ age'[s] = 0
       /\ \A t \in Socket \ {s} : age'[t] = age[t]
  BY <1>1, <1>4, <1>7, <1>10 DEF TypeOK
<1>12. TypeOK'
  BY <1>1, <1>9, <1>10, <1>11 DEF TypeOK
<1>13. reaction[s].replies = <<>>
  BY <1>1, <1>10 DEF SocketInv, RepliesLeft
<1>14. SocketInv(s)'
  <2>1. HasATask(s)' /\ RepliesLeft(s)'
    BY <1>6, <1>9 DEF HasATask, RepliesLeft
  <2>2. SleepsAddUp(s)'
    BY <1>9, <1>11 DEF SleepsAddUp
  <2>3. KnowsItsAddress(s)'
    BY <1>1, <1>6, <1>8, <1>9, <1>10, <1>13 DEF SocketInv, KnowsItsAddress, IsAnnouncing
  <2>4. QED
    BY <2>1, <2>2, <2>3 DEF SocketInv
<1>15. \A t \in Socket \ {s} : IsUntouched(t)
  BY <1>8, <1>9, <1>10, <1>11 DEF IsUntouched
<1>16. TasksInv'
  BY <1>12, <1>14, <1>15, OneSocketKeeps
<1>17. r.replies # <<>> /\ r.replies[1].kind = "Ack" =>
         connections[s].state = "RoutingActive" /\ r.replies[1].to = connections[s].sourceAddress
  BY <1>5 DEF ReactionPromise, r
<1>18. connections[s].state = "RoutingActive" => told[s] = connections[s].sourceAddress
  BY <1>1, <1>13 DEF SocketInv, KnowsItsAddress, IsAnnouncing
<1>19. QED
  BY <1>9, <1>16, <1>17, <1>18

(* A reply that is sent was due, and the next one is slept for.            *)
LEMMA SendReplyKeeps ==
    ASSUME TasksInv, EntityTypeOK', NEW s \in Socket, SendReply(s)
    PROVE  TasksInv' /\ reaction[s].replies[1].at <= age[s]
<1> DEFINE left == reaction[s].replies
           r == [reaction[s] EXCEPT !.replies = Tail(@)]
<1>1. TypeOK /\ SocketInv(s)
  BY DEF TasksInv
<1>2. /\ task[s] = "Replying" /\ left # <<>> /\ wait[s] = 0
      /\ CarryOn(s, r, sentAt[s], pending[s])
      /\ told' = [told EXCEPT ![s] = IF Head(left).kind = "Activated" THEN Head(left).to ELSE @]
      /\ age' = IF Len(left) = 1 THEN [age EXCEPT ![s] = 0] ELSE age
      /\ UNCHANGED <<connections, settings, pending, closeSignals, notified, expired, serving>>
  BY DEF SendReply
<1>3. /\ sentAt[s] <= LastDue /\ left[1].at <= sentAt[s] /\ sentAt[s] <= age[s] + wait[s]
      /\ WellShaped(reaction[s])
  BY <1>1, <1>2 DEF SocketInv, SleepsAddUp, RepliesLeft
<1>4. sentAt[s] \in Nat /\ age[s] \in 0..LastDue /\ LastDue \in Nat
      /\ sentAt[s] \in 0..LastDue
  BY <1>1, <1>3, ServerAssumption DEF TypeOK
<1>5. left \in Seq(ReplyShape) /\ reaction[s] \in ReactionShape
  BY <1>3 DEF WellShaped, ReactionShape
<1>6. /\ Tail(left) \in Seq(ReplyShape) /\ Len(Tail(left)) = Len(left) - 1
      /\ \A i \in 1..Len(Tail(left)) : Tail(left)[i] = left[i + 1]
      /\ Head(left) = left[1] /\ Head(left) \in ReplyShape /\ Len(left) \in Nat \ {0}
  BY <1>2, <1>5, HeadTailProperties, EmptySeq
<1>7. \A i \in 1..Len(Tail(left)) :
         Tail(left)[i].kind = "Answer" /\ Tail(left)[i].at <= LastDue
  <2> SUFFICES ASSUME NEW i \in 1..Len(Tail(left))
               PROVE  Tail(left)[i].kind = "Answer" /\ Tail(left)[i].at <= LastDue
    OBVIOUS
  <2>1. i + 1 \in 2..Len(left) /\ i + 1 \in 1..Len(left)
    BY <1>6
  <2>2. QED
    BY <1>3, <1>6, <2>1 DEF WellShaped
<1>8. r \in ReactionShape /\ r.replies = Tail(left)
  BY <1>5, <1>6 DEF ReactionShape
<1> HIDE DEF r
<1>9. WellShaped(r)
  <2>1. \A i \in 2..Len(Tail(left)) : i \in 1..Len(Tail(left))
    BY <1>6
  <2>2. QED
    BY <1>7, <1>8, <2>1 DEF WellShaped
<1>10. /\ reaction' \in [Socket -> ReactionShape] /\ task' \in [Socket -> TaskState]
       /\ wait' \in [Socket -> Nat] /\ sentAt' \in [Socket -> Nat]
       /\ \A t \in Socket \ {s} : /\ reaction'[t] = reaction[t] /\ task'[t] = task[t]
                                  /\ wait'[t] = wait[t] /\ sentAt'[t] = sentAt[t]
       /\ reaction'[s] = r
       /\ task'[s] \in {"Replying", "Reading", "Handling"}
       /\ r.replies # <<>> =>
             /\ task'[s] = "Replying"
             /\ sentAt'[s] <= LastDue /\ r.replies[1].at <= sentAt'[s]
             /\ sentAt'[s] = sentAt[s] + wait'[s]
  <2>1. TypeOK /\ WellShaped(r) /\ sentAt[s] \in 0..LastDue /\ CarryOn(s, r, sentAt[s], pending[s])
    BY <1>1, <1>2, <1>4, <1>9
  <2>2. QED
    BY <2>1, CarryOnSleeps
<1>11. /\ told' \in [Socket -> Address \cup {NoAddress}]
       /\ told'[s] = IF left[1].kind = "Activated" THEN left[1].to ELSE told[s]
       /\ \A t \in Socket \ {s} : told'[t] = told[t]
  BY <1>1, <1>2, <1>6 DEF TypeOK, ReplyShape
<1>12. /\ age' \in [Socket -> 0..LastDue] /\ \A t \in Socket \ {s} : age'[t] = age[t]
       /\ r.replies # <<>> => age'[s] = age[s]
  <2>1. Len(left) = 1 => r.replies = <<>>
    <3>1. Len(left) = 1 => Len(Tail(left)) = 0
      BY <1>6
    <3>2. Len(Tail(left)) = 0 => Tail(left) = <<>>
      BY <1>6, EmptySeq
    <3>3. QED
      BY <1>8, <3>1, <3>2
  <2>2. QED
    BY <1>1, <1>2, <1>4, <2>1 DEF TypeOK
<1>13. TypeOK'
  BY <1>1, <1>2, <1>10, <1>11, <1>12 DEF TypeOK
<1>14. ~IsAnnouncing(r)
  <2>1. r.replies # <<>> => 1 \in 1..Len(r.replies)
    BY <1>6, <1>8, EmptySeq
  <2>2. QED
    BY <1>7, <1>8, <2>1 DEF IsAnnouncing
<1>15. SocketInv(s)'
  <2>1. HasATask(s)' /\ RepliesLeft(s)'
    BY <1>9, <1>10 DEF HasATask, RepliesLeft
  <2>2. SleepsAddUp(s)'
    <3>1. sentAt[s] <= age[s]
      BY <1>2, <1>3, <1>4
    <3>2. wait'[s] \in Nat
      BY <1>10
    <3>3. r.replies # <<>> => sentAt'[s] <= age'[s] + wait'[s]
      BY <1>4, <1>10, <1>12, <3>1, <3>2
    <3>4. QED
      BY <1>10, <3>3 DEF SleepsAddUp
  <2>3. KnowsItsAddress(s)'
    BY <1>1, <1>2, <1>10, <1>11, <1>14 DEF SocketInv, KnowsItsAddress, IsAnnouncing
  <2>4. QED
    BY <2>1, <2>2, <2>3 DEF SocketInv
<1>16. \A t \in Socket \ {s} : IsUntouched(t)
  BY <1>2, <1>10, <1>11, <1>12 DEF IsUntouched
<1>17. TasksInv'
  BY <1>13, <1>15, <1>16, OneSocketKeeps
<1>18. QED
  BY <1>2, <1>3, <1>4, <1>5, <1>6, <1>17 DEF ReplyShape

(* Accepting opens an entry for a socket that has a task from now on.      *)
LEMMA AcceptKeeps ==
    ASSUME TasksInv, EntityTypeOK', NEW s \in Socket, Accept(s) PROVE TasksInv'
<1>1. TypeOK /\ SocketInv(s)
  BY DEF TasksInv
<1>2. /\ task[s] = "NotAccepted" /\ task' = [task EXCEPT ![s] = "Spawned"]
      /\ connections' = [connections EXCEPT ![s] = NewConnection]
      /\ UNCHANGED <<pending, reaction, wait, sentAt, closeSignals, notified,
                     expired, serving, age, told>>
  BY DEF Accept, OpenConnection
<1>3. connections \in [Socket -> Connection] /\ task \in [Socket -> TaskState]
  BY <1>1 DEF TypeOK, EntityTypeOK
<1>4. /\ connections'[s].state = "Initialized" /\ task'[s] = "Spawned"
      /\ task' \in [Socket -> TaskState]
      /\ \A t \in Socket \ {s} : connections'[t] = connections[t] /\ task'[t] = task[t]
  BY <1>2, <1>3 DEF NewConnection, TaskState
<1>5. TypeOK'
  BY <1>1, <1>2, <1>4 DEF TypeOK
<1>6. SocketInv(s)'
  BY <1>1, <1>2, <1>4 DEF SocketInv, HasATask, RepliesLeft, SleepsAddUp, KnowsItsAddress
<1>7. \A t \in Socket \ {s} : IsUntouched(t)
  BY <1>2, <1>4 DEF IsUntouched
<1>8. QED
  BY <1>5, <1>6, <1>7, OneSocketKeeps

(* A task with no reply to send moves on without touching its entry.       *)
LEMMA MovingOnKeeps ==
    ASSUME TasksInv, NEW s \in Socket, NEW k \in TaskState \ {"NotAccepted", "Done"},
           task[s] \notin {"NotAccepted", "Replying", "Done"},
           task' = [task EXCEPT ![s] = k],
           UNCHANGED <<connections, settings, reaction, wait, sentAt, serving, age, told>>,
           pending' \in [Socket -> Seq(Message)],
           closeSignals' \subseteq Socket, notified' \subseteq Socket, expired' \subseteq Socket
    PROVE  TasksInv'
<1>1. TypeOK /\ SocketInv(s)
  BY DEF TasksInv
<1>2. /\ task'[s] = k /\ task' \in [Socket -> TaskState]
      /\ \A t \in Socket \ {s} : task'[t] = task[t]
  BY <1>1 DEF TypeOK
<1>3. TypeOK'
  BY <1>1, <1>2 DEF TypeOK, EntityTypeOK
<1>4. SocketInv(s)'
  BY <1>1, <1>2 DEF SocketInv, HasATask, RepliesLeft, SleepsAddUp, KnowsItsAddress
<1>5. \A t \in Socket \ {s} : IsUntouched(t)
  BY <1>2 DEF IsUntouched
<1>6. QED
  BY <1>3, <1>4, <1>5, OneSocketKeeps

(* A task that ends takes its entry, and what was left to send, with it.   *)
LEMMA EndTaskKeeps ==
    ASSUME TasksInv, EntityTypeOK', NEW s \in Socket, EndTask(s) PROVE TasksInv'
<1>1. TypeOK
  BY DEF TasksInv
<1>2. /\ connections' = [connections EXCEPT ![s] = Absent]
      /\ task' = [task EXCEPT ![s] = "Done"]
      /\ pending' = [pending EXCEPT ![s] = <<>>]
      /\ reaction' = [reaction EXCEPT ![s] = Silence]
      /\ wait' = [wait EXCEPT ![s] = 0]
      /\ sentAt' = [sentAt EXCEPT ![s] = 0]
      /\ age' = [age EXCEPT ![s] = 0]
      /\ told' = [told EXCEPT ![s] = NoAddress]
      /\ UNCHANGED <<closeSignals, notified, expired, serving>>
  BY DEF EndTask, CloseConnection
<1>3. WellShaped(Silence) /\ Silence.replies = <<>> /\ Silence \in ReactionShape
  BY SilenceIsShaped DEF WellShaped
<1>4. connections \in [Socket -> Connection]
  BY <1>1 DEF TypeOK, EntityTypeOK
<1>5. /\ connections'[s] = Absent
      /\ \A t \in Socket \ {s} : connections'[t] = connections[t]
  BY <1>2, <1>4
<1>6. /\ task' \in [Socket -> TaskState] /\ task'[s] = "Done"
      /\ \A t \in Socket \ {s} : task'[t] = task[t]
  BY <1>1, <1>2 DEF TypeOK, TaskState
<1>7. pending' \in [Socket -> Seq(Message)]
  BY <1>1, <1>2, EmptySeq DEF TypeOK
<1>8. /\ reaction' \in [Socket -> ReactionShape] /\ reaction'[s] = Silence
      /\ \A t \in Socket \ {s} : reaction'[t] = reaction[t]
  BY <1>1, <1>2, <1>3 DEF TypeOK
<1>9. /\ wait' \in [Socket -> Nat] /\ sentAt' \in [Socket -> Nat]
      /\ age' \in [Socket -> 0..LastDue]
      /\ \A t \in Socket \ {s} : /\ wait'[t] = wait[t] /\ sentAt'[t] = sentAt[t]
                                 /\ age'[t] = age[t]
  BY <1>1, <1>2, ServerAssumption DEF TypeOK
<1>10. /\ told' \in [Socket -> Address \cup {NoAddress}]
       /\ \A t \in Socket \ {s} : told'[t] = told[t]
  BY <1>1, <1>2 DEF TypeOK
<1>11. TypeOK'
  BY <1>1, <1>2, <1>6, <1>7, <1>8, <1>9, <1>10 DEF TypeOK
<1>12. connections'[s].state = "Absent"
  BY <1>5 DEF Absent
<1>13. SocketInv(s)'
  BY <1>3, <1>8, <1>12 DEF SocketInv, HasATask, RepliesLeft, SleepsAddUp, KnowsItsAddress
<1>14. \A t \in Socket \ {s} : IsUntouched(t)
  BY <1>5, <1>6, <1>8, <1>9, <1>10 DEF IsUntouched
<1>15. QED
  BY <1>11, <1>13, <1>14, OneSocketKeeps

(* A tick shortens a sleep by what it adds to the time since the reaction;
   an entry it does not drop routes for whom it did.                       *)
LEMMA TickPassesKeeps ==
    ASSUME TasksInv, EntityTypeOK', TickPasses PROVE TasksInv'
<1>1. TypeOK
  BY DEF TasksInv
<1>2. /\ wait' = [s \in Socket |-> IF wait[s] > 0 THEN wait[s] - 1 ELSE 0]
      /\ age' = [s \in Socket |->
            IF task[s] = "Replying" /\ age[s] < LastDue THEN age[s] + 1 ELSE age[s]]
      /\ \/ Tick /\ expired' = Expired
         \/ UNCHANGED <<connections, settings, expired>>
      /\ UNCHANGED <<task, pending, reaction, sentAt, closeSignals, notified,
                     serving, told>>
  BY DEF TickPasses
<1>3. /\ wait \in [Socket -> Nat] /\ sentAt \in [Socket -> Nat]
      /\ age \in [Socket -> 0..LastDue] /\ LastDue \in Nat
      /\ connections \in [Socket -> Connection]
  BY <1>1, ServerAssumption DEF TypeOK, EntityTypeOK
<1>4. wait' \in [Socket -> Nat] /\ age' \in [Socket -> 0..LastDue]
  BY <1>2, <1>3
<1>5. expired' \subseteq Socket
  BY <1>1, <1>2 DEF TypeOK, Expired
<1>6. TypeOK'
  BY <1>1, <1>2, <1>4, <1>5 DEF TypeOK
<1>7. ASSUME NEW s \in Socket PROVE SocketInv(s)'
  <2>1. SocketInv(s)
    BY DEF TasksInv
  <2>2. \/ connections'[s].state = "Absent"
        \/ /\ connections'[s].state = connections[s].state
           /\ connections'[s].sourceAddress = connections[s].sourceAddress
           /\ connections[s].state # "Absent"
        \/ connections'[s] = connections[s]
    <3> DEFINE c == connections[s]
    <3>1. connections'[s] = AfterTick(c) \/ connections'[s] = c
      BY <1>2, <1>3 DEF Tick
    <3>2. \/ AfterTick(c) = Absent
          \/ c.state # "Absent" /\ AfterTick(c) = [c EXCEPT !.idle = @ + 1]
      BY DEF AfterTick
    <3>3. c \in Connection
      BY <1>3
    <3>4. /\ [c EXCEPT !.idle = @ + 1].state = c.state
          /\ [c EXCEPT !.idle = @ + 1].sourceAddress = c.sourceAddress
      BY <3>3 DEF Connection
    <3>5. Absent.state = "Absent"
      BY DEF Absent
    <3> DEFINE d == AfterTick(c)
    <3>6. \/ d.state = "Absent"
          \/ d.state = c.state /\ d.sourceAddress = c.sourceAddress /\ c.state # "Absent"
      BY <3>2, <3>4, <3>5
    <3> HIDE DEF d
    <3>7. connections'[s] = d \/ connections'[s] = c
      BY <3>1 DEF d
    <3>8. QED
      BY <3>6, <3>7
  <2>3. HasATask(s)' /\ RepliesLeft(s)'
    BY <1>2, <2>1, <2>2 DEF SocketInv, HasATask, RepliesLeft
  <2>4. KnowsItsAddress(s)'
    BY <1>2, <2>1, <2>2 DEF SocketInv, KnowsItsAddress
  <2>5. SleepsAddUp(s)'
    <3> SUFFICES ASSUME reaction[s].replies # <<>>
                 PROVE  /\ sentAt[s] <= LastDue
                        /\ reaction[s].replies[1].at <= sentAt[s]
                        /\ sentAt[s] <= age'[s] + wait'[s]
      BY <1>2 DEF SleepsAddUp
    <3>1. /\ task[s] = "Replying" /\ sentAt[s] <= LastDue
          /\ reaction[s].replies[1].at <= sentAt[s]
          /\ sentAt[s] <= age[s] + wait[s]
      BY <2>1 DEF SocketInv, RepliesLeft, SleepsAddUp
    <3>2. /\ wait'[s] = IF wait[s] > 0 THEN wait[s] - 1 ELSE 0
          /\ age'[s] = IF age[s] < LastDue THEN age[s] + 1 ELSE age[s]
      BY <1>2, <3>1
    <3>3. wait[s] \in Nat /\ age[s] \in 0..LastDue /\ sentAt[s] \in Nat
      BY <1>3
    <3>4. sentAt[s] <= age'[s] + wait'[s]
      BY <1>3, <3>1, <3>2, <3>3
    <3>5. QED
      BY <3>1, <3>4
  <2>6. QED
    BY <2>3, <2>4, <2>5 DEF SocketInv
<1>8. QED
  BY <1>6, <1>7 DEF TasksInv

(* A step that leaves every task where it is.                              *)
LEMMA ParkedKeeps ==
    ASSUME TasksInv, EntityTypeOK',
           UNCHANGED <<connections, task, pending, reaction, wait, sentAt, age, told>>,
           closeSignals' \subseteq Socket, notified' \subseteq Socket,
           expired' \subseteq Socket, serving' \in BOOLEAN
    PROVE  TasksInv'
<1>1. TypeOK'
  BY DEF TasksInv, TypeOK
<1>2. \A t \in Socket : IsUntouched(t)
  BY DEF IsUntouched
<1>3. QED
  BY <1>1, <1>2, UntouchedKeeps DEF TasksInv

LEMMA TasksKeep == TasksInv /\ EntityTypeOK' /\ [Next]_vars => TasksInv'
<1> SUFFICES ASSUME TasksInv, EntityTypeOK', [Next]_vars PROVE TasksInv'
  OBVIOUS
<1>1. TypeOK
  BY DEF TasksInv
<1>2. /\ pending \in [Socket -> Seq(Message)] /\ closeSignals \subseteq Socket
      /\ notified \subseteq Socket /\ expired \subseteq Socket /\ serving \in BOOLEAN
  BY <1>1 DEF TypeOK
<1>3. {"Reading", "Handling", "Leaving", "Closing"} \subseteq TaskState \ {"NotAccepted", "Done"}
  BY DEF TaskState
<1>4. ASSUME NEW s \in Socket, Serve(s) PROVE TasksInv'
  <2>1. CASE StartServing(s)
    BY <1>2, <1>3, <2>1, MovingOnKeeps DEF StartServing
  <2>2. CASE LeaveOnSignal(s)
    BY <1>2, <1>3, <2>2, MovingOnKeeps DEF LeaveOnSignal
  <2>3. CASE HandleMessage(s)
    BY <2>3, HandleMessageKeeps
  <2>4. CASE SendReply(s)
    BY <2>4, SendReplyKeeps
  <2>5. CASE CloseAsTheReactionSays(s) \/ FinishClosing(s)
    BY <2>5, EndTaskKeeps DEF CloseAsTheReactionSays, FinishClosing
  <2>6. CASE RemoveCloseSignal(s)
    BY <1>2, <1>3, <2>6, MovingOnKeeps DEF RemoveCloseSignal
  <2>7. QED
    BY <1>4, <2>1, <2>2, <2>3, <2>4, <2>5, <2>6 DEF Serve
<1>5. ASSUME NEW s \in Socket, Peer(s) PROVE TasksInv'
  <2>1. CASE Accept(s)
    BY <2>1, AcceptKeeps
  <2>2. CASE LeaveOnEof(s)
    BY <1>2, <1>3, <2>2, MovingOnKeeps DEF LeaveOnEof
  <2>3. CASE ReadChunk(s)
    <3>1. PICK chunk \in Chunks : pending' = [pending EXCEPT ![s] = chunk]
      BY <2>3 DEF ReadChunk
    <3>2. chunk \in Seq(Message)
      BY ServerAssumption
    <3>3. pending' \in [Socket -> Seq(Message)]
      BY <1>2, <3>1, <3>2
    <3>4. QED
      BY <1>2, <1>3, <2>3, <3>3, MovingOnKeeps DEF ReadChunk
  <2>4. CASE WriteFails(s)
    BY <2>4, EndTaskKeeps DEF WriteFails
  <2>5. QED
    BY <1>5, <2>1, <2>2, <2>3, <2>4 DEF Peer
<1>6. ASSUME NEW s \in Socket, SignalExpired(s) PROVE TasksInv'
  BY <1>2, <1>6, ParkedKeeps DEF SignalExpired
<1>7. CASE TickPasses
  BY <1>7, TickPassesKeeps
<1>8. CASE OperatorPutsSettings
  BY <1>2, <1>8, ParkedKeeps DEF OperatorPutsSettings, PutSettings, taskVars
<1>9. CASE Stop
  BY <1>2, <1>9, ParkedKeeps DEF Stop
<1>10. CASE UNCHANGED vars
  BY <1>2, <1>10, ParkedKeeps DEF vars
<1>11. QED
  BY <1>4, <1>5, <1>6, <1>7, <1>8, <1>9, <1>10 DEF Next

Inv == IInv /\ TasksInv

(* The entity's invariant and the tasks' hold throughout every behaviour of
   the server.                                                             *)
LEMMA ServerInvariant == Spec => []Inv
<1>1. Init => Inv
  BY InitEstablishes, TasksStart DEF Init, Inv
<1>2. Inv /\ [Next]_vars => Inv'
  <2> SUFFICES ASSUME Inv, [Next]_vars PROVE Inv'
    OBVIOUS
  <2>1. IInv'
    BY StepsAreTheEntitys, NextKeeps DEF Inv, TasksInv
  <2>2. EntityTypeOK'
    BY <2>1 DEF IInv, EntityTypeOK
  <2>3. TasksInv'
    BY <2>2, TasksKeep DEF Inv
  <2>4. QED
    BY <2>1, <2>3 DEF Inv
<1>3. QED
  BY <1>1, <1>2, PTL DEF Spec

-----------------------------------------------------------------------------
(* What the server promises.                                               *)

(* The server's state stays in its type: above all, what HandleTcp returns
   is always a reaction whose replies fall due within LastDue, and what is
   pending always messages.                                                *)
THEOREM ServerTypeCorrect == Spec => []TypeOK
<1>1. Inv => TypeOK
  BY DEF Inv, TasksInv
<1>2. QED
  BY <1>1, ServerInvariant, PTL

(* However a ServeConnection task ends, and whatever it was doing when the
   timer dropped its socket, it leaves no entry in the table.              *)
THEOREM NoEntryIsOrphaned == Spec => []NoOrphanEntry
<1>1. Inv => NoOrphanEntry
  BY DEF Inv, TasksInv, SocketInv, HasATask, NoOrphanEntry
<1>2. QED
  BY <1>1, ServerInvariant, PTL

(* The tasks, interleaved at every mutex and await, do to the table what the
   entity does one handler at a time.                                      *)
THEOREM ServerImplementsTheEntity == Spec => EntitySpec
<1>1. Inv => TypeOK
  BY DEF Inv, TasksInv
<1>2. Spec => [][EntityNext]_entityVars
  BY <1>1, ServerInvariant, StepsAreTheEntitys, PTL DEF Spec
<1>3. Spec => EntityInit
  BY DEF Spec, Init
<1>4. QED
  BY <1>2, <1>3, PTL DEF EntitySpec

(* So the table's promises are the server's: the routing the decision table
   grants is exclusive, bounded and released before it moves.              *)
THEOREM ServerKeepsTheRoutingPromise ==
    Spec => RoutingIsGrantedOnce /\ []UniqueSourceAddress /\ []CapacityRespected
BY ServerImplementsTheEntity, EntityKeepsTheRoutingPromise, SourceAddressesAreUnique,
   CapacityIsRespected, PTL

(* A message leaves the handler with an acknowledgement at its head only in a
   step that handles one: no other step makes a reaction acknowledge.      *)
LEMMA AcknowledgingIsTold ==
    ASSUME Inv, [Next]_vars, NEW s \in Socket, task[s] = "Handling",
           reaction'[s].replies # <<>>, reaction'[s].replies[1].kind = "Ack"
    PROVE  /\ told[s] = reaction'[s].replies[1].to
           /\ reaction'[s].replies[1].to = connections[s].sourceAddress
<1>1. TasksInv /\ TypeOK /\ SocketInv(s)
  BY DEF Inv, TasksInv
<1>2. EntityTypeOK'
  BY <1>1, StepsAreTheEntitys, NextKeeps DEF Inv, IInv, EntityTypeOK
<1>3. CASE HandleMessage(s)
  BY <1>1, <1>2, <1>3, HandleMessageKeeps
<1>4. CASE ~HandleMessage(s)
  <2>1. reaction[s].replies = <<>>
    BY <1>1 DEF SocketInv, RepliesLeft
  <2>2. reaction \in [Socket -> ReactionShape]
    BY <1>1 DEF TypeOK
  <2>3. reaction'[s] = reaction[s] \/ reaction'[s].replies = <<>>
    <3>1. ASSUME NEW t \in Socket, Serve(t) \/ Peer(t) \/ SignalExpired(t)
          PROVE  reaction'[s] = reaction[s]
      <4>1. CASE HandleMessage(t) \/ SendReply(t)
        <5>1. t # s
          BY <1>4, <4>1 DEF SendReply
        <5>2. PICK r : reaction' = [reaction EXCEPT ![t] = r]
          BY <4>1, Zenon DEF HandleMessage, SendReply, CarryOn
        <5>3. QED
          BY <2>2, <5>1, <5>2
      <4>2. CASE CloseAsTheReactionSays(t) \/ FinishClosing(t) \/ WriteFails(t)
        <5>1. t # s
          BY <4>2 DEF CloseAsTheReactionSays, FinishClosing, WriteFails
        <5>2. reaction' = [reaction EXCEPT ![t] = Silence]
          BY <4>2 DEF CloseAsTheReactionSays, FinishClosing, WriteFails, EndTask
        <5>3. QED
          BY <2>2, <5>1, <5>2
      <4>3. CASE \/ StartServing(t) \/ LeaveOnSignal(t) \/ RemoveCloseSignal(t)
                 \/ Accept(t) \/ LeaveOnEof(t) \/ ReadChunk(t) \/ SignalExpired(t)
        BY <4>3 DEF StartServing, LeaveOnSignal, RemoveCloseSignal, Accept,
                    LeaveOnEof, ReadChunk, SignalExpired
      <4>4. QED
        BY <3>1, <4>1, <4>2, <4>3 DEF Serve, Peer
    <3>2. CASE TickPasses \/ OperatorPutsSettings \/ Stop \/ UNCHANGED vars
      BY <3>2 DEF TickPasses, OperatorPutsSettings, Stop, taskVars, vars
    <3>3. QED
      BY <3>1, <3>2 DEF Next
  <2>4. QED
    BY <2>1, <2>3
<1>5. QED
  BY <1>3, <1>4

(* A request is routed only after its tester read that the address is active,
   even when activation and request arrive in one chunk.                   *)
THEOREM RoutingFollowsTheTelling == Spec => RoutedOnlyAfterTheTesterWasTold
<1>1. Inv /\ [Next]_vars =>
        [\A s \in Socket :
            LET r == reaction'[s].replies
            IN  task[s] = "Handling" /\ r # <<>> /\ r[1].kind = "Ack"
                  => told[s] = r[1].to /\ r[1].to = connections[s].sourceAddress]_vars
  BY AcknowledgingIsTold
<1>2. QED
  BY <1>1, ServerInvariant, PTL DEF Spec, RoutedOnlyAfterTheTesterWasTold

(* A step that makes a reaction one reply shorter and does not end its task
   sends a reply, and that reply was due.                                  *)
LEMMA SendingIsDue ==
    ASSUME Inv, [Next]_vars, NEW s \in Socket, reaction[s].replies # <<>>,
           Len(reaction'[s].replies) = Len(reaction[s].replies) - 1,
           task'[s] # "Done"
    PROVE  age[s] >= reaction[s].replies[1].at
<1>1. TasksInv /\ TypeOK /\ SocketInv(s)
  BY DEF Inv, TasksInv
<1>2. EntityTypeOK'
  BY <1>1, StepsAreTheEntitys, NextKeeps DEF Inv, IInv, EntityTypeOK
<1>3. /\ task[s] = "Replying" /\ reaction[s].replies \in Seq(ReplyShape)
      /\ reaction \in [Socket -> ReactionShape] /\ age[s] \in Nat /\ sentAt[s] \in Nat
  BY <1>1, ServerAssumption DEF SocketInv, RepliesLeft, WellShaped, ReactionShape, TypeOK
<1>4. reaction'[s] # reaction[s]
  BY <1>3, LenProperties
<1>5. SendReply(s)
  <2>1. ASSUME NEW t \in Socket, Serve(t) \/ Peer(t) \/ SignalExpired(t)
        PROVE  SendReply(s)
    <3>1. CASE HandleMessage(t) \/ SendReply(t)
      <4>1. PICK r : reaction' = [reaction EXCEPT ![t] = r]
        BY <3>1, Zenon DEF HandleMessage, SendReply, CarryOn
      <4>2. t = s
        BY <1>3, <1>4, <4>1
      <4>3. QED
        BY <1>3, <3>1, <4>2 DEF HandleMessage
    <3>2. CASE CloseAsTheReactionSays(t) \/ FinishClosing(t) \/ WriteFails(t)
      <4>1. /\ reaction' = [reaction EXCEPT ![t] = Silence]
            /\ task' = [task EXCEPT ![t] = "Done"]
        BY <3>2 DEF CloseAsTheReactionSays, FinishClosing, WriteFails, EndTask
      <4>2. t = s
        BY <1>3, <1>4, <4>1
      <4>3. task'[s] = "Done"
        BY <1>1, <4>1, <4>2 DEF TypeOK
      <4>4. QED
        BY <4>3
    <3>3. CASE \/ StartServing(t) \/ LeaveOnSignal(t) \/ RemoveCloseSignal(t)
               \/ Accept(t) \/ LeaveOnEof(t) \/ ReadChunk(t) \/ SignalExpired(t)
      BY <1>4, <3>3 DEF StartServing, LeaveOnSignal, RemoveCloseSignal, Accept,
                  LeaveOnEof, ReadChunk, SignalExpired
    <3>4. QED
      BY <2>1, <3>1, <3>2, <3>3 DEF Serve, Peer
  <2>2. CASE TickPasses \/ OperatorPutsSettings \/ Stop \/ UNCHANGED vars
    BY <1>4, <2>2 DEF TickPasses, OperatorPutsSettings, Stop, taskVars, vars
  <2>3. QED
    BY <2>1, <2>2 DEF Next
<1>6. reaction[s].replies[1].at <= age[s]
  BY <1>1, <1>2, <1>5, SendReplyKeeps
<1>7. reaction[s].replies[1].at \in Nat
  <2>1. 1 \in 1..Len(reaction[s].replies)
    BY <1>3, LenProperties, EmptySeq
  <2>2. reaction[s].replies[1] \in ReplyShape
    BY <1>3, <2>1, ElementOfSeq
  <2>3. QED
    BY <2>2 DEF ReplyShape
<1>8. QED
  BY <1>3, <1>6, <1>7

(* No reply is written before its due time, counted from when the reaction
   was returned, whatever order the plan's due times are in.               *)
THEOREM RepliesAreDue == Spec => NoReplyBeforeItIsDue
<1>1. Inv /\ [Next]_vars =>
        [\A s \in Socket :
            LET left == reaction[s].replies
            IN  /\ left # <<>>
                /\ Len(reaction'[s].replies) = Len(left) - 1
                /\ task'[s] # "Done"
                => age[s] >= left[1].at]_vars
  BY SendingIsDue
<1>2. QED
  BY <1>1, ServerInvariant, PTL DEF Spec, NoReplyBeforeItIsDue
=============================================================================
