----------------------------- MODULE ExchangeGate -----------------------------
(***************************************************************************)
(* POST /simulation/request of api/src/simulation.rs: a request is routed  *)
(* and answered under the simulation's lock, the ECUs whose answer spans   *)
(* time are claimed, the answer is emitted against the clock, the claim is *)
(* released and the exchange is put on the feed of TrafficChannel.  Between *)
(* any two of these steps other requests, the wires and monitors move, and *)
(* while an answer is emitted the caller may go away.                      *)
(*                                                                         *)
(* How a request is routed is SimulationService's subject; here any        *)
(* outcome of Outcomes may be met, and an answer is the number of steps of *)
(* its plan.                                                               *)
(***************************************************************************)
EXTENDS TrafficChannel

CONSTANTS
  Callers,           \* requests served at the same time
  Ecus,
  RequestCanId,      \* RequestCanId[e]: m_u32RequestCanId, 0 of every DoIP-only ECU
  Outcomes,          \* what requests may be routed to: functions from ECUs to steps
  OtherKinds         \* kinds of events the rest of the engine publishes

ASSUME GateAssumption ==
  /\ RequestCanId \in [Ecus -> Nat]
  /\ \A outcome \in Outcomes :
       DOMAIN outcome \subseteq Ecus /\ \A e \in DOMAIN outcome : outcome[e] \in Nat \ {0}
  /\ OtherKinds \subseteq Kinds

VARIABLES
  pc,                \* pc[c]: where the handler of the caller c is
  plan,              \* plan[c]: the steps of the plan of each ECU that answers
  claimed,           \* claimed[c]: m_vecClaimedRequestCanIds of its BusyEcuGuard
  busy               \* busy_ecus

gateVars == <<pc, plan, claimed, busy>>
vars == <<trafficVars, gateVars>>

NoPlan == [e \in {} |-> 0]

Init ==
  /\ TrafficInit
  /\ pc = [c \in Callers |-> "Idle"]
  /\ plan = [c \in Callers |-> NoPlan]
  /\ claimed = [c \in Callers |-> {}]
  /\ busy = {}

-----------------------------------------------------------------------------
\* Stopped, NoTarget, Silenced or TooLargeForSubnetwork: published at once.
AnswerUnrouted(c) ==
  /\ pc[c] = "Idle"
  /\ Publish("Exchange")
  /\ UNCHANGED gateVars

\* Handled: the answering ECUs have processed the request, and changed, before
\* anything is claimed.
Route(c) ==
  /\ pc[c] = "Idle"
  /\ \E outcome \in Outcomes : plan' = [plan EXCEPT ![c] = outcome]
  /\ pc' = [pc EXCEPT ![c] = "Claiming"]
  /\ UNCHANGED <<trafficVars, claimed, busy>>

\* vecWanted: one immediate answer occupies nothing.
Wanted(c) == {RequestCanId[e] : e \in {a \in DOMAIN plan[c] : plan[c][a] > 1}}

\* Mutated form of Refuse: what was claimed before the busy ECU stays claimed.
RefuseHalfway(c) ==
  /\ pc[c] = "Claiming"
  /\ Wanted(c) \cap busy # {}
  /\ busy' = busy \cup Wanted(c)
  /\ pc' = [pc EXCEPT ![c] = "Idle"]
  /\ plan' = [plan EXCEPT ![c] = NoPlan]
  /\ UNCHANGED <<trafficVars, claimed>>

\* Claim meets a busy ECU: 409, and nothing is published.
Refuse(c) ==
  /\ pc[c] = "Claiming"
  /\ Wanted(c) \cap busy # {}
  /\ pc' = [pc EXCEPT ![c] = "Idle"]
  /\ plan' = [plan EXCEPT ![c] = NoPlan]
  /\ UNCHANGED <<trafficVars, claimed, busy>>

Claim(c) ==
  /\ pc[c] = "Claiming"
  /\ Wanted(c) \cap busy = {}
  /\ busy' = busy \cup Wanted(c)
  /\ claimed' = [claimed EXCEPT ![c] = Wanted(c)]
  /\ pc' = [pc EXCEPT ![c] = "Emitting"]
  /\ UNCHANGED <<trafficVars, plan>>

\* The drop of the guard.
Release(c) ==
  /\ busy' = busy \ claimed[c]
  /\ claimed' = [claimed EXCEPT ![c] = {}]
  /\ plan' = [plan EXCEPT ![c] = NoPlan]

\* EmitPlans is over: the last step of every plan has come due.
Finish(c) ==
  /\ pc[c] = "Emitting"
  /\ Release(c)
  /\ pc' = [pc EXCEPT ![c] = "Publishing"]
  /\ UNCHANGED trafficVars

\* PublishExchange.
PublishExchange(c) ==
  /\ pc[c] = "Publishing"
  /\ Publish("Exchange")
  /\ pc' = [pc EXCEPT ![c] = "Idle"]
  /\ UNCHANGED <<plan, claimed, busy>>

\* Mutated form of Disconnect: the claim outlives the handler.
DisconnectClaimed(c) ==
  /\ pc[c] = "Emitting"
  /\ plan' = [plan EXCEPT ![c] = NoPlan]
  /\ claimed' = [claimed EXCEPT ![c] = {}]
  /\ pc' = [pc EXCEPT ![c] = "Idle"]
  /\ UNCHANGED <<trafficVars, busy>>

\* The caller goes away while its answer is slept through: the handler is
\* dropped where it awaits, and the guard with it.
Disconnect(c) ==
  /\ pc[c] = "Emitting"
  /\ Release(c)
  /\ pc' = [pc EXCEPT ![c] = "Idle"]
  /\ UNCHANGED trafficVars

\* The bridge, the DoIP server and the lifecycle handlers publish too.
PublishOther ==
  /\ \E kind \in OtherKinds : Publish(kind)
  /\ UNCHANGED gateVars

Serve(c) == Refuse(c) \/ Claim(c) \/ Finish(c) \/ PublishExchange(c)

Next ==
  \/ \E c \in Callers : AnswerUnrouted(c) \/ Route(c) \/ Serve(c) \/ Disconnect(c)
  \/ PublishOther
  \/ MonitorNext /\ UNCHANGED gateVars

Spec == Init /\ [][Next]_vars

\* Handlers run to their end and readers read; nobody need ever call or attach.
FairSpec ==
  /\ Spec
  /\ \A c \in Callers : WF_vars(Serve(c))
  /\ \A m \in Monitors : WF_vars(Stream(m) /\ UNCHANGED gateVars)

-----------------------------------------------------------------------------
\* busy_ecus holds exactly what the answers being emitted have claimed, and no
\* ECU is claimed by two of them: no refusal, no disconnect and no finished
\* exchange leaves an ECU busy for ever or frees another's.
BusyMeansClaimed ==
  /\ busy = UNION {claimed[c] : c \in Callers}
  /\ \A c, d \in Callers : c # d => claimed[c] \cap claimed[d] = {}
  /\ \A c \in Callers : claimed[c] # {} => pc[c] = "Emitting"

\* An ECU that is completing a ResponsePending sequence completes it.
BusyEcuIsReleased ==
  \A id \in {RequestCanId[e] : e \in Ecus} : id \in busy ~> id \notin busy

\* What a monitor that did not bound its replay should be shown.
IsNews(m, n) ==
  /\ monitor[m].attached /\ monitor[m].limit = Unlimited
  /\ n <= Len(log) /\ Wants(monitor[m].frames, log[n])

\* What is published reaches every monitor that stays and wants it, or the
\* monitor is told that it missed it.
NewsReachesMonitors ==
  \A m \in Monitors, n \in 1 .. MaxEvents :
    IsNews(m, n) ~> (~monitor[m].attached \/ HasHeardOf(m, n))

\* The comment at Claim: while an ECU completes a ResponsePending sequence a
\* second request is refused rather than allowed to change it.
BusyEcuIsLeftAlone ==
  [][\A c \in Callers : Route(c) => \A e \in DOMAIN plan'[c] : RequestCanId[e] \notin busy]_vars

=============================================================================
