----------------------------- MODULE WireControl -----------------------------
(***************************************************************************)
(* Putting the simulation on a wire and taking it off again: the handlers  *)
(* of api/src/hardware.rs, over SerialProbe, and of api/src/doip.rs.  Each *)
(* caller is one HTTP request at a time.  /hw/start holds the lock of the  *)
(* hardware state while it probes; /hw/line-speed looks at that state and  *)
(* lets go of it before it touches the port; /doip/start looks at the DoIP *)
(* state, awaits the sockets, and then stores what it got.                 *)
(*                                                                         *)
(* A DoIP server is named by the address it is bound to.                   *)
(***************************************************************************)
EXTENDS SerialProbe

CONSTANTS
  Callers,           \* HTTP requests at the same time
  Addresses,         \* addresses a DoIP server can be bound to
  Nothing            \* no caller, no address

ASSUME WireAssumption ==
  /\ Workers = Callers
  /\ Nothing \notin Callers \cup Addresses

VARIABLES
  hardwareLock,      \* who holds the mutex of HardwareState, across steps
  optTask,           \* m_optTask is Some
  bridge,            \* the task of the bridge: none, alive, or aborted and not yet gone
  link,              \* m_optLinkSpeed of the bridge, and how its port was opened
  moved,             \* a command moved the adapter since the bridge's speed was found
  optHandle,         \* m_optHandle: the server /doip/stop would stop, or Nothing
  listening,         \* addresses servers are bound to
  aborted,           \* those of servers that were stopped and are not yet gone
  starting           \* starting[c]: the address /doip/start of c is at, and its step

hardwareVars == <<hardwareLock, optTask, bridge, link, moved>>
doipVars == <<optHandle, listening, aborted, starting>>
vars == <<probeVars, hardwareVars, doipVars>>

NoLink == [rate |-> Fallback, source |-> "Requested", opened |-> "Virtual"]
NotStarting == [at |-> "Idle", address |-> Nothing]

Init ==
  /\ ProbeInit
  /\ hardwareLock = Nothing /\ optTask = FALSE
  /\ bridge = "None" /\ link = NoLink /\ moved = FALSE
  /\ optHandle = Nothing /\ listening = {} /\ aborted = {}
  /\ starting = [c \in Callers |-> NotStarting]

IsFree(c) == work[c].at = "Idle" /\ starting[c].at = "Idle"

-----------------------------------------------------------------------------
(***************************************************************************)
(* The serial bridge                                                       *)
(***************************************************************************)
\* PostHardwareStart, up to ResolveSerialLinkSpeed: a speed the caller named is
\* taken as it is.
StartHardware(c) ==
  /\ IsFree(c) /\ hardwareLock = Nothing /\ ~optTask
  /\ \/ work' = [work EXCEPT ![c] = Probing("Bridge")]
     \/ \E rate \in Rates :
          work' = [work EXCEPT ![c] = [Probing("Bridge") EXCEPT !.at = "Opening", !.rate = rate]]
  /\ hardwareLock' = c
  /\ UNCHANGED <<adapter, speed, holders, optTask, bridge, link, moved, doipVars>>

\* DetectSerialLinkSpeed; what moved the adapter before is what was found.
Detect(c) ==
  /\ ProbeStep(c)
  /\ moved' = IF work'[c].at = "Opening" THEN FALSE ELSE moved
  /\ UNCHANGED <<hardwareLock, optTask, bridge, link, doipVars>>

\* Mutated form of OpenBridge: the state is stored whether the port opened or not.
OpenBridgeAnyway(c) ==
  /\ work[c].at = "Opening"
  /\ \E opened \in OpenPort(work[c].rate) :
       /\ optTask' = TRUE
       /\ bridge' = IF opened = "Error" THEN bridge ELSE "Alive"
       /\ link' = [rate |-> work[c].rate, source |-> work[c].source, opened |-> opened]
       /\ holders' = IF opened = "Error" THEN holders ELSE holders \cup {Bridge}
  /\ work' = [work EXCEPT ![c] = Idle]
  /\ hardwareLock' = Nothing
  /\ UNCHANGED <<adapter, speed, moved, doipVars>>

\* The port is opened for good, SlcanBus::Open sends its commands, and the
\* bridge's task is spawned and stored.
OpenBridge(c) ==
  /\ work[c].at = "Opening"
  /\ \E opened \in OpenPort(work[c].rate) :
       \/ /\ opened = "Error"
          /\ UNCHANGED <<holders, optTask, bridge, link>>
       \/ /\ opened # "Error"
          /\ holders' = holders \cup {Bridge}
          /\ optTask' = TRUE /\ bridge' = "Alive"
          /\ link' = [rate |-> work[c].rate, source |-> work[c].source, opened |-> opened]
  /\ work' = [work EXCEPT ![c] = Idle]
  /\ hardwareLock' = Nothing
  /\ UNCHANGED <<adapter, speed, moved, doipVars>>

\* PostHardwareStop: abort() takes effect when the task next awaits.
StopHardware(c) ==
  /\ IsFree(c) /\ hardwareLock = Nothing /\ optTask
  /\ optTask' = FALSE
  /\ bridge' = "Aborted" /\ link' = NoLink
  /\ UNCHANGED <<probeVars, hardwareLock, moved, doipVars>>

\* The aborted task is dropped, and its port with it.
BridgeEnds ==
  /\ bridge = "Aborted"
  /\ bridge' = "None"
  /\ holders' = holders \ {Bridge}
  /\ UNCHANGED <<adapter, speed, work, hardwareLock, optTask, link, moved, doipVars>>

\* PostCommandLineSpeed, up to the port: nothing is held from here on.
RequestLineSpeed(c) ==
  /\ IsFree(c) /\ hardwareLock = Nothing /\ ~optTask
  /\ \E target \in Commandable :
       \/ work' = [work EXCEPT ![c] = [Probing("Command") EXCEPT !.target = target]]
       \/ \E rate \in Rates :
            work' = [work EXCEPT ![c] =
              [Probing("Command") EXCEPT !.at = "Commanding", !.rate = rate, !.target = target]]
  /\ UNCHANGED <<adapter, speed, holders, hardwareVars, doipVars>>

\* CommandLineSpeed.
CommandPort(c) ==
  /\ CommandStep(c)
  /\ moved' = (moved \/ speed' # speed)
  /\ UNCHANGED <<hardwareLock, optTask, bridge, link, doipVars>>

\* The verdict is reported.
ReportLineSpeed(c) ==
  /\ work[c].at = "Concluded"
  /\ work' = [work EXCEPT ![c] = Idle]
  /\ UNCHANGED <<adapter, speed, holders, hardwareVars, doipVars>>

-----------------------------------------------------------------------------
(***************************************************************************)
(* The DoIP server                                                         *)
(***************************************************************************)
\* PostDoIpStart, up to the await.
StartDoIp(c) ==
  /\ IsFree(c)
  /\ optHandle = Nothing
  /\ \E address \in Addresses :
       starting' = [starting EXCEPT ![c] = [at |-> "Binding", address |-> address]]
  /\ UNCHANGED <<probeVars, hardwareVars, optHandle, listening, aborted>>

\* StartObserved: the sockets are bound, or the address is taken.
BindDoIp(c) ==
  /\ starting[c].at = "Binding"
  /\ LET address == starting[c].address
     IN  IF address \in listening
           THEN /\ starting' = [starting EXCEPT ![c] = NotStarting]
                /\ UNCHANGED listening
           ELSE /\ starting' = [starting EXCEPT ![c].at = "Storing"]
                /\ listening' = listening \cup {address}
  /\ UNCHANGED <<probeVars, hardwareVars, optHandle, aborted>>

\* The handle is stored, over whatever was stored meanwhile.
StoreDoIp(c) ==
  /\ starting[c].at = "Storing"
  /\ optHandle' = starting[c].address
  /\ starting' = [starting EXCEPT ![c] = NotStarting]
  /\ UNCHANGED <<probeVars, hardwareVars, listening, aborted>>

\* PostDoIpStop: the tasks end when they next await.
StopDoIp(c) ==
  /\ IsFree(c)
  /\ optHandle # Nothing
  /\ aborted' = aborted \cup {optHandle}
  /\ optHandle' = Nothing
  /\ UNCHANGED <<probeVars, hardwareVars, listening, starting>>

ServerEnds(address) ==
  /\ address \in aborted
  /\ listening' = listening \ {address}
  /\ aborted' = aborted \ {address}
  /\ UNCHANGED <<probeVars, hardwareVars, optHandle, starting>>

-----------------------------------------------------------------------------
Continue(c) ==
  \/ Detect(c) \/ OpenBridge(c) \/ CommandPort(c) \/ ReportLineSpeed(c)
  \/ BindDoIp(c) \/ StoreDoIp(c)

Next ==
  \/ \E c \in Callers :
       \/ StartHardware(c) \/ StopHardware(c) \/ RequestLineSpeed(c)
       \/ StartDoIp(c) \/ StopDoIp(c)
       \/ Continue(c)
  \/ BridgeEnds
  \/ \E address \in Addresses : ServerEnds(address)

Spec == Init /\ [][Next]_vars

\* A handler that was called runs to its end, and an aborted task is dropped.
FairSpec ==
  /\ Spec
  /\ \A c \in Callers : WF_vars(Continue(c))
  /\ WF_vars(BridgeEnds)
  /\ \A address \in Addresses : WF_vars(ServerEnds(address))

-----------------------------------------------------------------------------
\* GET /hw/status and GET /doip/status say that the simulation is on a wire
\* only while a task that was not told to end serves it.
RunningMeansServed ==
  /\ optTask => bridge = "Alive" /\ Bridge \in holders
  /\ optHandle # Nothing => optHandle \in listening \ aborted

\* A link whose speed was detected is one the adapter hears, unless a command
\* moved it since: neither a port that somebody else held meanwhile, nor an
\* adapter that answers late, nor the noise of a wrong speed makes a bridge
\* that talks to nobody.
DetectedLinkIsHeard ==
  bridge = "Alive" /\ link.source = "Detected" /\ ~moved => Hears(link.rate)

\* Every call is answered, and gives back the lock and the port it took.
CallsEnd == \A c \in Callers : ~IsFree(c) ~> IsFree(c) /\ c \notin holders

\* The comment at RevertLineSpeed (probe.rs:382): the command that puts an
\* adapter back is sent at the speed it was asked to move to, because that is
\* where it is if it moved.
RevertReachesTheMovedAdapter ==
  \A c \in Callers :
    work[c].at = "Reverting" /\ work[c].k = 1 /\ moved /\ speed = work[c].target
      => \E k \in 1 .. 2 : Hears(RevertRates(c)[k])

=============================================================================
