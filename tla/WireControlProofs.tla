-------------------------- MODULE WireControlProofs --------------------------
(***************************************************************************)
(* What holds of the serial bridge and the DoIP server, however many calls *)
(* start, stop and re-clock them at the same time.                         *)
(***************************************************************************)
EXTENDS WireControl, SequenceTheorems, TLAPS

-----------------------------------------------------------------------------
(***************************************************************************)
(* Handles stand for what serves                                           *)
(***************************************************************************)
\* The bridge that is reported is alive and has its port.
BridgeInv ==
  /\ bridge \in {"None", "Alive", "Aborted"}
  /\ optTask <=> bridge = "Alive"
  /\ bridge = "Alive" => Bridge \in holders

\* A server that was bound and is not yet stored belongs to the call that
\* bound it: no other call, and no stored handle, stands for it.
ServerInv ==
  /\ starting \in [Callers -> [at : {"Idle", "Binding", "Storing"},
                               address : Addresses \cup {Nothing}]]
  /\ \A c \in Callers : starting[c].at # "Idle" => starting[c].address \in Addresses
  /\ aborted \subseteq listening
  /\ optHandle # Nothing => optHandle \in listening \ aborted
  /\ \A c \in Callers : starting[c].at = "Storing" =>
       starting[c].address \in listening \ aborted /\ starting[c].address # optHandle
  /\ \A c, d \in Callers :
       c # d /\ starting[c].at = "Storing" /\ starting[d].at = "Storing" =>
         starting[c].address # starting[d].address

\* A worker takes and gives back the port for itself, never for the bridge.
LEMMA WorkersLeaveTheBridgeItsPort ==
  ASSUME NEW c \in Callers, ProbeStep(c) \/ CommandStep(c)
  PROVE  Bridge \in holders => Bridge \in holders'
<1>1. c # Bridge
  BY ProbeAssumption, WireAssumption
<1>2. ProbeOpen(c) \/ CommandOpen(c) => holders' \in {holders, holders \cup {c}}
  <2>1. ASSUME ProbeOpen(c) PROVE \E opened : holders' = IF opened = "Uart" THEN holders \cup {c} ELSE holders
    BY <2>1, Zenon DEF ProbeOpen
  <2>2. ASSUME CommandOpen(c) PROVE \E opened : holders' = IF opened = "Uart" THEN holders \cup {c} ELSE holders
    BY <2>2, Zenon DEF CommandOpen
  <2>3. QED
    BY <2>1, <2>2
<1>3. CommandReopen(c) => holders' \in {holders, holders \cup {c}}
  <2>1. ASSUME CommandReopen(c) PROVE \E opened : holders' = IF opened = "Error" THEN holders ELSE holders \cup {c}
    BY <2>1, Zenon DEF CommandReopen
  <2>2. QED
    BY <2>1
<1>4. ProbeAsk(c) \/ CommandSend(c) \/ CommandVerify(c) => holders' = holders \ {c}
  BY Zenon DEF ProbeAsk, CommandSend, CommandVerify
<1>5. RevertStep(c) => holders' = holders
  BY DEF RevertStep
<1>6. holders' \in {holders, holders \cup {c}, holders \ {c}}
  BY <1>2, <1>3, <1>4, <1>5 DEF ProbeStep, CommandStep
<1>7. QED
  BY <1>1, <1>6

\* Every step keeps the bridge and what is reported of it together.
LEMMA StepsKeepTheBridge ==
  ASSUME BridgeInv, [Next]_vars
  PROVE  BridgeInv'
<1>1. ASSUME NEW c \in Callers, StartHardware(c) \/ StopHardware(c) \/ RequestLineSpeed(c)
      PROVE  BridgeInv'
  <2>1. StartHardware(c) => UNCHANGED <<holders, optTask, bridge>>
    BY Zenon DEF StartHardware
  <2>2. RequestLineSpeed(c) => UNCHANGED <<holders, optTask, bridge>>
    BY Zenon DEF RequestLineSpeed, hardwareVars
  <2>3. StopHardware(c) => bridge' = "Aborted" /\ optTask' = FALSE
    BY DEF StopHardware
  <2>4. QED
    BY <1>1, <2>1, <2>2, <2>3 DEF BridgeInv
<1>2. ASSUME NEW c \in Callers, StartDoIp(c) \/ StopDoIp(c) \/ BindDoIp(c) \/ StoreDoIp(c)
      PROVE  BridgeInv'
  BY <1>2 DEF BridgeInv, StartDoIp, StopDoIp, BindDoIp, StoreDoIp, hardwareVars, probeVars
<1>3. ASSUME NEW c \in Callers, Detect(c) \/ CommandPort(c)
      PROVE  BridgeInv'
  <2>1. UNCHANGED <<optTask, bridge>>
    BY <1>3 DEF Detect, CommandPort
  <2>2. Bridge \in holders => Bridge \in holders'
    BY <1>3, WorkersLeaveTheBridgeItsPort DEF Detect, CommandPort
  <2>3. QED
    BY <2>1, <2>2 DEF BridgeInv
<1>4. ASSUME NEW c \in Callers, OpenBridge(c)
      PROVE  BridgeInv'
  <2>1. \/ UNCHANGED <<holders, optTask, bridge>>
        \/ holders' = holders \cup {Bridge} /\ optTask' = TRUE /\ bridge' = "Alive"
    BY <1>4 DEF OpenBridge
  <2>2. QED
    BY <2>1 DEF BridgeInv
<1>5. ASSUME NEW c \in Callers, ReportLineSpeed(c)
      PROVE  BridgeInv'
  BY <1>5 DEF BridgeInv, ReportLineSpeed, hardwareVars
<1>6. CASE BridgeEnds
  BY <1>6 DEF BridgeInv, BridgeEnds
<1>7. ASSUME NEW address \in Addresses, ServerEnds(address)
      PROVE  BridgeInv'
  BY <1>7 DEF BridgeInv, ServerEnds, hardwareVars, probeVars
<1>8. CASE UNCHANGED vars
  BY <1>8 DEF BridgeInv, vars, hardwareVars, probeVars
<1>9. QED
  BY <1>1, <1>2, <1>3, <1>4, <1>5, <1>6, <1>7, <1>8 DEF Next, Continue

\* Binding and storing keep the servers of different calls apart.
LEMMA StartsKeepTheServers ==
  ASSUME ServerInv, NEW c \in Callers, StartDoIp(c) \/ BindDoIp(c) \/ StoreDoIp(c)
  PROVE  ServerInv'
<1>1. CASE StartDoIp(c)
  <2>1. PICK address \in Addresses :
          starting' = [starting EXCEPT ![c] = [at |-> "Binding", address |-> address]]
    BY <1>1 DEF StartDoIp
  <2>2. UNCHANGED <<optHandle, listening, aborted>>
    BY <1>1 DEF StartDoIp
  <2>3. QED
    BY <2>1, <2>2 DEF ServerInv
<1>2. CASE BindDoIp(c)
  <2>1. UNCHANGED <<optHandle, aborted>> /\ starting[c].at = "Binding"
    BY <1>2 DEF BindDoIp
  <2>2. CASE starting[c].address \in listening
    <3>1. starting' = [starting EXCEPT ![c] = NotStarting] /\ listening' = listening
      BY <1>2, <2>2 DEF BindDoIp
    <3>2. QED
      BY <2>1, <3>1 DEF ServerInv, NotStarting
  <2>3. CASE starting[c].address \notin listening
    <3>1. /\ starting' = [starting EXCEPT ![c].at = "Storing"]
          /\ listening' = listening \cup {starting[c].address}
      BY <1>2, <2>3 DEF BindDoIp
    <3>2. /\ starting'[c] = [at |-> "Storing", address |-> starting[c].address]
          /\ \A d \in Callers \ {c} : starting'[d] = starting[d]
          /\ starting' \in [Callers -> [at : {"Idle", "Binding", "Storing"},
                                        address : Addresses \cup {Nothing}]]
      BY <3>1 DEF ServerInv
    <3>3. /\ optHandle # Nothing => starting[c].address # optHandle
          /\ starting[c].address \notin aborted
          /\ \A d \in Callers : starting[d].at = "Storing" =>
               starting[d].address # starting[c].address
      BY <2>3 DEF ServerInv
    <3>4. starting[c].address # optHandle
      BY <2>1, <3>3, WireAssumption DEF ServerInv
    <3>5. QED
      BY <2>1, <2>3, <3>1, <3>2, <3>3, <3>4 DEF ServerInv
  <2>4. QED
    BY <2>2, <2>3
<1>3. CASE StoreDoIp(c)
  <2>1. /\ starting[c].at = "Storing" /\ optHandle' = starting[c].address
        /\ starting' = [starting EXCEPT ![c] = NotStarting]
        /\ UNCHANGED <<listening, aborted>>
    BY <1>3 DEF StoreDoIp
  <2>2. QED
    BY <2>1 DEF ServerInv, NotStarting
<1>4. QED
  BY <1>1, <1>2, <1>3

\* Stopping takes away the stored server only, and a server that is gone was
\* nobody's.
LEMMA StopsKeepTheServers ==
  ASSUME ServerInv,
         \/ \E c \in Callers : StopDoIp(c)
         \/ \E address \in Addresses : ServerEnds(address)
  PROVE  ServerInv'
<1>1. ASSUME NEW c \in Callers, StopDoIp(c) PROVE ServerInv'
  <2>1. /\ optHandle # Nothing /\ optHandle' = Nothing
        /\ aborted' = aborted \cup {optHandle}
        /\ UNCHANGED <<listening, starting>>
    BY <1>1 DEF StopDoIp
  <2>2. \A d \in Callers : starting[d].at = "Storing" => starting[d].address # Nothing
    BY WireAssumption DEF ServerInv
  <2>3. QED
    BY <2>1, <2>2 DEF ServerInv
<1>2. ASSUME NEW address \in Addresses, ServerEnds(address) PROVE ServerInv'
  BY <1>2 DEF ServerEnds, ServerInv
<1>3. QED
  BY <1>1, <1>2

\* What the handlers of the serial bridge do is no matter of the DoIP servers.
LEMMA HardwareLeavesTheServers ==
  ASSUME NEW c \in Callers,
         \/ StartHardware(c) \/ StopHardware(c) \/ RequestLineSpeed(c) \/ Detect(c)
         \/ OpenBridge(c) \/ CommandPort(c) \/ ReportLineSpeed(c)
  PROVE  UNCHANGED doipVars
<1>1. StartHardware(c) => UNCHANGED doipVars
  BY Zenon DEF StartHardware
<1>2. RequestLineSpeed(c) => UNCHANGED doipVars
  BY Zenon DEF RequestLineSpeed
<1>3. OpenBridge(c) => UNCHANGED doipVars
  BY Zenon DEF OpenBridge
<1>4. QED
  BY <1>1, <1>2, <1>3 DEF StopHardware, Detect, CommandPort, ReportLineSpeed

\* Every step keeps each bound server with one call or one handle.
LEMMA StepsKeepTheServers ==
  ASSUME ServerInv, [Next]_vars
  PROVE  ServerInv'
<1>1. CASE UNCHANGED doipVars
  BY <1>1 DEF doipVars, ServerInv
<1>2. BridgeEnds => UNCHANGED doipVars
  BY DEF BridgeEnds
<1>3. UNCHANGED vars => UNCHANGED doipVars
  BY DEF vars
<1>4. QED
  BY <1>1, <1>2, <1>3, StartsKeepTheServers, StopsKeepTheServers, HardwareLeavesTheServers
     DEF Next, Continue

\* For any number of simultaneous calls and any adapter: the bridge that is
\* reported runs and has the port, and the DoIP server that is reported is
\* bound and was not told to end.
THEOREM ReportedIsServed == Spec => []RunningMeansServed
<1>1. Init => BridgeInv /\ ServerInv
  BY DEF Init, BridgeInv, ServerInv, NotStarting
<1>2. BridgeInv /\ ServerInv /\ [Next]_vars => (BridgeInv /\ ServerInv)'
  BY StepsKeepTheBridge, StepsKeepTheServers
<1>3. BridgeInv /\ ServerInv => RunningMeansServed
  BY DEF BridgeInv, ServerInv, RunningMeansServed
<1>4. QED
  BY <1>1, <1>2, <1>3, PTL DEF Spec

-----------------------------------------------------------------------------
(***************************************************************************)
(* A detected link is heard                                                *)
(***************************************************************************)
Worker ==
  [at : {"Idle", "Probing", "Asking", "Opening", "Commanding", "Sending", "Settling",
         "Verifying", "Reverting", "Concluded"},
   for : {"Nothing", "Bridge", "Command"}, k : Nat, rate : Rates, source : Sources,
   target : Rates, verdict : Verdicts \cup {"None"}]

\* A worker that probes is at one of the candidates.
IsAtCandidate(w) == w.at \in {"Probing", "Asking"} => w.k \in 1 .. Len(Candidates)

WorkInv ==
  /\ work \in [Callers -> Worker]
  /\ \A c \in Callers : IsAtCandidate(work[c])

\* Only a call that starts the bridge opens its port, and with a speed that was
\* heard when it was detected.
HeardSinceDetected(w) ==
  w.at = "Opening" =>
    w.for = "Bridge" /\ (w.source = "Detected" /\ ~moved => Hears(w.rate))

\* The lock is held by the one call that is about to start the bridge, and there
\* is no bridge as long as it is.
StartsAlone(c) ==
  work[c].at \in {"Probing", "Asking", "Opening"} /\ work[c].for = "Bridge"
    => hardwareLock = c

LinkInv ==
  /\ WorkInv /\ moved \in BOOLEAN
  /\ hardwareLock # Nothing => ~optTask
  /\ \A c \in Callers : StartsAlone(c) /\ HeardSinceDetected(work[c])
  /\ DetectedLinkIsHeard

\* What a worker can be after one step of the probe, or of commanding a speed.
ProbeResult(c, w) ==
  /\ w \in Worker /\ IsAtCandidate(w)
  /\ w.for = work[c].for /\ work[c].at \in {"Probing", "Asking"}
  /\ w.at \in {"Probing", "Asking", "Opening", "Commanding"}
  /\ w.at = "Opening" => w.for = "Bridge" /\ (w.source = "Detected" => Hears(w.rate))

CommandResult(w) ==
  w \in Worker /\ w.at \in {"Sending", "Settling", "Verifying", "Reverting", "Concluded"}

\* The rates there are to talk about.
LEMMA RatesThereAre ==
  /\ Fallback \in Rates /\ Commandable \subseteq Rates
  /\ Len(Candidates) \in Nat \ {0}
  /\ \A k \in 1 .. Len(Candidates) : Candidates[k] \in Rates
BY ProbeAssumption, LenProperties, EmptySeq DEF Rates

\* An idle worker, and one that sets out to probe.
LEMMA NewWorkers ==
  /\ Idle \in Worker /\ Idle.at = "Idle" /\ Idle.source = "Requested"
  /\ \A for \in {"Bridge", "Command"} :
       /\ Probing(for) \in Worker /\ IsAtCandidate(Probing(for))
       /\ Probing(for).at = "Probing" /\ Probing(for).source = "Requested"
       /\ Probing(for).for = for
<1>1. Idle \in Worker /\ Idle.at = "Idle" /\ Idle.source = "Requested" /\ Idle.k = 1
  BY RatesThereAre DEF Idle, Worker, Sources
<1>2. ASSUME NEW for \in {"Bridge", "Command"}
      PROVE  /\ Probing(for) \in Worker /\ IsAtCandidate(Probing(for))
             /\ Probing(for).at = "Probing" /\ Probing(for).source = "Requested"
             /\ Probing(for).for = for
  <2>1. /\ Probing(for) \in Worker
        /\ Probing(for).at = "Probing" /\ Probing(for).source = "Requested"
        /\ Probing(for).for = for /\ Probing(for).k = 1
    BY <1>1 DEF Probing, Worker
  <2>2. QED
    BY <2>1, RatesThereAre DEF IsAtCandidate
<1>3. QED
  BY <1>1, <1>2

\* What the probe goes on with once it knows a speed.
LEMMA FoundIsAResult ==
  ASSUME WorkInv, NEW c \in Callers, work[c].at \in {"Probing", "Asking"},
         NEW rate \in Rates, NEW source \in Sources, source = "Detected" => Hears(rate)
  PROVE  ProbeResult(c, Found(c, rate, source))
<1>1. work[c] \in Worker
  BY DEF WorkInv
<1> DEFINE at == IF work[c].for = "Bridge" THEN "Opening" ELSE "Commanding"
           w == [work[c] EXCEPT !.rate = rate, !.source = source, !.k = 1, !.at = at]
<1>2. Found(c, rate, source) = w
  BY DEF Found
<1>3. at \in {"Opening", "Commanding"} /\ (at = "Opening" => work[c].for = "Bridge")
  OBVIOUS
<1> HIDE DEF at
<1>4. /\ w \in Worker /\ w.at = at /\ w.for = work[c].for
      /\ w.source = source /\ w.rate = rate
  BY <1>1, <1>3 DEF Worker
<1> HIDE DEF w
<1>5. ProbeResult(c, w)
  BY <1>3, <1>4 DEF ProbeResult, IsAtCandidate
<1>6. QED
  BY <1>2, <1>5

\* The next candidate, or the fallback after the last one.
LEMMA NextCandidateIsAResult ==
  ASSUME WorkInv, NEW c \in Callers, work[c].at \in {"Probing", "Asking"}
  PROVE  ProbeResult(c, NextCandidate(c))
<1>1. work[c] \in Worker /\ work[c].k \in 1 .. Len(Candidates)
  BY DEF WorkInv, IsAtCandidate
<1>2. CASE work[c].k = Len(Candidates)
  BY <1>2, FoundIsAResult, RatesThereAre DEF NextCandidate, Sources
<1>3. CASE work[c].k # Len(Candidates)
  <2> DEFINE w == [at |-> "Probing", for |-> work[c].for, k |-> work[c].k + 1,
                   rate |-> work[c].rate, source |-> work[c].source,
                   target |-> work[c].target, verdict |-> work[c].verdict]
  <2>1. NextCandidate(c) = w
    BY <1>1, <1>3 DEF NextCandidate, Worker
  <2>2. work[c].k + 1 \in Nat /\ work[c].k + 1 \in 1 .. Len(Candidates)
    BY <1>1, <1>3, RatesThereAre
  <2>3. ProbeResult(c, w)
    BY <1>1, <2>2 DEF ProbeResult, IsAtCandidate, Worker
  <2>4. QED
    BY <2>1, <2>3
<1>4. QED
  BY <1>2, <1>3

\* A step of the probe moves one worker, and says "detected" only of a speed it
\* has just heard.
LEMMA ProbingResults ==
  ASSUME WorkInv, NEW c \in Callers, ProbeStep(c)
  PROVE  /\ speed' = speed
         /\ \E w : ProbeResult(c, w) /\ work' = [work EXCEPT ![c] = w]
<1>1. work[c] \in Worker /\ IsAtCandidate(work[c])
  BY DEF WorkInv
<1>2. CASE ProbeOpen(c)
  <2>1. PICK opened \in OpenPort(Candidates[work[c].k]) :
          work' = [work EXCEPT ![c] =
            CASE opened = "Error" -> NextCandidate(c)
              [] opened = "Virtual" -> Found(c, Fallback, "NoRealSerialLine")
              [] opened = "Uart" -> [work[c] EXCEPT !.at = "Asking"]]
    BY <1>2, Zenon DEF ProbeOpen
  <2>2. work[c].at = "Probing" /\ speed' = speed
    BY <1>2, Zenon DEF ProbeOpen
  <2>3. opened \in {"Error", "Virtual", "Uart"}
    BY DEF OpenPort, OpenedAs
  <2>4. CASE opened = "Error"
    BY <2>1, <2>2, <2>4, NextCandidateIsAResult
  <2>5. CASE opened = "Virtual"
    <3>1. ProbeResult(c, Found(c, Fallback, "NoRealSerialLine"))
      BY <2>2, FoundIsAResult, RatesThereAre DEF Sources
    <3>2. QED
      BY <2>1, <2>2, <2>5, <3>1
  <2>6. CASE opened = "Uart"
    <3> DEFINE w == [work[c] EXCEPT !.at = "Asking"]
    <3>1. w = [at |-> "Asking", for |-> work[c].for, k |-> work[c].k,
               rate |-> work[c].rate, source |-> work[c].source,
               target |-> work[c].target, verdict |-> work[c].verdict]
      BY <1>1 DEF Worker
    <3>2. ProbeResult(c, w)
      BY <1>1, <2>2, <3>1 DEF ProbeResult, IsAtCandidate, Worker
    <3>3. QED
      BY <2>1, <2>2, <2>6, <3>2
  <2>7. QED
    BY <2>3, <2>4, <2>5, <2>6
<1>3. CASE ProbeAsk(c)
  <2> DEFINE rate == Candidates[work[c].k]
  <2>1. work[c].at = "Asking" /\ speed' = speed
    BY <1>3, Zenon DEF ProbeAsk
  <2>2. PICK answered \in Answers(rate) :
          work' = [work EXCEPT ![c] =
            IF answered THEN Found(c, rate, "Detected") ELSE NextCandidate(c)]
    BY <1>3, Zenon DEF ProbeAsk
  <2>3. rate \in Rates
    BY <1>1, <2>1, RatesThereAre DEF IsAtCandidate
  <2>4. CASE answered
    <3>1. Hears(rate)
      BY <2>2, <2>4 DEF Answers
    <3>2. ProbeResult(c, Found(c, rate, "Detected"))
      BY <2>1, <2>3, <3>1, FoundIsAResult DEF Sources
    <3>3. QED
      BY <2>1, <2>2, <2>4, <3>2
  <2>5. CASE ~answered
    BY <2>1, <2>2, <2>5, NextCandidateIsAResult
  <2>6. QED
    BY <2>4, <2>5
<1>4. QED
  BY <1>2, <1>3 DEF ProbeStep

\* A step of the command moves one worker, which opens no bridge.
LEMMA CommandingResults ==
  ASSUME WorkInv, NEW c \in Callers, CommandStep(c)
  PROVE  \E w : CommandResult(w) /\ work' = [work EXCEPT ![c] = w]
<1>1. work[c] \in Worker
  BY DEF WorkInv
<1>2. \A verdict \in Verdicts : CommandResult(Concluded(c, verdict))
  BY <1>1 DEF CommandResult, Concluded, Worker
<1>3. \A at \in {"Sending", "Settling", "Verifying", "Reverting"} :
        CommandResult([work[c] EXCEPT !.at = at])
  BY <1>1 DEF CommandResult, Worker
<1>4. /\ CommandResult([work[c] EXCEPT !.at = "Reverting", !.k = 1])
      /\ work[c].at = "Reverting" => CommandResult([work[c] EXCEPT !.k = 2])
  <2>1. CommandResult([work[c] EXCEPT !.at = "Reverting", !.k = 1])
    BY <1>1 DEF CommandResult, Worker
  <2>2. work[c].at = "Reverting" => CommandResult([work[c] EXCEPT !.k = 2])
    BY <1>1 DEF CommandResult, Worker
  <2>3. QED
    BY <2>1, <2>2
<1>5. CASE CommandOpen(c)
  <2>1. PICK opened \in OpenPort(work[c].rate) :
          work' = [work EXCEPT ![c] =
            CASE opened = "Error" -> Concluded(c, "NotConfirmed")
              [] opened = "Virtual" -> Concluded(c, "NoRealSerialLine")
              [] opened = "Uart" -> [work[c] EXCEPT !.at = "Sending"]]
    BY <1>5, Zenon DEF CommandOpen
  <2>2. opened \in {"Error", "Virtual", "Uart"}
    BY DEF OpenPort, OpenedAs
  <2>3. QED
    BY <1>2, <1>3, <2>1, <2>2 DEF Verdicts
<1>6. CASE CommandSend(c)
  <2>1. PICK reply : work' = [work EXCEPT ![c] =
          IF reply = "Bell" THEN Concluded(c, "Refused") ELSE [@ EXCEPT !.at = "Settling"]]
    BY <1>6, Zenon DEF CommandSend
  <2>2. \/ work' = [work EXCEPT ![c] = Concluded(c, "Refused")]
        \/ work' = [work EXCEPT ![c] = [work[c] EXCEPT !.at = "Settling"]]
    BY <2>1 DEF WorkInv
  <2>3. QED
    BY <1>2, <1>3, <2>2 DEF Verdicts
<1>7. CASE CommandReopen(c)
  <2>1. PICK opened : work' = [work EXCEPT ![c] =
          IF opened = "Error" THEN Concluded(c, "NotConfirmed")
                              ELSE [@ EXCEPT !.at = "Verifying"]]
    BY <1>7, Zenon DEF CommandReopen
  <2>2. QED
    BY <1>2, <1>3, <2>1 DEF Verdicts, WorkInv
<1>8. CASE CommandVerify(c)
  <2>1. PICK answered \in Answers(work[c].target) :
          work' = [work EXCEPT ![c] =
            CASE answered -> Concluded(c, "Confirmed")
              [] ~answered /\ work[c].rate \in Commandable ->
                   [@ EXCEPT !.at = "Reverting", !.k = 1]
              [] OTHER -> Concluded(c, "NotConfirmed")]
    BY <1>8, Zenon DEF CommandVerify
  <2>2. CASE answered
    BY <1>2, <2>1, <2>2 DEF Verdicts
  <2>3. CASE ~answered /\ work[c].rate \in Commandable
    BY <1>4, <2>1, <2>3 DEF WorkInv
  <2>4. CASE ~answered /\ work[c].rate \notin Commandable
    BY <1>2, <2>1, <2>4 DEF Verdicts
  <2>5. QED
    BY <2>2, <2>3, <2>4
<1>9. CASE RevertStep(c)
  <2>1. /\ work[c].at = "Reverting"
        /\ work' = [work EXCEPT ![c] =
             IF work[c].k = 2 THEN Concluded(c, "NotConfirmed") ELSE [@ EXCEPT !.k = 2]]
    BY <1>9, Zenon DEF RevertStep
  <2>2. QED
    BY <1>2, <1>4, <2>1 DEF Verdicts, WorkInv
<1>10. QED
  BY <1>5, <1>6, <1>7, <1>8, <1>9 DEF CommandStep

\* A step in which one worker moves on keeps what is known of the others, as long
\* as the speed is the same or known to have moved.  Only the call that holds the
\* lock may forget that it moved, as no other opens a port and no bridge is alive.
LEMMA OneWorkerKeeps ==
  ASSUME LinkInv, NEW c \in Callers, NEW w \in Worker, IsAtCandidate(w),
         work' = [work EXCEPT ![c] = w],
         UNCHANGED <<optTask, bridge, link>>,
         moved' \in BOOLEAN, moved' \/ speed' = speed,
         (moved => moved') \/ (hardwareLock = c /\ bridge # "Alive"),
         hardwareLock' = hardwareLock \/ hardwareLock = Nothing,
         hardwareLock' # Nothing => ~optTask,
         w.at \in {"Probing", "Asking", "Opening"} /\ w.for = "Bridge" => hardwareLock' = c,
         w.at = "Opening" =>
           w.for = "Bridge" /\ (w.source = "Detected" /\ ~moved' => speed' = w.rate)
  PROVE  LinkInv'
<1>1. work \in [Callers -> Worker] /\ moved \in BOOLEAN
  BY DEF LinkInv, WorkInv
<1>2. work' \in [Callers -> Worker] /\ work'[c] = w
      /\ \A d \in Callers \ {c} : work'[d] = work[d]
  BY <1>1
<1>3. WorkInv'
  BY <1>2 DEF LinkInv, WorkInv, IsAtCandidate
<1>4. \A d \in Callers : hardwareLock = d => hardwareLock' = d
  BY WireAssumption
<1>5. ASSUME NEW d \in Callers \ {c} PROVE StartsAlone(d)' /\ HeardSinceDetected(work[d])'
  BY <1>2, <1>4 DEF LinkInv, StartsAlone, HeardSinceDetected, Hears
<1>6. StartsAlone(c)' /\ HeardSinceDetected(work[c])'
  BY <1>2 DEF StartsAlone, HeardSinceDetected, Hears
<1>7. DetectedLinkIsHeard'
  BY DEF LinkInv, DetectedLinkIsHeard, Hears
<1>8. QED
  BY <1>3, <1>5, <1>6, <1>7 DEF LinkInv

\* Every step keeps what is known of the link.
LEMMA StepsKeepTheLink ==
  ASSUME LinkInv, BridgeInv, [Next]_vars
  PROVE  LinkInv'
<1>0. WorkInv /\ moved \in BOOLEAN /\ work \in [Callers -> Worker]
  BY DEF LinkInv, WorkInv
<1>1. ASSUME NEW c \in Callers, StartHardware(c) PROVE LinkInv'
  <2>1. /\ hardwareLock = Nothing /\ ~optTask /\ hardwareLock' = c
        /\ UNCHANGED <<speed, optTask, bridge, link, moved>>
    BY <1>1, Zenon DEF StartHardware
  <2>2. \/ work' = [work EXCEPT ![c] = Probing("Bridge")]
        \/ \E rate \in Rates :
             work' = [work EXCEPT ![c] = [Probing("Bridge") EXCEPT !.at = "Opening", !.rate = rate]]
    BY <1>1, Zenon DEF StartHardware
  <2>3. CASE work' = [work EXCEPT ![c] = Probing("Bridge")]
    BY <1>0, <2>1, <2>3, NewWorkers, OneWorkerKeeps
  <2>4. ASSUME NEW rate \in Rates,
               work' = [work EXCEPT ![c] = [Probing("Bridge") EXCEPT !.at = "Opening", !.rate = rate]]
        PROVE  LinkInv'
    <3> DEFINE w == [Probing("Bridge") EXCEPT !.at = "Opening", !.rate = rate]
    <3>1. /\ w \in Worker /\ w.at = "Opening" /\ w.for = "Bridge"
          /\ w.source = "Requested"
      BY NewWorkers DEF Worker
    <3>2. work' = [work EXCEPT ![c] = w]
      BY <2>4
    <3> HIDE DEF w
    <3>3. IsAtCandidate(w)
      BY <3>1 DEF IsAtCandidate
    <3>4. QED
      BY <1>0, <2>1, <3>1, <3>2, <3>3, OneWorkerKeeps
  <2>5. QED
    BY <2>2, <2>3, <2>4
<1>2. ASSUME NEW c \in Callers, Detect(c) PROVE LinkInv'
  <2>1. /\ ProbeStep(c)
        /\ moved' = IF work'[c].at = "Opening" THEN FALSE ELSE moved
        /\ UNCHANGED <<hardwareLock, optTask, bridge, link>>
    BY <1>2 DEF Detect
  <2>2. PICK w : ProbeResult(c, w) /\ work' = [work EXCEPT ![c] = w]
    BY <1>0, <2>1, ProbingResults
  <2>3. speed' = speed
    BY <1>0, <2>1, ProbingResults
  <2>4. work'[c] = w
    BY <1>0, <2>2
  <2>5. w.for = "Bridge" /\ w.at \in {"Probing", "Asking", "Opening"} => hardwareLock = c
    BY <2>2 DEF ProbeResult, LinkInv, StartsAlone
  <2>6. w.at = "Opening" => hardwareLock = c /\ bridge # "Alive"
    BY <2>2, <2>5, WireAssumption DEF ProbeResult, LinkInv, BridgeInv
  <2>7. /\ w \in Worker /\ IsAtCandidate(w)
        /\ w.at = "Opening" => w.for = "Bridge" /\ (w.source = "Detected" => speed' = w.rate)
    BY <2>2, <2>3 DEF ProbeResult, Hears
  <2>8. /\ moved' \in BOOLEAN /\ (moved' \/ speed' = speed)
        /\ (moved => moved') \/ (hardwareLock = c /\ bridge # "Alive")
        /\ hardwareLock' # Nothing => ~optTask
    BY <1>0, <2>1, <2>3, <2>4, <2>6 DEF LinkInv
  <2>9. QED
    BY <2>1, <2>2, <2>5, <2>7, <2>8, OneWorkerKeeps
<1>3. ASSUME NEW c \in Callers, CommandPort(c) PROVE LinkInv'
  <2>1. /\ CommandStep(c)
        /\ moved' = (moved \/ speed' # speed)
        /\ UNCHANGED <<hardwareLock, optTask, bridge, link>>
    BY <1>3 DEF CommandPort
  <2>2. PICK w : CommandResult(w) /\ work' = [work EXCEPT ![c] = w]
    BY <1>0, <2>1, CommandingResults
  <2>3. w \in Worker /\ w.at \notin {"Probing", "Asking", "Opening"} /\ IsAtCandidate(w)
    BY <2>2 DEF CommandResult, IsAtCandidate
  <2>4. moved' \in BOOLEAN /\ (moved' \/ speed' = speed) /\ (moved => moved')
        /\ (hardwareLock' # Nothing => ~optTask)
    BY <1>0, <2>1 DEF LinkInv
  <2>5. QED
    BY <2>1, <2>2, <2>3, <2>4, OneWorkerKeeps
<1>4. ASSUME NEW c \in Callers, RequestLineSpeed(c) PROVE LinkInv'
  <2>1. UNCHANGED <<speed, hardwareLock, optTask, bridge, link, moved>>
    BY <1>4, Zenon DEF RequestLineSpeed, hardwareVars
  <2>2. PICK target \in Commandable :
          \/ work' = [work EXCEPT ![c] = [Probing("Command") EXCEPT !.target = target]]
          \/ \E rate \in Rates :
               work' = [work EXCEPT ![c] =
                 [Probing("Command") EXCEPT !.at = "Commanding", !.rate = rate, !.target = target]]
    BY <1>4, Zenon DEF RequestLineSpeed
  <2>3. target \in Rates
    BY RatesThereAre
  <2>4. ASSUME NEW w \in Worker, IsAtCandidate(w), w.for = "Command", w.at # "Opening",
               work' = [work EXCEPT ![c] = w]
        PROVE  LinkInv'
    <3>1. hardwareLock' # Nothing => ~optTask
      BY <2>1 DEF LinkInv
    <3>2. QED
      BY <1>0, <2>1, <2>4, <3>1, OneWorkerKeeps
  <2>5. CASE work' = [work EXCEPT ![c] = [Probing("Command") EXCEPT !.target = target]]
    <3> DEFINE w == [Probing("Command") EXCEPT !.target = target]
    <3>1. /\ w \in Worker /\ w.for = "Command" /\ w.at = "Probing"
          /\ w.k = Probing("Command").k
      BY <2>3, NewWorkers DEF Worker
    <3>2. IsAtCandidate(w)
      BY <3>1, NewWorkers DEF IsAtCandidate
    <3>3. QED
      BY <2>4, <2>5, <3>1, <3>2
  <2>6. ASSUME NEW rate \in Rates,
               work' = [work EXCEPT ![c] =
                 [Probing("Command") EXCEPT !.at = "Commanding", !.rate = rate, !.target = target]]
        PROVE  LinkInv'
    <3> DEFINE w == [Probing("Command") EXCEPT !.at = "Commanding", !.rate = rate,
                                              !.target = target]
    <3>1. w \in Worker /\ w.for = "Command" /\ w.at = "Commanding"
      BY <2>3, NewWorkers DEF Worker
    <3>2. IsAtCandidate(w)
      BY <3>1 DEF IsAtCandidate
    <3>3. QED
      BY <2>4, <2>6, <3>1, <3>2
  <2>7. QED
    BY <2>2, <2>5, <2>6
<1>5. ASSUME NEW c \in Callers, ReportLineSpeed(c) PROVE LinkInv'
  <2>1. /\ work' = [work EXCEPT ![c] = Idle]
        /\ UNCHANGED <<speed, hardwareLock, optTask, bridge, link, moved>>
    BY <1>5 DEF ReportLineSpeed, hardwareVars
  <2>2. IsAtCandidate(Idle) /\ (hardwareLock' # Nothing => ~optTask)
    BY <2>1, NewWorkers DEF IsAtCandidate, LinkInv
  <2>3. QED
    BY <1>0, <2>1, <2>2, NewWorkers, OneWorkerKeeps
<1>6. ASSUME NEW c \in Callers, OpenBridge(c) PROVE LinkInv'
  <2>1. /\ work[c].at = "Opening" /\ work' = [work EXCEPT ![c] = Idle]
        /\ hardwareLock' = Nothing /\ UNCHANGED <<speed, moved>>
    BY <1>6, Zenon DEF OpenBridge
  <2>2. \/ UNCHANGED <<optTask, bridge, link>>
        \/ link'.rate = work[c].rate /\ link'.source = work[c].source
    BY <1>6 DEF OpenBridge
  <2>3. /\ work' \in [Callers -> Worker] /\ work'[c] = Idle
        /\ \A d \in Callers \ {c} : work'[d] = work[d]
    BY <1>0, <2>1, NewWorkers
  <2>4. work[c].for = "Bridge" /\ hardwareLock = c
        /\ (work[c].source = "Detected" /\ ~moved => Hears(work[c].rate))
    BY <2>1 DEF LinkInv, StartsAlone, HeardSinceDetected
  <2>5. WorkInv'
    BY <1>0, <2>3, NewWorkers DEF WorkInv, IsAtCandidate
  <2>6. ASSUME NEW d \in Callers PROVE StartsAlone(d)' /\ HeardSinceDetected(work[d])'
    BY <2>1, <2>3, <2>4, NewWorkers DEF LinkInv, StartsAlone, HeardSinceDetected, Hears
  <2>7. DetectedLinkIsHeard'
    BY <2>1, <2>2, <2>4 DEF LinkInv, DetectedLinkIsHeard, Hears
  <2>8. QED
    BY <1>0, <2>1, <2>5, <2>6, <2>7 DEF LinkInv
<1>7. ASSUME NEW c \in Callers, StopHardware(c) PROVE LinkInv'
  BY <1>7 DEF StopHardware, probeVars, LinkInv, WorkInv, StartsAlone,
              HeardSinceDetected, DetectedLinkIsHeard, Hears
<1>8. CASE BridgeEnds
  BY <1>8 DEF BridgeEnds, LinkInv, WorkInv, StartsAlone,
              HeardSinceDetected, DetectedLinkIsHeard, Hears
<1>9. CASE UNCHANGED <<probeVars, hardwareVars>>
  BY <1>9 DEF probeVars, hardwareVars, LinkInv, WorkInv, StartsAlone,
              HeardSinceDetected, DetectedLinkIsHeard, Hears
<1>10. ASSUME NEW c \in Callers, StartDoIp(c) \/ StopDoIp(c) \/ BindDoIp(c) \/ StoreDoIp(c)
       PROVE  UNCHANGED <<probeVars, hardwareVars>>
  BY <1>10 DEF StartDoIp, StopDoIp, BindDoIp, StoreDoIp
<1>11. ASSUME NEW address \in Addresses, ServerEnds(address)
       PROVE  UNCHANGED <<probeVars, hardwareVars>>
  BY <1>11 DEF ServerEnds
<1>12. UNCHANGED vars => UNCHANGED <<probeVars, hardwareVars>>
  BY DEF vars
<1>13. QED
  BY <1>1, <1>2, <1>3, <1>4, <1>5, <1>6, <1>7, <1>8, <1>9, <1>10, <1>11, <1>12
     DEF Next, Continue

\* What is reported of the bridge and what is known of its link hold together.
LEMMA LinkInvariant == Spec => [](BridgeInv /\ LinkInv)
<1>1. Init => BridgeInv /\ LinkInv
  <2> SUFFICES ASSUME Init PROVE BridgeInv /\ LinkInv
    OBVIOUS
  <2>1. BridgeInv
    BY DEF Init, BridgeInv
  <2>2. \A c \in Callers : work[c] = Idle
    BY WireAssumption DEF Init, ProbeInit
  <2>3. work \in [Callers -> Worker]
    BY WireAssumption, NewWorkers DEF Init, ProbeInit
  <2>4. LinkInv
    BY <2>2, <2>3, NewWorkers
       DEF Init, LinkInv, WorkInv, IsAtCandidate, StartsAlone, HeardSinceDetected,
           DetectedLinkIsHeard
  <2>5. QED
    BY <2>1, <2>4
<1>2. BridgeInv /\ LinkInv /\ [Next]_vars => (BridgeInv /\ LinkInv)'
  BY StepsKeepTheBridge, StepsKeepTheLink
<1>3. QED
  BY <1>1, <1>2, PTL DEF Spec

\* For any candidates, adapters and number of simultaneous calls, a bridge whose
\* speed was detected talks at the speed the adapter hears, until a command
\* moves the adapter.
THEOREM DetectedLinksAreHeard == Spec => []DetectedLinkIsHeard
<1>1. LinkInv => DetectedLinkIsHeard
  BY DEF LinkInv
<1>2. QED
  BY <1>1, LinkInvariant, PTL

\* A call that probes in order to start the bridge holds the lock of the hardware
\* state, and finds no bridge alive: no two calls start one, and none starts a
\* second beside the first.
OneStartAtATime ==
  \A c \in Callers :
    work[c].at \in {"Probing", "Asking", "Opening"} /\ work[c].for = "Bridge"
      => hardwareLock = c /\ bridge # "Alive"

\* However many calls /hw/start answers at the same time.
THEOREM StartsAreAlone == Spec => []OneStartAtATime
<1>1. BridgeInv /\ LinkInv => OneStartAtATime
  BY WireAssumption DEF BridgeInv, LinkInv, StartsAlone, OneStartAtATime
<1>2. QED
  BY <1>1, LinkInvariant, PTL

=============================================================================
