----------------------------- MODULE SerialProbe -----------------------------
(***************************************************************************)
(* bridge/src/probe.rs over serial-can and slcan: finding out at which     *)
(* line speed an adapter listens, and commanding it to another.  Both open *)
(* and close the port several times, and whoever else wants the port may   *)
(* come in between.                                                        *)
(*                                                                         *)
(* An adapter hears what is sent at the speed it runs at and nothing else; *)
(* whatever it says may come too late to be read.  Bytes are left out: a   *)
(* reply is well formed if and only if it was sent at the speed it is read. *)
(***************************************************************************)
EXTENDS Integers, Sequences

CONSTANTS
  Workers,           \* whoever opens the port: HTTP handlers
  Bridge,            \* the task of the bridge that runs
  Candidates,        \* c_arrCandidateBaudRates, fastest first
  Fallback,          \* c_u32FallbackBaudRate
  Commandable,       \* the speeds of SlcanLineSpeed, which U can select
  HostRates,         \* the rates the driver of the port can be set to
  Adapters           \* adapters there may be: the speeds the firmware offers, whether it
                     \* says what it is, and whether there is a UART at all

Rates == {Candidates[k] : k \in 1 .. Len(Candidates)} \cup Commandable \cup {Fallback}

ASSUME ProbeAssumption ==
  /\ Bridge \notin Workers
  /\ Candidates \in Seq(Nat) \ {<<>>}
  /\ Commandable \subseteq HostRates     \* standard speeds, which any driver knows
  /\ Adapters \subseteq
       [offers : SUBSET Commandable, identifies : BOOLEAN, uart : BOOLEAN]

VARIABLES
  adapter,           \* the adapter at the port
  speed,             \* the line speed the adapter runs at
  holders,           \* who holds the port open
  work               \* work[w]: where a worker is in what it does with the port

probeVars == <<adapter, speed, holders, work>>

Sources == {"Detected", "Requested", "NoAdapterReply", "NoRealSerialLine"}
Verdicts == {"Confirmed", "Refused", "NotConfirmed", "NoRealSerialLine"}

\* A worker: its step, for whom it probes, which candidate it is at, the speed
\* it talks at and how that was found, the speed it commands, and its result.
Idle ==
  [at |-> "Idle", for |-> "Nothing", k |-> 1, rate |-> Fallback, source |-> "Requested",
   target |-> Fallback, verdict |-> "None"]

ProbeInit ==
  /\ adapter \in Adapters
  /\ speed \in Rates
  /\ holders = {}
  /\ work = [w \in Workers |-> Idle]

-----------------------------------------------------------------------------
(***************************************************************************)
(* serial_can::OpenPort.  An open port is exclusive unless it is virtual.  *)
(* Whatever keeps a real port from opening as one, it is opened as a file; *)
(* a port that is unplugged or held by another cannot be opened at all.    *)
(***************************************************************************)
IsHeld == holders # {} /\ adapter.uart

OpenedAs(rate) ==
  IF adapter.uart /\ rate \in HostRates THEN "Uart" ELSE "Virtual"

OpenPort(rate) == {"Error"} \cup (IF IsHeld THEN {} ELSE {OpenedAs(rate)})

Hears(rate) == speed = rate

\* Mutated form of Answers: what a UART makes of the wrong speed will do.
AnswersAnything(rate) == BOOLEAN

\* FindVersionReply: a well-formed reply that came in time, or none.
Answers(rate) == IF Hears(rate) /\ adapter.identifies THEN BOOLEAN ELSE {FALSE}

-----------------------------------------------------------------------------
(***************************************************************************)
(* DetectSerialLinkSpeed                                                   *)
(***************************************************************************)
Probing(for) == [Idle EXCEPT !.at = "Probing", !.for = for]

\* What the worker goes on with once it knows a speed.
Found(w, rate, source) ==
  [work[w] EXCEPT !.rate = rate, !.source = source, !.k = 1,
                  !.at = IF work[w].for = "Bridge" THEN "Opening" ELSE "Commanding"]

\* Mutated form of NextCandidate: a port that does not open is tried again.
NextCandidateAgain(w) ==
  IF work[w].at = "Probing" THEN work[w]
  ELSE IF work[w].k = Len(Candidates) THEN Found(w, Fallback, "NoAdapterReply")
  ELSE [work[w] EXCEPT !.at = "Probing", !.k = @ + 1]

NextCandidate(w) ==
  IF work[w].k = Len(Candidates)
    THEN Found(w, Fallback, "NoAdapterReply")
    ELSE [work[w] EXCEPT !.at = "Probing", !.k = @ + 1]

ProbeOpen(w) ==
  /\ work[w].at = "Probing"
  /\ \E opened \in OpenPort(Candidates[work[w].k]) :
       /\ work' = [work EXCEPT ![w] =
            CASE opened = "Error" -> NextCandidate(w)
              [] opened = "Virtual" -> Found(w, Fallback, "NoRealSerialLine")
              [] opened = "Uart" -> [work[w] EXCEPT !.at = "Asking"]]
       /\ holders' = IF opened = "Uart" THEN holders \cup {w} ELSE holders
  /\ UNCHANGED <<adapter, speed>>

\* AskForVersion, and the port is closed again.
ProbeAsk(w) ==
  LET rate == Candidates[work[w].k]
  IN  /\ work[w].at = "Asking"
      /\ \E answered \in Answers(rate) :
           work' = [work EXCEPT ![w] =
             IF answered THEN Found(w, rate, "Detected") ELSE NextCandidate(w)]
      /\ holders' = holders \ {w}
      /\ UNCHANGED <<adapter, speed>>

-----------------------------------------------------------------------------
(***************************************************************************)
(* CommandLineSpeed                                                        *)
(***************************************************************************)
Concluded(w, verdict) ==
  [work[w] EXCEPT !.at = "Concluded", !.k = 1, !.verdict = verdict]

CommandOpen(w) ==
  /\ work[w].at = "Commanding"
  /\ \E opened \in OpenPort(work[w].rate) :
       /\ work' = [work EXCEPT ![w] =
            CASE opened = "Error" -> Concluded(w, "NotConfirmed")
              [] opened = "Virtual" -> Concluded(w, "NoRealSerialLine")
              [] opened = "Uart" -> [work[w] EXCEPT !.at = "Sending"]]
       /\ holders' = IF opened = "Uart" THEN holders \cup {w} ELSE holders
  /\ UNCHANGED <<adapter, speed>>

\* What the adapter says to U: an adapter that offers the speed acknowledges
\* and switches, another one refuses, and either may be too late.
Acknowledgements(rate, target) ==
  IF ~Hears(rate) THEN {"None"}
  ELSE IF target \in adapter.offers THEN {"Ack", "None"} ELSE {"Bell", "None"}

SpeedAfter(rate, target) ==
  IF Hears(rate) /\ target \in adapter.offers THEN target ELSE speed

\* LineSpeedCommand and its acknowledgement; the port is closed after either.
CommandSend(w) ==
  /\ work[w].at = "Sending"
  /\ speed' = SpeedAfter(work[w].rate, work[w].target)
  /\ \E reply \in Acknowledgements(work[w].rate, work[w].target) :
       work' = [work EXCEPT ![w] =
         IF reply = "Bell" THEN Concluded(w, "Refused") ELSE [@ EXCEPT !.at = "Settling"]]
  /\ holders' = holders \ {w}
  /\ UNCHANGED adapter

\* The port is opened anew at the speed that was commanded.
CommandReopen(w) ==
  /\ work[w].at = "Settling"
  /\ \E opened \in OpenPort(work[w].target) :
       /\ work' = [work EXCEPT ![w] =
            IF opened = "Error" THEN Concluded(w, "NotConfirmed")
                                ELSE [@ EXCEPT !.at = "Verifying"]]
       /\ holders' = IF opened = "Error" THEN holders ELSE holders \cup {w}
  /\ UNCHANGED <<adapter, speed>>

CommandVerify(w) ==
  /\ work[w].at = "Verifying"
  /\ \E answered \in Answers(work[w].target) :
       work' = [work EXCEPT ![w] =
         CASE answered -> Concluded(w, "Confirmed")
           [] ~answered /\ work[w].rate \in Commandable ->
                [@ EXCEPT !.at = "Reverting", !.k = 1]
           [] OTHER -> Concluded(w, "NotConfirmed")]
  /\ holders' = holders \ {w}
  /\ UNCHANGED <<adapter, speed>>

\* RevertLineSpeed: U for the original speed, at the fallback speed and then at
\* the original one.
RevertRates(w) == <<Fallback, work[w].rate>>

RevertsAt(w) == RevertRates(w)[work[w].k]

RevertStep(w) ==
  /\ work[w].at = "Reverting"
  /\ \E opened \in OpenPort(RevertsAt(w)) :
       speed' = IF opened = "Uart" THEN SpeedAfter(RevertsAt(w), work[w].rate) ELSE speed
  /\ work' = [work EXCEPT ![w] =
       IF work[w].k = 2 THEN Concluded(w, "NotConfirmed") ELSE [@ EXCEPT !.k = 2]]
  /\ UNCHANGED <<adapter, holders>>

ProbeStep(w) == ProbeOpen(w) \/ ProbeAsk(w)
CommandStep(w) ==
  CommandOpen(w) \/ CommandSend(w) \/ CommandReopen(w) \/ CommandVerify(w) \/ RevertStep(w)

\* EffectiveBaudRate: the speed the link is reported to be at.
EffectiveBaudRate(w) ==
  IF work[w].verdict = "Confirmed" THEN work[w].target ELSE work[w].rate

=============================================================================
