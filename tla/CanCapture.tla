----------------------------- MODULE CanCapture -----------------------------
(***************************************************************************)
(* A tester and ECUs on a CAN bus, and the capture of what they said, as   *)
(* CanCorrelation reads it.  ECUs are asked on identifiers that are paired *)
(* by convention, on a manufacturer's own, or by broadcast; exchanges      *)
(* overlap, answers are announced, requests stay unanswered and ordinary   *)
(* frames look like requests.                                              *)
(***************************************************************************)
EXTENDS CanCorrelation

CONSTANTS
  Ecus,              \* ECUs: request and response identifier, broadcasts heard
  Topics,            \* requests of a tester, values ECUs report, a bound on the PDUs
  OrdinaryId         \* an identifier no ECU has, of a frame that looks like a request

VARIABLES
  topic,             \* what this capture is about
  captured,          \* the PDUs in the order they began
  clock,             \* when the last one began
  awaited,           \* an ECU, and the PDU it has still to answer
  announced,         \* those it said it would answer later
  silent,            \* ECUs that stopped answering
  canAnswers         \* final answers: the ECU, what it was asked and said, and how

canVars == <<topic, captured, clock, awaited, announced, silent, canAnswers>>

CanInit ==
  /\ topic \in Topics
  /\ captured = <<>> /\ clock = 0 /\ awaited = {} /\ announced = {} /\ silent = {}
  /\ canAnswers = <<>>

-----------------------------------------------------------------------------
Hears(ecu, id) == id = ecu.request \/ id \in ecu.broadcasts

IsPaired(ecu) == ecu.response \in DeriveResponseCanId(ecu.request)

\* Only an answer that some convention pairs with its request is told from
\* that of another ECU.
IsTold(wait) == captured[wait.at].id = wait.ecu.request /\ IsPaired(wait.ecu)

\* As many other addresses were asked since as the list of requests holds.
IsForgotten(wait, id) ==
  Cardinality({captured[k].id : k \in wait.at .. Len(captured)} \union {id}) > MaxPendingRequests

MaySpeak(id) ==
  /\ Len(captured) < topic.pdus
  /\ \A wait \in awaited : ~IsForgotten(wait, id)

Pdu(id, at, until, bytes, asks) ==
  [id |-> id, started |-> at, completed |-> until, bytes |-> bytes, asks |-> asks]

\* A request, over several frames when it is long, to ECUs that have answered
\* what they were asked at the same address.
Ask ==
  \E id \in {ecu.request : ecu \in Ecus} \union UNION {ecu.broadcasts : ecu \in Ecus},
     request \in topic.requests, frames \in 0 .. 1 :
    LET hearers == {ecu \in Ecus \ silent : Hears(ecu, id)}
    IN  /\ MaySpeak(id)
        /\ \A wait \in awaited : id # captured[wait.at].id
        /\ captured' = Append(captured, Pdu(id, clock + 1, clock + 1 + frames, request, TRUE))
        /\ clock' = clock + 1
        /\ awaited' = awaited \union {[ecu |-> ecu, at |-> Len(captured) + 1] : ecu \in hearers}
        /\ UNCHANGED <<topic, announced, silent, canAnswers>>

\* An ordinary frame that looks like a request, one in a capture.
OrdinaryFrame ==
  /\ MaySpeak(OrdinaryId)
  /\ \A k \in DOMAIN captured : captured[k].id # OrdinaryId
  /\ \E request \in topic.requests :
       captured' = Append(captured, Pdu(OrdinaryId, clock + 1, clock + 1, request, FALSE))
  /\ clock' = clock + 1
  /\ UNCHANGED <<topic, awaited, announced, silent, canAnswers>>

\* An ECU answers in the order it was asked, and begins once the request ended:
\* where no convention tells its answer, before a later request has ended.
Answering(wait, at) ==
  LET asked == captured[wait.at]
      later == SubSeq(captured, wait.at + 1, Len(captured))
  IN  /\ Len(captured) < topic.pdus
      /\ \A k \in DOMAIN later :
           IsTold(wait) \/ ~IsRequestSid(later[k].bytes[1]) \/ at < later[k].completed
      /\ \A other \in awaited : other.ecu = wait.ecu => wait.at <= other.at
      /\ at >= asked.completed
      /\ at > asked.started \/ wait.ecu.response > asked.id

Answer ==
  \E wait \in awaited, at \in clock .. clock + 1 :
    LET asked == captured[wait.at]
    IN  /\ Answering(wait, at)
        /\ \E answer \in FinalAnswers(asked.bytes, topic.values) :
             /\ captured' = Append(captured, Pdu(wait.ecu.response, at, at, answer, FALSE))
             /\ canAnswers' = Append(canAnswers,
                  [ecu |-> wait.ecu, request |-> asked.bytes, answer |-> answer,
                   physically |-> asked.id = wait.ecu.request])
        /\ clock' = at
        /\ awaited' = awaited \ {wait}
        /\ announced' = announced \ {wait}
        /\ UNCHANGED <<topic, silent>>

Announce ==
  \E wait \in awaited \ announced :
    /\ Answering(wait, clock + 1)
    /\ captured' = Append(captured,
         Pdu(wait.ecu.response, clock + 1, clock + 1,
             PendingAnswer(captured[wait.at].bytes), FALSE))
    /\ clock' = clock + 1
    /\ announced' = announced \union {wait}
    /\ UNCHANGED <<topic, awaited, silent, canAnswers>>

\* An ECU that leaves a request unanswered answers no other.
FallSilent ==
  \E wait \in awaited :
    /\ silent' = silent \union {wait.ecu}
    /\ awaited' = {other \in awaited : other.ecu # wait.ecu}
    /\ announced' = {other \in announced : other.ecu # wait.ecu}
    /\ UNCHANGED <<topic, captured, clock, canAnswers>>

CanNext == Ask \/ OrdinaryFrame \/ Answer \/ Announce \/ FallSilent

-----------------------------------------------------------------------------
CanVehicle == ReconstructFromFrames(captured)

ExchangesOf(ecu) == Restrict(canAnswers, {n \in DOMAIN canAnswers : canAnswers[n].ecu = ecu})

\* A capture, wherever it ends, shows the ECUs that answered, each with what it
\* answered and no other: overlapping exchanges, announced answers, broadcasts,
\* unanswered requests and ordinary frames do not change what is learned.  Only
\* an ECU asked nothing but services that reveal nothing, and never at a
\* diagnostic address, may be left out.
EcusAreWhatTheyAnswered ==
  LET vehicle == CanVehicle
  IN  \A ecu \in Ecus :
        LET exchanges == ExchangesOf(ecu)
        IN  IF ecu.response \in DOMAIN vehicle
              THEN DOMAIN exchanges # {} /\ IsWhatItAnswered(vehicle[ecu.response], exchanges)
              ELSE \A k \in DOMAIN exchanges :
                     ~IsPositive(exchanges[k]) /\ exchanges[k].physically /\ ~IsPaired(ecu)

\* An observed pair of identifiers is the ECU's own and was used by a physical
\* exchange, and an inferred one is the ECU's own as well; it listens to a
\* broadcast it answered or one its addressing obliges it to hear.  Nothing that
\* is no ECU becomes one.
AddressesAreTrue ==
  LET vehicle == CanVehicle
  IN  \A id \in DOMAIN vehicle :
        /\ \E ecu \in Ecus :
             /\ id = ecu.response
             /\ \A k \in DOMAIN vehicle[id].address :
                  LET address == vehicle[id].address[k]
                  IN  /\ address.request = ecu.request
                      /\ address.functional \subseteq ecu.broadcasts
                      /\ address.confidence = "Observed" <=>
                           \E j \in DOMAIN canAnswers :
                             canAnswers[j].ecu = ecu /\ canAnswers[j].physically

=============================================================================
