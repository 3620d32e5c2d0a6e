----------------------------- MODULE DoIpCapture -----------------------------
(***************************************************************************)
(* reconstruct/src/doip.rs: from the packets of an Ethernet capture to the *)
(* ECUs behind a DoIP entity.  A tester asks over one TCP connection and   *)
(* the entity answers; TCP cuts what is written into segments of its own,  *)
(* sends some again, and the capture may miss packets.  A message is a     *)
(* header and some payload, a cell of the stream each.                     *)
(***************************************************************************)
EXTENDS LearnedBehaviour, TLC

CONSTANTS
  LogicalAddresses,  \* of the ECUs
  Requests,          \* what a tester asks: sequences of bytes
  Reports,           \* the values ECUs report
  PayloadLengths,    \* cells of payload of a diagnostic message
  SequenceModulus,   \* 2^32: TCP sequence numbers wrap
  FirstSequences,    \* initial sequence numbers, of both directions
  MaxMessages,       \* bound on the messages of the connection
  SegmentLengths,    \* cells of a segment
  MaxTrouble         \* bound on packets missed and sent again

Flows == {"request", "response"}

ASSUME DoIpCaptureAssumption ==
  /\ SequenceModulus \in Nat \ {0}
  /\ FirstSequences \subseteq [Flows -> 0 .. SequenceModulus - 1]
  /\ SegmentLengths \subseteq Nat \ {0}
  \* A request names a service and what is asked of it.
  /\ Requests \subseteq Seq(0 .. 255)
  /\ \A request \in Requests : Len(request) >= 2 /\ IsRequestSid(request[1])
  /\ MaxMessages \in Nat
  \* A connection carries less than a round of its sequence numbers.
  /\ \E most \in 1 .. SequenceModulus :
       PayloadLengths \subseteq 1 .. most /\ MaxMessages * (most + 1) < SequenceModulus

VARIABLES
  first,             \* the initial sequence number of each direction
  messages,          \* what was written in each direction
  segmented,         \* how many cells of each went out
  packets,           \* the capture
  owed,              \* the requests to answer, as places in what was written
  troubled,          \* TRUE once the capture lacks or repeats anything
  trouble            \* how often

ethVars == <<first, messages, segmented, packets, owed, troubled, trouble>>

EthInit ==
  /\ first \in FirstSequences
  /\ messages = [flow \in Flows |-> <<>>] /\ segmented = [flow \in Flows |-> 0]
  /\ packets = <<>> /\ owed = {} /\ troubled = FALSE /\ trouble = 0

-----------------------------------------------------------------------------
(***************************************************************************)
(* The connection                                                          *)
(***************************************************************************)
CellsOf(flow, n) ==
  [offset \in 1 .. messages[flow][n].length + 1 |-> [flow |-> flow, n |-> n, offset |-> offset]]

\* What was written in a direction, up to its nth message.
StreamUpTo(flow, n) ==
  LET upTo[k \in 0 .. n] == IF k = 0 THEN <<>> ELSE upTo[k - 1] \o CellsOf(flow, k)
  IN  upTo[n]
StreamOf(flow) == StreamUpTo(flow, Len(messages[flow]))

\* The other end has a message when its cells went out, whatever the capture has.
Received(flow, n) == segmented[flow] >= Len(StreamUpTo(flow, n))

Written == Len(messages["request"]) + Len(messages["response"])

\* asked: the request an ECU answers, 0 if it is none of its answers.
Message(type, ecu, bytes, length, asked) ==
  [kind |-> type, ecu |-> ecu, bytes |-> bytes, length |-> length, asked |-> asked]

Write(flow, message) ==
  /\ Written < MaxMessages
  /\ messages' = [messages EXCEPT ![flow] = Append(@, message)]

AnswersOf(ecu) == {n \in DOMAIN messages["response"] :
                     messages["response"][n].asked # 0 /\ messages["response"][n].ecu = ecu}

\* One request to an ECU at a time: the tester has the answer to the last.
WriteRequest ==
  \E ecu \in LogicalAddresses, request \in Requests, length \in PayloadLengths :
    /\ \A n \in owed : messages["request"][n].ecu # ecu
    /\ \A n \in AnswersOf(ecu) : Received("response", n)
    /\ Write("request", Message("diagnostic", ecu, request, length, 0))
    /\ owed' = owed \union {Len(messages["request"]) + 1}
    /\ UNCHANGED <<first, segmented, packets, troubled, trouble>>

\* An ECU answers what was received whole, at once or announced.
WriteAnswer ==
  \E n \in owed, length \in PayloadLengths :
    LET asked == messages["request"][n]
    IN  /\ Received("request", n)
        /\ \/ /\ Write("response", Message("diagnostic", asked.ecu,
                                           PendingAnswer(asked.bytes), length, n))
              /\ UNCHANGED owed
           \/ \E answer \in FinalAnswers(asked.bytes, Reports) :
                /\ Write("response", Message("diagnostic", asked.ecu, answer, length, n))
                /\ owed' = owed \ {n}
        /\ UNCHANGED <<first, segmented, packets, troubled, trouble>>

\* An acknowledgement, or a payload type of a manufacturer: one in a connection.
WriteOther ==
  /\ \A k \in DOMAIN messages["response"] : messages["response"][k].kind = "diagnostic"
  /\ \E type \in {"acknowledgement", "manufacturer"} :
       Write("response", Message(type, 0, <<>>, 1, 0))
  /\ UNCHANGED <<first, segmented, packets, owed, troubled, trouble>>

-----------------------------------------------------------------------------
(***************************************************************************)
(* Packets                                                                 *)
(***************************************************************************)
Segment(flow, from, length) ==
  [flow |-> flow, sequence |-> (first[flow] + from) % SequenceModulus,
   cells |-> SubSeq(StreamOf(flow), from + 1, from + length)]

\* TCP cuts where it likes; the capture may miss what it sent.
SendSegment ==
  \E flow \in Flows, length \in SegmentLengths, missed \in BOOLEAN :
    /\ segmented[flow] + length <= Len(StreamOf(flow))
    /\ missed => trouble < MaxTrouble
    /\ segmented' = [segmented EXCEPT ![flow] = @ + length]
    /\ packets' = IF missed THEN packets
                    ELSE Append(packets, Segment(flow, segmented[flow], length))
    /\ troubled' = (troubled \/ missed)
    /\ trouble' = IF missed THEN trouble + 1 ELSE trouble
    /\ UNCHANGED <<first, messages, owed>>

\* The same segment again; cut in another way, it is trouble for a reader.
Retransmit ==
  \E flow \in Flows, length \in SegmentLengths :
    \E from \in 0 .. segmented[flow] - length :
      /\ trouble < MaxTrouble
      /\ packets' = Append(packets, Segment(flow, from, length))
      /\ troubled' = (troubled \/ Segment(flow, from, length) \notin ToSet(packets))
      /\ trouble' = trouble + 1
      /\ UNCHANGED <<first, messages, segmented, owed>>

EthNext ==
  \/ WriteRequest \/ WriteAnswer \/ WriteOther
  \/ SendSegment \/ Retransmit

-----------------------------------------------------------------------------
(***************************************************************************)
(* Reading the capture                                                     *)
(***************************************************************************)
NothingJoined == [bytes |-> <<>>, starts |-> <<>>, expected |-> <<>>, whole |-> TRUE]

\* A stream with the cells of one more packet.
Extend(stream, packet) ==
  [bytes |-> stream.bytes \o packet.cells,
   starts |-> Append(stream.starts, [offset |-> Len(stream.bytes), at |-> packet.at]),
   expected |-> <<(packet.sequence + Len(packet.cells)) % SequenceModulus>>,
   whole |-> stream.whole]

\* Mutated form of Join: what is missing is not missed.
JoinAnyway(stream, packet) == Extend(stream, packet)

\* One round of JoinTcpStream: a segment that repeats the end of the one before
\* is skipped, and at a gap the stream is abandoned.
Join(stream, packet) ==
  LET repeats == packet.sequence = (stream.expected[1] - Len(packet.cells)) % SequenceModulus
  IN  CASE stream.expected # <<>> /\ repeats -> stream
        [] stream.expected # <<>> /\ ~repeats /\ packet.sequence # stream.expected[1] ->
             [stream EXCEPT !.whole = FALSE]
        [] OTHER -> Extend(stream, packet)

JoinTcpStream(segments) ==
  LET joined[k \in 0 .. Len(segments)] ==
        IF k = 0 THEN NothingJoined ELSE Join(joined[k - 1], segments[k])
  IN  joined[Len(segments)]

\* Mutated form of ArrivalOf: a stream arrived when its first segment did.
ArrivalOfStream(stream, offset) == stream.starts[1].at

\* ArrivalOf: the packet that brought the cell at an offset.
ArrivalOf(stream, offset) ==
  LET begun == {k \in DOMAIN stream.starts : stream.starts[k].offset <= offset}
  IN  IF begun = {} THEN 0 ELSE stream.starts[Max(begun)].at

\* The message whose header is expected at an offset, and where it ends.
HeaderAt(stream, offset) == stream.bytes[offset + 1]
MessageAt(stream, offset) ==
  messages[HeaderAt(stream, offset).flow][HeaderAt(stream, offset).n]
EndAt(stream, offset) == offset + 1 + MessageAt(stream, offset).length

\* A header is there, and its message is not cut off.
IsFramed(stream, offset) ==
  /\ offset < Len(stream.bytes)
  /\ HeaderAt(stream, offset).offset = 1
  /\ EndAt(stream, offset) <= Len(stream.bytes)

\* A type that cannot be interpreted is stepped over.
ReadAt(stream, offset) ==
  IF MessageAt(stream, offset).kind = "manufacturer" THEN <<>>
    ELSE <<[at |-> ArrivalOf(stream, offset),
            cells |-> SubSeq(stream.bytes, offset + 1, EndAt(stream, offset))]>>

\* ReadMessages: from a header to the next, and nothing more at anything else.
ReadMessages(stream) ==
  LET read[offset \in 0 .. Len(stream.bytes)] ==
        IF IsFramed(stream, offset)
          THEN ReadAt(stream, offset) \o read[EndAt(stream, offset)] ELSE <<>>
  IN  read[0]

\* sort_by_key puts a packet behind all whose sequence number is not greater.
Sorted(segments, packet) ==
  LET before == {k \in DOMAIN segments : segments[k].sequence <= packet.sequence}
  IN  InsertAt(segments, Cardinality(before) + 1, packet)

\* The segments of one direction, by raw sequence number, repetitions in the
\* order of the capture.
FlowSegments(flow) ==
  LET captured(k) == [sequence |-> packets[k].sequence, cells |-> packets[k].cells, at |-> k]
      sorted[k \in 0 .. Len(packets)] ==
        CASE k = 0 -> <<>>
          [] k # 0 /\ packets[k].flow = flow -> Sorted(sorted[k - 1], captured(k))
          [] OTHER -> sorted[k - 1]
  IN  sorted[Len(packets)]

ReadFlow(flow) ==
  LET stream == JoinTcpStream(FlowSegments(flow))
  IN  IF stream.whole THEN ReadMessages(stream) ELSE <<>>

\* sort_by puts a message behind all that were not captured later.
Merged(read, message) ==
  LET before == {k \in DOMAIN read : read[k].at <= message.at}
  IN  InsertAt(read, Cardinality(before) + 1, message)

\* ExtractDoIpMessages: what was read in both directions, in the order in which
\* the first bytes were captured; several may begin in one packet.
ExtractDoIpMessages ==
  LET all == ReadFlow("request") \o ReadFlow("response")
      merged[k \in 0 .. Len(all)] ==
        IF k = 0 THEN <<>> ELSE Merged(merged[k - 1], all[k])
  IN  merged[Len(all)]

-----------------------------------------------------------------------------
(***************************************************************************)
(* The vehicle                                                             *)
(***************************************************************************)
NothingKnown == [pending |-> <<>>, ecus |-> <<>>]

\* An answer comes from the address that was asked, and one that is announced
\* is waited for.
IsAnswered(known, said) ==
  /\ said.ecu \in DOMAIN known.pending
  /\ AnswersService(known.pending[said.ecu][1], said.bytes)
  /\ ~IsResponsePending(said.bytes)

\* One request outstanding to an address: a second supersedes the first.
FoldMessage(known, message) ==
  LET said == messages[message.cells[1].flow][message.cells[1].n]
      ecu == IF said.ecu \in DOMAIN known.ecus THEN known.ecus[said.ecu] ELSE NewEcu
  IN  CASE said.kind # "diagnostic" -> known
        [] said.kind = "diagnostic" /\ IsRequestSid(said.bytes[1]) ->
             [known EXCEPT !.pending = With(@, said.ecu, said.bytes)]
        [] said.kind = "diagnostic" /\ ~IsRequestSid(said.bytes[1]) /\ IsAnswered(known, said) ->
             [pending |-> Restrict(known.pending, DOMAIN known.pending \ {said.ecu}),
              ecus |-> With(known.ecus, said.ecu,
                            ApplyPair(ecu, known.pending[said.ecu], said.bytes))]
        [] OTHER -> known

BuildVehicle ==
  LET said == ExtractDoIpMessages
      known[k \in 0 .. Len(said)] ==
        IF k = 0 THEN NothingKnown ELSE FoldMessage(known[k - 1], said[k])
  IN  known[Len(said)].ecus

-----------------------------------------------------------------------------
\* Whatever the capture lacks, repeats or cuts, a message that is read is one
\* that was written, whole and of one direction, and none is read twice.
NothingIsMisread ==
  \A flow \in Flows :
    LET read == ReadFlow(flow)
    IN  /\ \A k \in DOMAIN read :
             LET header == read[k].cells[1]
             IN  header.flow = flow /\ read[k].cells = CellsOf(flow, header.n)
        /\ \A j, k \in DOMAIN read : j < k => read[j].cells[1].n < read[k].cells[1].n

Wraps(flow) == first[flow] + segmented[flow] > SequenceModulus

\* What an ECU was asked and finally answered, as far as the tester has it.
EthExchangesOf(ecu) ==
  LET request(n) == messages["request"][messages["response"][n].asked].bytes
      answer(n) == messages["response"][n].bytes
  IN  [n \in {n \in AnswersOf(ecu) : answer(n) # PendingAnswer(request(n)) /\ Received("response", n)}
         |-> [request |-> request(n), answer |-> answer(n)]]

\* A capture that lacks nothing shows every ECU that answered and what it
\* answered, although each direction is put together by itself: the exchanges
\* of a connection interleave again as they did.
InterleavingIsRestored ==
  (~troubled /\ \A flow \in Flows : ~Wraps(flow)) =>
    LET vehicle == BuildVehicle
    IN  \A ecu \in LogicalAddresses :
          IF ecu \in DOMAIN vehicle
            THEN IsWhatItAnswered(vehicle[ecu], EthExchangesOf(ecu))
            ELSE DOMAIN EthExchangesOf(ecu) = {}

=============================================================================
