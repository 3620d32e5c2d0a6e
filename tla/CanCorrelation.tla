--------------------------- MODULE CanCorrelation ---------------------------
(***************************************************************************)
(* reconstruct/src/pipeline.rs: from what went over a CAN bus to the ECUs  *)
(* that are there.  A bus does not say which identifier answers which, so  *)
(* every answer is paired with a request that is still outstanding.  The   *)
(* PDUs are taken as IsoTp!ReassembleStream returns them, by stream.       *)
(***************************************************************************)
EXTENDS LearnedBehaviour, TLC

CONSTANTS
  Marked,            \* the identifiers whose direction the capture records
  MaxPendingRequests \* c_uMaxPendingRequests: 64

-----------------------------------------------------------------------------
(***************************************************************************)
(* Identifiers                                                             *)
(***************************************************************************)
Functional11Bit == 2015                               \* 0x7DF
LegislatedFirst == 2016                               \* 0x7E0
LegislatedLast == 2023                                \* 0x7E7
Response11BitOffset == 8
PhysicalTaType == 218                                 \* 0xDA
FunctionalTaType == 219                               \* 0xDB
FunctionalNormalFixed29Bit == 417018865               \* 0x18DB33F1

IsNormal11BitRequestId(id) == id \in LegislatedFirst .. LegislatedLast
IsNormal11BitResponseId(id) ==
  id \in LegislatedFirst + Response11BitOffset .. LegislatedLast + Response11BitOffset

HasTaType(id, type) == id > 2047 /\ (id \div 65536) % 256 = type
IsNormalFixed(id) == HasTaType(id, PhysicalTaType)
SourceOf(id) == id % 256
TargetOf(id) == (id \div 256) % 256

IsFunctionalRequestCanId(id) == id = Functional11Bit \/ HasTaType(id, FunctionalTaType)

IsDiagnosticRequestCanId(id) ==
  IsFunctionalRequestCanId(id) \/ IsNormal11BitRequestId(id) \/ IsNormalFixed(id)

SwapTargetAndSource(id) == (id - (id % 65536)) + (SourceOf(id) * 256) + TargetOf(id)

\* The identifier an answer is expected on: none for a broadcast or a pair of a
\* manufacturer's own.
DeriveResponseCanId(id) ==
  CASE IsNormal11BitRequestId(id) -> {id + Response11BitOffset}
    [] IsNormalFixed(id) -> {SwapTargetAndSource(id)}
    [] OTHER -> {}

DeriveRequestCanId(id) ==
  CASE IsNormal11BitResponseId(id) -> {id - Response11BitOffset}
    [] IsNormalFixed(id) -> {SwapTargetAndSource(id)}
    [] OTHER -> {}

AddressingModeOf(request, response) ==
  IF IsNormalFixed(request) /\ IsNormalFixed(response) THEN "NormalFixed29Bit" ELSE "Normal11Bit"

DefaultFunctionalCanId(request, mode) ==
  CASE mode = "NormalFixed29Bit" -> {FunctionalNormalFixed29Bit}
    [] mode # "NormalFixed29Bit" /\ IsNormal11BitRequestId(request) -> {Functional11Bit}
    [] OTHER -> {}

LogicalAddressOf(response) ==
  IF IsNormalFixed(response) THEN SourceOf(response) ELSE response % 65536

-----------------------------------------------------------------------------
(***************************************************************************)
(* A PDU: its identifier, when its first and its last frame appeared, its  *)
(* bytes.  What is kept meanwhile: the ECUs by the identifier they answer  *)
(* on, the requests outstanding, oldest first, and the ECUs that answered  *)
(* something sent to a diagnostic address.                                 *)
(***************************************************************************)
\* By stream, then in the order they began; what begins at the same instant
\* stays in the order of the identifiers.
ReassembleAllStreams(frames) ==
  LET numbered == [k \in DOMAIN frames |-> [n |-> k, pdu |-> frames[k]]]
      before(a, b) ==
        \/ a.pdu.started < b.pdu.started
        \/ a.pdu.started = b.pdu.started
           /\ (a.pdu.id < b.pdu.id \/ (a.pdu.id = b.pdu.id /\ a.n < b.n))
      sorted == SortSeq(numbered, before)
  IN  [k \in DOMAIN sorted |-> sorted[k].pdu]

\* A capture that records directions is believed.
IsRequest(pdu) == IF pdu.id \in Marked THEN pdu.asks ELSE IsRequestSid(pdu.bytes[1])

\* RememberRequest: one to an address, and no more than the list may hold.
RememberRequest(pending, pdu) ==
  LET others == SelectSeq(pending, LAMBDA p : p.id # pdu.id)
      kept == IF Len(others) >= MaxPendingRequests THEN Tail(others) ELSE others
  IN  Append(kept, [id |-> pdu.id, bytes |-> pdu.bytes, completed |-> pdu.completed])

CouldHaveAnswered(request, pdu) == pdu.started >= request.completed

Candidates(pending, pdu) ==
  {k \in DOMAIN pending :
     AnswersService(pending[k].bytes[1], pdu.bytes) /\ CouldHaveAnswered(pending[k], pdu)}

\* Mutated form of FindPendingRequestFor: the latest request that fits.
FindLatestRequestFor(pending, pdu) ==
  LET fits == {k \in Candidates(pending, pdu) : pending[k].id # pdu.id}
  IN  {k \in fits : \A j \in fits : j <= k}

\* FindPendingRequestFor: the request this identifier conventionally answers,
\* otherwise the latest that was not sent on the same identifier.
FindPendingRequestFor(pending, pdu) ==
  LET fits == Candidates(pending, pdu)
      paired == {k \in fits : pdu.id \in DeriveResponseCanId(pending[k].id)}
      others == {k \in fits : pending[k].id # pdu.id}
  IN  IF paired # {} THEN {k \in paired : \A j \in paired : k <= j}
                     ELSE {k \in others : \A j \in others : j <= k}

-----------------------------------------------------------------------------
EcuFor(ecus, id) ==
  IF id \in DOMAIN ecus THEN ecus[id] ELSE NewEcu @@ [address |-> <<>>]

Address(request, response, functional, confidence) ==
  <<[request |-> request, response |-> response, functional |-> functional,
     mode |-> AddressingModeOf(request, response), confidence |-> confidence]>>

\* A broadcast shows no identifier of the ECU's own but may let it be inferred;
\* what was observed stays.
RecordFunctionalListen(ecu, request, response) ==
  CASE ecu.address # <<>> -> [ecu EXCEPT !.address[1].functional = {request}]
    [] ecu.address = <<>> /\ DeriveRequestCanId(response) # {} ->
         [ecu EXCEPT !.address =
            Address(CHOOSE id \in DeriveRequestCanId(response) : TRUE, response, {request},
                    "Inferred")]
    [] OTHER -> ecu

RecordCanAddress(ecu, request, response) ==
  LET known == IF ecu.address = <<>> THEN {} ELSE ecu.address[1].functional
      default == DefaultFunctionalCanId(request, AddressingModeOf(request, response))
  IN  IF IsFunctionalRequestCanId(request)
        THEN RecordFunctionalListen(ecu, request, response)
        ELSE [ecu EXCEPT !.address =
                Address(request, response, IF known # {} THEN known ELSE default, "Observed")]

\* Mutated form of Retire: a broadcast has one answer as well.
RetireAll(pending, k) == RemoveAt(pending, k)

\* A broadcast stays outstanding for the ECUs still to answer.
Retire(pending, k) ==
  IF IsFunctionalRequestCanId(pending[k].id) THEN pending ELSE RemoveAt(pending, k)

\* TryApplyAsResponse, when k is the request it answers.
ApplyAsResponse(known, k, pdu) ==
  LET request == known.pending[k]
      addressed == RecordCanAddress(EcuFor(known.ecus, pdu.id), request.id, pdu.id)
  IN  IF IsResponsePending(pdu.bytes) THEN known
        ELSE [ecus |-> With(known.ecus, pdu.id, ApplyPair(addressed, request.bytes, pdu.bytes)),
              pending |-> Retire(known.pending, k),
              diagnostic |-> IF IsDiagnosticRequestCanId(request.id)
                               THEN known.diagnostic \union {pdu.id} ELSE known.diagnostic]

\* A request is remembered, an answer to nothing ignored.
FoldPdu(known, pdu) ==
  LET answered == FindPendingRequestFor(known.pending, pdu)
  IN  CASE IsRequest(pdu) ->
             [known EXCEPT !.pending = RememberRequest(@, pdu)]
        [] ~IsRequest(pdu) /\ answered # {} ->
             ApplyAsResponse(known, CHOOSE k \in answered : TRUE, pdu)
        [] OTHER -> known

\* One byte that fits is no evidence of an ECU.
IsSupportedByEvidence(ecu, diagnostic) ==
  \/ ecu.dids # <<>> \/ ecu.dtcs # <<>> \/ ecu.levels # <<>> \/ ecu.sessions # {1}
  \/ diagnostic

ReconstructFromFrames(frames) ==
  LET nothing == [ecus |-> <<>>, pending |-> <<>>, diagnostic |-> {}]
      known == FoldLeft(FoldPdu, nothing, ReassembleAllStreams(frames))
      kept == {id \in DOMAIN known.ecus :
                 IsSupportedByEvidence(known.ecus[id], id \in known.diagnostic)}
  IN  [id \in kept |-> known.ecus[id] @@ [logical |-> LogicalAddressOf(id)]]

=============================================================================
