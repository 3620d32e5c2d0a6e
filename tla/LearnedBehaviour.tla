-------------------------- MODULE LearnedBehaviour --------------------------
(***************************************************************************)
(* What one exchange tells about an ECU: reconstruct/src/behaviour.rs,     *)
(* which both capture readers share.  A request or an answer is a sequence *)
(* of numbers: the service first, then an identifier, a sub-function or a  *)
(* reason, then values; a data identifier, a trouble code and a seed are   *)
(* one number each.                                                        *)
(***************************************************************************)
EXTENDS Integers, Sequences, SequencesExt, Functions

PositiveResponseOffset == 64
NegativeResponseSid == 127
NrcResponsePending == 120

SessionControl == 16
ReadDtcInformation == 25
ReadDataByIdentifier == 34
SecurityAccess == 39

\* c_arrRequestSids: the services of ISO 14229-1.
RequestSids ==
  {16, 17, 20, 25, 34, 35, 36, 39, 40, 41, 42, 44, 46, 47, 49, 52, 53, 54, 55, 56, 61, 62,
   131, 132, 133, 134, 135}

IsRequestSid(first) == first \in RequestSids

IsResponsePending(response) ==
  Len(response) >= 3 /\ response[1] = NegativeResponseSid /\ response[3] = NrcResponsePending

\* The first byte of a positive answer, or a refusal that names the service.
AnswersService(sid, response) ==
  \/ response[1] = (sid + PositiveResponseOffset) % 256
  \/ response[1] = NegativeResponseSid /\ Len(response) >= 2 /\ response[2] = sid

-----------------------------------------------------------------------------
(***************************************************************************)
(* An ECU as far as it is known: the constructor gives it the default      *)
(* session.                                                                *)
(***************************************************************************)
NewEcu ==
  [services |-> {}, sessions |-> {1}, dids |-> <<>>, dtcs |-> <<>>, levels |-> <<>>]

\* Every other sub-function is no session type.
SessionTypes == 1 .. 4

With(map, key, value) == [k \in DOMAIN map \union {key} |-> IF k = key THEN value ELSE map[k]]
WithNew(map, key, value) == IF key \in DOMAIN map THEN map ELSE With(map, key, value)

\* The session is the one that was asked for, without its suppress bit.
ApplySessionControl(ecu, request) ==
  LET session == request[2] % 128
  IN  IF Len(request) >= 2 /\ session \in SessionTypes
        THEN [ecu EXCEPT !.sessions = @ \union {session}] ELSE ecu

\* The identifier is the answer's, and a later value replaces an earlier one.
ApplyReadDataByIdentifier(ecu, request, response) ==
  IF Len(request) >= 2 /\ Len(response) >= 2
    THEN [ecu EXCEPT !.dids = With(@, response[2], SubSeq(response, 3, Len(response)))] ELSE ecu

\* After sub-function and mask, pairs of a trouble code and its status.  The
\* first status of a code is kept.
ApplyReadDtc(ecu, response) ==
  LET pairs == 1 .. (Len(response) - 3) \div 2
      first(code) == Min({k \in pairs : response[2 * k + 2] = code})
      codes == {response[2 * k + 2] : k \in pairs} \ DOMAIN ecu.dtcs
  IN  [ecu EXCEPT !.dtcs = [code \in DOMAIN @ \union codes |->
                              IF code \in codes THEN response[2 * first(code) + 3] ELSE @[code]]]

\* Only a request for a seed, an odd sub-function, reveals anything.
ApplySecurityAccess(ecu, request, response) ==
  IF Len(request) >= 2 /\ request[2] % 2 = 1
    THEN [ecu EXCEPT !.levels = WithNew(@, request[2], SubSeq(response, 3, Len(response)))]
    ELSE ecu

\* A refusal confirms the service and says nothing more.
ApplyPair(ecu, request, response) ==
  LET sid == request[1]
      marked == [ecu EXCEPT !.services = @ \union {sid}]
  IN  CASE response[1] = NegativeResponseSid -> marked
        [] response[1] # NegativeResponseSid /\ sid = SessionControl ->
             ApplySessionControl(marked, request)
        [] response[1] # NegativeResponseSid /\ sid = ReadDataByIdentifier ->
             ApplyReadDataByIdentifier(marked, request, response)
        [] response[1] # NegativeResponseSid /\ sid = ReadDtcInformation ->
             ApplyReadDtc(marked, response)
        [] response[1] # NegativeResponseSid /\ sid = SecurityAccess ->
             ApplySecurityAccess(marked, request, response)
        [] OTHER -> marked

-----------------------------------------------------------------------------
(***************************************************************************)
(* What ECUs answer, and what is true of an ECU that gave some answers.    *)
(***************************************************************************)
\* The final answers to a request, given the values of the vehicle: a refusal,
\* or what was asked for.
FinalAnswers(request, values) ==
  LET positive(rest) == <<request[1] + PositiveResponseOffset, request[2]>> \o rest
  IN  {<<NegativeResponseSid, request[1], 49>>} \union
      CASE request[1] = SessionControl -> {positive(<<>>)}
        [] request[1] = ReadDtcInformation -> {positive(<<255, 7, v, 8, v>>) : v \in values}
        [] OTHER -> {positive(<<v>>) : v \in values}

PendingAnswer(request) == <<NegativeResponseSid, request[1], NrcResponsePending>>

IsPositive(exchange) == exchange.answer[1] # NegativeResponseSid

\* exchanges: what one ECU was asked and finally answered, numbered in that order.
Revealed(exchanges, sid) ==
  {n \in DOMAIN exchanges : IsPositive(exchanges[n]) /\ exchanges[n].request[1] = sid}

\* What it was asked with a service, and the exchanges about one such thing.
Asked(exchanges, sid) == {exchanges[n].request[2] : n \in Revealed(exchanges, sid)}
About(exchanges, sid, what) == {n \in Revealed(exchanges, sid) : exchanges[n].request[2] = what}

TrueServices(exchanges) == {exchanges[n].request[1] : n \in DOMAIN exchanges}

\* The sessions that have a type.
TrueSessions(exchanges) ==
  {1} \union ({what % 128 : what \in Asked(exchanges, SessionControl)} \intersect SessionTypes)

\* The last value of every identifier.
TrueDids(exchanges) ==
  [did \in Asked(exchanges, ReadDataByIdentifier) |->
     <<exchanges[Max(About(exchanges, ReadDataByIdentifier, did))].answer[3]>>]

\* The first status of the two codes that ECUs report, the first seed of a level.
TrueDtcs(exchanges) ==
  LET reports == Revealed(exchanges, ReadDtcInformation)
  IN  IF reports = {} THEN <<>> ELSE [code \in {7, 8} |-> exchanges[Min(reports)].answer[5]]

TrueLevels(exchanges) ==
  [level \in {what \in Asked(exchanges, SecurityAccess) : what % 2 = 1} |->
     <<exchanges[Min(About(exchanges, SecurityAccess, level))].answer[3]>>]

\* An ECU is known for what it answered, and for nothing else.
IsWhatItAnswered(ecu, exchanges) ==
  /\ ecu.services = TrueServices(exchanges)
  /\ ecu.sessions = TrueSessions(exchanges)
  /\ ecu.dids = TrueDids(exchanges)
  /\ ecu.dtcs = TrueDtcs(exchanges)
  /\ ecu.levels = TrueLevels(exchanges)

=============================================================================
