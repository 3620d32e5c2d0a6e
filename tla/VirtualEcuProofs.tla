-------------------------- MODULE VirtualEcuProofs --------------------------
(***************************************************************************)
(* What VirtualEcu promises for every choice of sessions, levels, block    *)
(* counters, timings and overrides.  The state after a request is the old  *)
(* one, the one a service leads to, or the old one with the block of the   *)
(* latter: it is enough to look at the services one by one.                *)
(***************************************************************************)
EXTENDS VirtualEcu, TLAPS

(* The states DefaultSessionIsLocked allows, and the outcomes in them.     *)
Coherent ==
    {e \in Diagnostic :
        e.session = DefaultSession => e.unlocked = Locked /\ e.seed = Locked}

Outcomes == [says: Saying, next: Coherent]

Inv == TypeOK /\ ecu \in Coherent

(* What the request of a service carries.                                  *)
LEMMA RequestParts ==
    ASSUME NEW r \in Request
    PROVE  /\ r.service \in Service
           /\ r.suppress \in BOOLEAN
           /\ r.service = "SessionControl" => r.sub \in Session
           /\ r.service = "SecurityAccess" =>
                 r.sub \in Level \/ \E l \in Level : r.sub = l + 1
           /\ r.service = "TransferData" => r.sub \in Block
  BY EcuAssumption DEF Request, Service

(* An answer that changes nothing is a coherent outcome.                   *)
LEMMA RefuseIsCoherent ==
    ASSUME ecu \in Coherent, NEW nrc \in Saying
    PROVE  Refuse(nrc) \in Outcomes
  BY DEF Refuse, Outcomes

(* So is an accepted one that leads to a coherent state.                   *)
LEMMA AcceptIsCoherent ==
    ASSUME NEW e \in Coherent
    PROVE  Accept(e) \in Outcomes
  BY DEF Accept, Outcomes, Saying

(* The same of an answer the tester may have suppressed.                  *)
LEMMA AcceptQuietlyIsCoherent ==
    ASSUME NEW e \in Coherent, NEW r
    PROVE  AcceptQuietly(r, e) \in Outcomes
  BY DEF AcceptQuietly, Outcomes, Saying

(* A refusal is one of the things an ECU says.                            *)
LEMMA RefusalsAreSayings == Refusal \subseteq Saying
  BY DEF Saying

(* Locking keeps the type and makes a state coherent whatever its session. *)
LEMMA LockingIsCoherent ==
    ASSUME NEW e \in Diagnostic
    PROVE  LockSecurity(e) \in Coherent
  BY DEF LockSecurity, Coherent, Diagnostic, Locked

(* Changing the session: the default one locks.                           *)
LEMMA SessionControlIsCoherent ==
    ASSUME ecu \in Coherent, NEW r \in Request
    PROVE  HandleDiagnosticSessionControl(r) \in Outcomes
  <1>1. CASE r.body = "Short"
    BY <1>1, RefuseIsCoherent, RefusalsAreSayings
       DEF HandleDiagnosticSessionControl, Refusal
  <1>2. CASE r.body # "Short" /\ r.sub \notin SupportedSession
    BY <1>2, RefuseIsCoherent, RefusalsAreSayings
       DEF HandleDiagnosticSessionControl, Refusal
  <1>3. CASE r.body # "Short" /\ r.sub \in SupportedSession
    <2>1. [ecu EXCEPT !.session = r.sub] \in Diagnostic
      BY <1>3 DEF Coherent, Diagnostic
    <2>2. SetSession(ecu, r.sub) \in Coherent
      <3>1. CASE r.sub = DefaultSession
        BY <2>1, <3>1, LockingIsCoherent DEF SetSession
      <3>2. CASE r.sub # DefaultSession
        BY <2>1, <3>2 DEF SetSession, Coherent, Diagnostic
      <3> QED BY <3>1, <3>2
    <2> QED
      BY <1>3, <2>2, AcceptQuietlyIsCoherent DEF HandleDiagnosticSessionControl
  <1> QED BY <1>1, <1>2, <1>3

(* Resetting the ECU.                                                     *)
LEMMA ResetIsCoherent ==
    ASSUME ecu \in Coherent, NEW r \in Request
    PROVE  HandleEcuReset(r) \in Outcomes
  <1>1. [ecu EXCEPT !.session = DefaultSession, !.block = NoTransfer]
            \in Diagnostic
    BY EcuAssumption DEF Coherent, Diagnostic
  <1> QED
    BY <1>1, LockingIsCoherent, AcceptQuietlyIsCoherent
       DEF HandleEcuReset, ResetToDefaultSession

(* Giving out a seed, outside the default session only.                   *)
LEMMA RequestSeedIsCoherent ==
    ASSUME ecu \in Coherent, ecu.session # DefaultSession,
           NEW r \in Request, r.sub \in Level
    PROVE  HandleSecurityRequestSeed(r) \in Outcomes
  <1>1. Refuse("0x12") \in Outcomes
    BY RefuseIsCoherent, RefusalsAreSayings DEF Refusal
  <1>2. Accept(ecu) \in Outcomes
    BY AcceptIsCoherent
  <1>3. [ecu EXCEPT !.seed = r.sub] \in Coherent
    BY DEF Coherent, Diagnostic
  <1> QED
    BY <1>1, <1>2, <1>3, AcceptIsCoherent DEF HandleSecurityRequestSeed

(* Taking a key, outside the default session only.                        *)
LEMMA SendKeyIsCoherent ==
    ASSUME ecu \in Coherent, ecu.session # DefaultSession,
           NEW r \in Request, r.sub - 1 \in Level
    PROVE  HandleSecuritySendKey(r) \in Outcomes
  <1>1. Refuse("0x12") \in Outcomes /\ Refuse("0x24") \in Outcomes
        /\ Refuse("0x35") \in Outcomes
    BY RefuseIsCoherent, RefusalsAreSayings DEF Refusal
  <1>2. [ecu EXCEPT !.unlocked = r.sub - 1, !.seed = Locked] \in Coherent
    BY DEF Coherent, Diagnostic, Locked
  <1> QED
    BY <1>1, <1>2, AcceptIsCoherent DEF HandleSecuritySendKey

(* Both halves of SecurityAccess, told apart by parity.                   *)
LEMMA SecurityAccessIsCoherent ==
    ASSUME ecu \in Coherent, NEW r \in Request, r.service = "SecurityAccess"
    PROVE  HandleSecurityAccess(r) \in Outcomes
  <1>1. CASE ecu.session = DefaultSession
    BY <1>1, RefuseIsCoherent, RefusalsAreSayings
       DEF HandleSecurityAccess, Refusal
  <1>2. CASE ecu.session # DefaultSession /\ r.sub \in Level
    BY <1>2, RequestSeedIsCoherent DEF HandleSecurityAccess
  <1>3. CASE ecu.session # DefaultSession /\ r.sub \notin Level
    <2>1. PICK l \in Level : r.sub = l + 1
      BY <1>3, RequestParts
    <2>2. l \in Nat
      BY EcuAssumption
    <2>3. r.sub - 1 = l
      BY <2>1, <2>2
    <2> QED
      BY <1>3, <2>3, SendKeyIsCoherent DEF HandleSecurityAccess
  <1> QED BY <1>1, <1>2, <1>3

(* The counter stays in its range when it wraps.                           *)
LEMMA CountersWrap ==
    ASSUME NEW n \in Block
    PROVE  NextBlockSequenceCounter(n) \in Block
  BY EcuAssumption DEF Block, NextBlockSequenceCounter

(* The counter a transfer starts with is one.                             *)
LEMMA FirstBlockIsABlock == 1 % Modulus \in Block
  BY EcuAssumption DEF Block

(* The transfer services touch the block only.                             *)
LEMMA BlockChangeIsCoherent ==
    ASSUME ecu \in Coherent, NEW b \in Block \cup {NoTransfer}
    PROVE  [ecu EXCEPT !.block = b] \in Coherent
  BY DEF Coherent, Diagnostic

(* Starting, continuing and ending a transfer.                            *)
LEMMA TransferIsCoherent ==
    ASSUME ecu \in Coherent, NEW r \in Request
    PROVE  /\ HandleRequestTransfer(r) \in Outcomes
           /\ r.service = "TransferData" => HandleTransferData(r) \in Outcomes
           /\ HandleRequestTransferExit \in Outcomes
  <1>1. /\ Refuse("0x13") \in Outcomes
        /\ Refuse("0x24") \in Outcomes
        /\ Refuse("0x73") \in Outcomes
    BY RefuseIsCoherent, RefusalsAreSayings DEF Refusal
  <1>2. Accept(ecu) \in Outcomes
    BY AcceptIsCoherent
  <1>3. Accept([ecu EXCEPT !.block = 1 % Modulus]) \in Outcomes
    BY FirstBlockIsABlock, BlockChangeIsCoherent, AcceptIsCoherent
  <1>4. Accept([ecu EXCEPT !.block = NoTransfer]) \in Outcomes
    BY BlockChangeIsCoherent, AcceptIsCoherent
  <1>5. ASSUME r.service = "TransferData"
        PROVE  Accept([ecu EXCEPT !.block = NextBlockSequenceCounter(r.sub)])
                   \in Outcomes
    BY <1>5, RequestParts, CountersWrap, BlockChangeIsCoherent, AcceptIsCoherent
  <1> QED
    BY <1>1, <1>2, <1>3, <1>4, <1>5
       DEF HandleRequestTransfer, HandleTransferData, HandleRequestTransferExit

(* The services that change nothing.                                      *)
LEMMA StatelessIsCoherent ==
    ASSUME ecu \in Coherent, NEW r \in Request
    PROVE  /\ HandleReadDataByIdentifier(r) \in Outcomes
           /\ HandleRoutineControl(r) \in Outcomes
           /\ HandleTesterPresent(r) \in Outcomes
  <1>1. Refuse("0x31") \in Outcomes /\ Refuse("0x12") \in Outcomes
    BY RefuseIsCoherent, RefusalsAreSayings DEF Refusal
  <1>2. Accept(ecu) \in Outcomes
    BY AcceptIsCoherent
  <1>3. AcceptQuietly(r, ecu) \in Outcomes
    BY AcceptQuietlyIsCoherent
  <1> QED
    BY <1>1, <1>2, <1>3 DEF HandleReadDataByIdentifier, HandleRoutineControl,
                            HandleTesterPresent

(* Every request leads from a coherent state to a coherent outcome.        *)
LEMMA HandleIsCoherent ==
    ASSUME ecu \in Coherent, NEW r \in Request
    PROVE  Handle(r) \in Outcomes
  <1>1. Refuse("0x11") \in Outcomes
    BY RefuseIsCoherent, RefusalsAreSayings DEF Refusal
  <1>2. r.service \in Service
    BY RequestParts
  <1> QED
    BY <1>1, <1>2, SessionControlIsCoherent, ResetIsCoherent,
       SecurityAccessIsCoherent, TransferIsCoherent, StatelessIsCoherent
       DEF Handle, Service

(* Clearing the suppress bit leaves a request.                             *)
LEMMA ClearedRequestIsARequest ==
    ASSUME NEW r \in Request
    PROVE  ClearSuppressBitIfPending(r) \in Request
  BY DEF ClearSuppressBitIfPending, Request, SuppressCapableServices

(* The same with the request the handler really gets.                     *)
LEMMA OutcomeIsCoherent ==
    ASSUME ecu \in Coherent, NEW r \in Request
    PROVE  Outcome(r) \in Outcomes
  BY ClearedRequestIsARequest, HandleIsCoherent DEF Outcome

(* Rolled back or not, the state after a request is coherent.              *)
LEMMA StateAfterIsCoherent ==
    ASSUME ecu \in Coherent, NEW r \in Request
    PROVE  StateAfter(r) \in Coherent
  <1>1. Outcome(r).next \in Coherent
    BY OutcomeIsCoherent DEF Outcomes
  <1>2. Outcome(r).next.block \in Block \cup {NoTransfer}
    BY <1>1 DEF Coherent, Diagnostic
  <1> QED
    BY <1>1, <1>2, BlockChangeIsCoherent DEF StateAfter

(* The plan of a request has the type of a plan.                           *)
LEMMA PlanHasItsType ==
    ASSUME Inv, NEW r \in Request
    PROVE  BuildResponsePlan(r) \in Plan
  <1>1. Outcome(r).says \in Saying
    BY OutcomeIsCoherent DEF Outcomes, Inv
  <1>2. config.rule.says \in Saying
    BY EcuAssumption DEF Inv, TypeOK, Config, Rule
  <1>3. Words(r) \in Saying
    BY <1>1, <1>2 DEF Words
  <1>4. \A s \in Saying : Transmitted(s) \in Saying
    BY DEF Transmitted, Saying
  <1>5. "0x7F" \in Saying /\ Nothing \in Saying
    BY DEF Saying, Refusal
  <1>6. OverrideApplies(r) \in BOOLEAN
    BY DEF OverrideApplies
  <1>7. ResolvePendingCountFor(r) \in BOOLEAN
    BY DEF ResolvePendingCountFor
  <1> QED
    BY <1>1, <1>3, <1>4, <1>5, <1>6, <1>7 DEF BuildResponsePlan, Plan

(* A new ECU satisfies the invariant.                                     *)
LEMMA InitEstablishes == Init => Inv
  <1> SUFFICES ASSUME Init PROVE Inv
    OBVIOUS
  <1>1. ecu \in Coherent /\ ecu \in Diagnostic
    BY EcuAssumption DEF Init, Coherent, Diagnostic, Locked, NoTransfer
  <1>2. config \in Config
    BY DEF Init, Config
  <1>3. answer \in Plan
    BY DEF Init, Plan, Saying
  <1> QED
    BY <1>1, <1>2, <1>3 DEF Inv, TypeOK, Init

(* No step leaves the invariant.                                           *)
LEMMA NextKeeps == Inv /\ [Next]_vars => Inv'
  <1> SUFFICES ASSUME Inv, [Next]_vars PROVE Inv'
    OBVIOUS
  <1>1. ASSUME NEW r \in Request, ProcessRequest(r)
        PROVE  Inv'
    <2>1. ecu' \in Coherent
      BY <1>1, StateAfterIsCoherent DEF ProcessRequest, Inv
    <2>2. ecu' \in Diagnostic
      BY <2>1 DEF Coherent
    <2>3. answer' \in Plan
      BY <1>1, PlanHasItsType DEF ProcessRequest
    <2>4. taken' \in Block \cup {NoTransfer}
      BY <1>1, RequestParts DEF ProcessRequest, TakenAfter, Inv, TypeOK
    <2> QED
      BY <1>1, <2>1, <2>2, <2>3, <2>4 DEF Inv, TypeOK, ProcessRequest,
         Coherent, Diagnostic, Config, Plan, Block
  <1>2. ASSUME NEW c \in Config, Configure(c)
        PROVE  Inv'
    BY <1>2 DEF Configure, Inv, TypeOK, Config, Coherent, Diagnostic, Plan, Block
  <1>3. CASE SetResponseOverrides
    <2>1. PICK rule \in Rules : Configure([config EXCEPT !.rule = rule])
      BY <1>3 DEF SetResponseOverrides
    <2>2. [config EXCEPT !.rule = rule] \in Config
      BY DEF Inv, TypeOK, Config
    <2> QED BY <1>2, <2>1, <2>2
  <1>4. CASE SetSecurityLevels
    <2>1. PICK levels \in LevelTables :
              Configure([config EXCEPT !.levels = levels])
      BY <1>4 DEF SetSecurityLevels
    <2>2. [config EXCEPT !.levels = levels] \in Config
      BY DEF Inv, TypeOK, Config
    <2> QED BY <1>2, <2>1, <2>2
  <1>5. CASE SetTiming
    <2>1. PICK timing \in Timings : Configure([config EXCEPT !.timing = timing])
      BY <1>5 DEF SetTiming
    <2>2. [config EXCEPT !.timing = timing] \in Config
      BY DEF Inv, TypeOK, Config
    <2> QED BY <1>2, <2>1, <2>2
  <1>6. CASE SetPermissive
    <2>1. PICK b \in BOOLEAN : Configure([config EXCEPT !.permissive = b])
      BY <1>6 DEF SetPermissive
    <2>2. [config EXCEPT !.permissive = b] \in Config
      BY DEF Inv, TypeOK, Config
    <2> QED BY <1>2, <2>1, <2>2
  <1>7. CASE UNCHANGED vars
    BY <1>7 DEF vars, Inv, TypeOK, Config, Coherent, Diagnostic, Plan, Block
  <1> QED
    BY <1>1, <1>3, <1>4, <1>5, <1>6, <1>7 DEF Next

(* The invariant the other theorems follow from.                           *)
THEOREM EcuInvariant == Spec => []Inv
  BY InitEstablishes, NextKeeps, PTL DEF Spec

(* The ECU's state, its configuration and its plans keep their types.      *)
THEOREM EcuTypeCorrect == Spec => []TypeOK
  <1>1. Inv => TypeOK
    BY DEF Inv
  <1> QED BY <1>1, EcuInvariant, PTL

(* The default session is locked, for every set of sessions and levels and
   whatever the operator configures.                                       *)
THEOREM DefaultSessionStaysLocked == Spec => []DefaultSessionIsLocked
  <1>1. Inv => DefaultSessionIsLocked
    BY DEF Inv, Coherent, DefaultSessionIsLocked
  <1> QED BY <1>1, EcuInvariant, PTL

-----------------------------------------------------------------------------
(* What the handler did, read off its answer: a refusal changes nothing, and
   a service that is not said to change the state changes no more than the
   block.                                                                  *)
LEMMA HandlerKeepsItsWord ==
    ASSUME ecu \in Coherent, NEW r \in Request
    PROVE  /\ Handle(r).says \in Refusal => Handle(r).next = ecu
           /\ r.service \notin StateChangingServices =>
                 /\ Handle(r).next.session = ecu.session
                 /\ Handle(r).next.unlocked = ecu.unlocked
                 /\ Handle(r).next.seed = ecu.seed
  <1> USE DEF Refuse, Accept, AcceptQuietly, Nothing, Positive, Refusal
  <1>1. ecu \in Diagnostic
    BY DEF Coherent
  <1>2. ASSUME NEW b
        PROVE  /\ [ecu EXCEPT !.block = b].session = ecu.session
               /\ [ecu EXCEPT !.block = b].unlocked = ecu.unlocked
               /\ [ecu EXCEPT !.block = b].seed = ecu.seed
    BY <1>1 DEF Diagnostic
  <1>3. CASE r.service \notin Declared /\ ~config.permissive
    BY <1>3 DEF Handle
  <1>4. CASE ~(r.service \notin Declared /\ ~config.permissive)
    <2>1. CASE r.service = "SessionControl"
      BY <1>4, <2>1 DEF Handle, HandleDiagnosticSessionControl,
                        StateChangingServices
    <2>2. CASE r.service = "Reset"
      BY <1>4, <2>2 DEF Handle, HandleEcuReset, StateChangingServices
    <2>3. CASE r.service = "SecurityAccess"
      BY <1>4, <2>3 DEF Handle, HandleSecurityAccess, HandleSecurityRequestSeed,
                        HandleSecuritySendKey, StateChangingServices
    <2>4. CASE r.service \in {"ReadData", "TesterPresent", "RoutineControl",
                              "WriteData"}
      BY <1>4, <2>4 DEF Handle, HandleReadDataByIdentifier,
                        HandleTesterPresent, HandleRoutineControl
    <2>5. CASE r.service \in {"RequestTransfer", "TransferData", "TransferExit"}
      BY <1>2, <1>4, <2>5 DEF Handle, HandleRequestTransfer,
                              HandleTransferData, HandleRequestTransferExit
    <2> QED
      BY <2>1, <2>2, <2>3, <2>4, <2>5, RequestParts DEF Service
  <1> QED BY <1>3, <1>4

(* The same of the request whose suppress bit may have been cleared.       *)
LEMMA OutcomeKeepsItsWord ==
    ASSUME ecu \in Coherent, NEW r \in Request
    PROVE  /\ Outcome(r).says \in Refusal => Outcome(r).next = ecu
           /\ r.service \notin StateChangingServices =>
                 /\ Outcome(r).next.session = ecu.session
                 /\ Outcome(r).next.unlocked = ecu.unlocked
                 /\ Outcome(r).next.seed = ecu.seed
  <1>1. ClearSuppressBitIfPending(r).service = r.service
    BY DEF ClearSuppressBitIfPending, Request
  <1> QED
    BY <1>1, ClearedRequestIsARequest, HandlerKeepsItsWord DEF Outcome

(* Words and state agree, for every override an operator can write.        *)
LEMMA ProcessingRollsBack ==
    ASSUME Inv, NEW r \in Request, ProcessRequest(r),
           answer'.final \in Refusal, answer'.handler # Nothing
    PROVE  /\ ecu'.session = ecu.session
           /\ ecu'.unlocked = ecu.unlocked
           /\ ecu'.seed = ecu.seed
  <1>0. ecu \in Coherent /\ ecu \in Diagnostic
    BY DEF Inv, TypeOK
  <1>1. CASE SessionForbids(r)
    BY <1>1 DEF ProcessRequest, StateAfter
  <1>2. CASE ~SessionForbids(r) /\ ChangesAreDiscarded(r)
    BY <1>0, <1>2 DEF ProcessRequest, StateAfter, Diagnostic
  <1>3. CASE ~SessionForbids(r) /\ ~ChangesAreDiscarded(r)
    <2>1. ecu' = Outcome(r).next
      BY <1>3 DEF ProcessRequest, StateAfter
    <2>2. answer'.final = Transmitted(Words(r)) /\ answer'.handler = Outcome(r).says
      BY <1>3 DEF ProcessRequest, BuildResponsePlan
    <2>3. Words(r) \in Refusal
      BY <2>2 DEF Transmitted, Refusal, Nothing
    <2>4. Outcome(r).says \in Saying
      BY <1>0, OutcomeIsCoherent DEF Outcomes
    <2>5. CASE Outcome(r).says \in Refusal
      BY <1>0, <2>1, <2>5, OutcomeKeepsItsWord
    <2>6. CASE Outcome(r).says = Positive
      <3>1. OverrideApplies(r) /\ config.rule.says \in Refusal
        BY <2>3, <2>6 DEF Words, Refusal, Positive
      <3>2. r.service \notin StateChangingServices
        BY <1>3, <2>6, <3>1 DEF ChangesAreDiscarded
      <3> QED
        BY <1>0, <2>1, <3>2, OutcomeKeepsItsWord
    <2> QED
      BY <2>2, <2>4, <2>5, <2>6 DEF Saying
  <1> QED BY <1>1, <1>2, <1>3

(* No operator action and no stuttering step touches the ECU's state.      *)
LEMMA OnlyRequestsChangeTheEcu ==
    ASSUME [Next]_vars, ecu' # ecu
    PROVE  \E r \in Request : ProcessRequest(r)
  BY DEF Next, vars, SetResponseOverrides, SetSecurityLevels, SetTiming,
         SetPermissive, Configure

(* An answer that refuses has changed neither session nor security, for any
   overrides, levels and timing.                                           *)
THEOREM RefusalsRollBack == Spec => RefusalRollsBack
  <1> DEFINE Step ==
        <<ecu.session, ecu.unlocked, ecu.seed>>' #
            <<ecu.session, ecu.unlocked, ecu.seed>>
        => answer'.final \notin Refusal \/ answer'.handler = Nothing
  <1>1. Inv /\ [Next]_vars => [Step]_vars
    <2> SUFFICES ASSUME Inv, [Next]_vars PROVE Step
      OBVIOUS
    <2> SUFFICES ASSUME answer'.final \in Refusal, answer'.handler # Nothing
                 PROVE  <<ecu.session, ecu.unlocked, ecu.seed>>' =
                            <<ecu.session, ecu.unlocked, ecu.seed>>
      OBVIOUS
    <2>1. CASE ecu' = ecu
      BY <2>1
    <2>2. CASE ecu' # ecu
      BY <2>2, OnlyRequestsChangeTheEcu, ProcessingRollsBack
    <2> QED BY <2>1, <2>2
  <1>2. Spec => [][Step]_vars
    BY <1>1, EcuInvariant, PTL DEF Spec
  <1> QED BY <1>2 DEF RefusalRollsBack

-----------------------------------------------------------------------------
(* Every plan is one a request built, so what holds of those holds always. *)
PlansAreHonest == SuppressedAnswerStaysQuiet /\ PendingMeansMine

(* A suppressed positive answer leaves the handler empty.                  *)
LEMMA SuppressedMeansSilent ==
    ASSUME NEW r \in Request, r.suppress, Handle(r).says = Positive
    PROVE  FALSE
  <1>1. r.service \in {"SessionControl", "Reset", "TesterPresent",
                       "RoutineControl"}
    BY DEF Request
  <1> QED
    BY <1>1 DEF Handle, HandleDiagnosticSessionControl, HandleEcuReset,
                HandleTesterPresent, HandleRoutineControl, AcceptQuietly,
                Refuse, Nothing, Positive

(* What announces its answer has a handler.                                *)
LEMMA ImplementedIsAnswered ==
    ASSUME NEW r \in Request, r.service \in Declared \cap ImplementedServices
    PROVE  Handle(r).says # "0x11"
  <1> USE DEF Refuse, Accept, AcceptQuietly, Nothing, Positive
  <1>1. CASE r.service = "SessionControl"
    BY <1>1 DEF Handle, HandleDiagnosticSessionControl
  <1>2. CASE r.service = "Reset"
    BY <1>2 DEF Handle, HandleEcuReset
  <1>3. CASE r.service = "SecurityAccess"
    BY <1>3 DEF Handle, HandleSecurityAccess, HandleSecurityRequestSeed,
                HandleSecuritySendKey
  <1>4. CASE r.service \in {"ReadData", "RoutineControl", "TesterPresent"}
    BY <1>4 DEF Handle, HandleReadDataByIdentifier, HandleRoutineControl,
                HandleTesterPresent
  <1> QED
    BY <1>1, <1>2, <1>3, <1>4 DEF ImplementedServices

(* A request builds an honest plan.                                       *)
LEMMA ProcessingIsHonest ==
    ASSUME NEW r \in Request, ProcessRequest(r)
    PROVE  PlansAreHonest'
  <1> DEFINE c == ClearSuppressBitIfPending(r)
  <1>0. c \in Request /\ c.service = r.service
    BY ClearedRequestIsARequest DEF ClearSuppressBitIfPending, Request
  <1>1. CASE SessionForbids(r)
    BY <1>1 DEF ProcessRequest, BuildResponsePlan, PlansAreHonest, Transmitted,
                SuppressedAnswerStaysQuiet, PendingMeansMine, Nothing, Positive
  <1>2. CASE ~SessionForbids(r)
    <2>1. /\ answer'.request = r
          /\ answer'.handler = Handle(c).says
          /\ answer'.final = Transmitted(Words(r))
          /\ answer'.pending = ResolvePendingCountFor(r)
          /\ answer'.overridden = OverrideApplies(r)
      BY <1>2 DEF ProcessRequest, BuildResponsePlan, Outcome
    <2>2. ASSUME r.suppress, answer'.final = Positive, ~answer'.overridden,
                 ~answer'.pending
          PROVE  FALSE
      <3>1. c = r
        BY <2>1, <2>2 DEF ClearSuppressBitIfPending
      <3>2. Words(r) = Positive
        BY <2>1, <2>2 DEF Transmitted, Nothing, Positive
      <3>3. Handle(r).says = Positive
        BY <2>1, <2>2, <3>1, <3>2 DEF Words, Outcome
      <3> QED BY <2>2, <3>3, SuppressedMeansSilent
    <2>3. answer'.pending => answer'.handler # "0x11"
      BY <1>0, <2>1, ImplementedIsAnswered DEF ResolvePendingCountFor
    <2> QED
      BY <2>1, <2>2, <2>3
         DEF PlansAreHonest, SuppressedAnswerStaysQuiet, PendingMeansMine
  <1> QED BY <1>1, <1>2

(* Honest plans stay in place until the next request builds one.          *)
LEMMA PlansStayHonest ==
    /\ Init => PlansAreHonest
    /\ PlansAreHonest /\ [Next]_vars => PlansAreHonest'
  <1>1. Init => PlansAreHonest
    BY DEF Init, PlansAreHonest, SuppressedAnswerStaysQuiet, PendingMeansMine,
           NoRequest, Nothing, Positive
  <1>2. ASSUME PlansAreHonest, [Next]_vars
        PROVE  PlansAreHonest'
    <2>1. CASE \E r \in Request : ProcessRequest(r)
      BY <2>1, ProcessingIsHonest
    <2>2. CASE answer' = answer
      BY <1>2, <2>2 DEF PlansAreHonest, SuppressedAnswerStaysQuiet,
                        PendingMeansMine
    <2> QED
      BY <1>2, <2>1, <2>2 DEF Next, vars, SetResponseOverrides, SetTiming,
         SetSecurityLevels, SetPermissive, Configure
  <1> QED BY <1>1, <1>2

(* No positive answer reaches a tester that suppressed it, unless announced
   or written by the operator.                                             *)
THEOREM SuppressedAnswersStayQuiet == Spec => []SuppressedAnswerStaysQuiet
  <1>1. PlansAreHonest => SuppressedAnswerStaysQuiet
    BY DEF PlansAreHonest
  <1> QED BY <1>1, PlansStayHonest, PTL DEF Spec

(* No ResponsePending announces a refusal of a service nothing implements. *)
THEOREM PendingsAreMeant == Spec => []PendingMeansMine
  <1>1. PlansAreHonest => PendingMeansMine
    BY DEF PlansAreHonest
  <1> QED BY <1>1, PlansStayHonest, PTL DEF Spec

-----------------------------------------------------------------------------
(* Unlocking: the key of a level is the only way in.                       *)

(* What must hold when a level is unlocked in state e.                     *)
KeyTurns(e) ==
    /\ ecu.session # DefaultSession
    /\ e.session = ecu.session
    /\ ecu.seed = e.unlocked
    /\ e.seed = Locked
    /\ config.levels[e.unlocked] \in {"Compare", "AcceptAny"}

(* Only SendKey unlocks, and it says so.                                   *)
LEMMA HandlerTurnsKeys ==
    ASSUME Inv, NEW r \in Request, Handle(r).next.unlocked \notin {Locked, ecu.unlocked}
    PROVE  KeyTurns(Handle(r).next) /\ Handle(r).says = Positive
  <1>0. ecu \in Coherent /\ ecu \in Diagnostic
    BY DEF Inv, TypeOK
  <1>1. /\ r.service \in StateChangingServices
        /\ ~(r.service \notin Declared /\ ~config.permissive)
    BY <1>0, HandlerKeepsItsWord DEF Handle, Refuse
  <1>2. ASSUME NEW e \in Diagnostic
        PROVE  LockSecurity(e).unlocked = Locked
    BY DEF LockSecurity, Diagnostic
  <1>3. CASE r.service = "SessionControl"
    <2>1. Handle(r) = HandleDiagnosticSessionControl(r)
      BY <1>1, <1>3 DEF Handle
    <2>2. r.sub \in SupportedSession /\ Handle(r).next = SetSession(ecu, r.sub)
      BY <2>1 DEF HandleDiagnosticSessionControl, Refuse, AcceptQuietly
    <2>3. /\ [ecu EXCEPT !.session = r.sub] \in Diagnostic
          /\ [ecu EXCEPT !.session = r.sub].unlocked = ecu.unlocked
      BY <1>0, <2>2 DEF Diagnostic
    <2> QED
      BY <1>2, <2>2, <2>3 DEF SetSession
  <1>4. CASE r.service = "Reset"
    <2>1. Handle(r).next = ResetToDefaultSession(ecu)
      BY <1>1, <1>4 DEF Handle, HandleEcuReset, AcceptQuietly
    <2>2. [ecu EXCEPT !.session = DefaultSession, !.block = NoTransfer] \in Diagnostic
      BY <1>0, EcuAssumption DEF Diagnostic
    <2> QED
      BY <1>2, <2>1, <2>2 DEF ResetToDefaultSession
  <1>5. CASE r.service = "SecurityAccess"
    <2>1. Handle(r) = HandleSecurityAccess(r)
      BY <1>1, <1>5 DEF Handle
    <2>2. ecu.session # DefaultSession
      BY <2>1 DEF HandleSecurityAccess, Refuse
    <2>3. [ecu EXCEPT !.seed = r.sub].unlocked = ecu.unlocked
      BY <1>0 DEF Diagnostic
    <2>4. Handle(r) = HandleSecuritySendKey(r)
      BY <2>1, <2>2, <2>3 DEF HandleSecurityAccess, HandleSecurityRequestSeed,
                              Refuse, Accept
    <2> DEFINE level == r.sub - 1
               e == [ecu EXCEPT !.unlocked = level, !.seed = Locked]
    <2>5. /\ config.levels[level] # "Absent" /\ ecu.seed = level
          /\ KeyIsAccepted(config.levels[level], r)
          /\ Handle(r).next = e /\ Handle(r).says = Positive
      BY <2>4 DEF HandleSecuritySendKey, Refuse, Accept
    <2>6. e.session = ecu.session /\ e.unlocked = level /\ e.seed = Locked
      BY <1>0 DEF Diagnostic
    <2>7. config.levels[level] \in {"Compare", "AcceptAny"}
      BY <2>5 DEF KeyIsAccepted
    <2> HIDE DEF level, e
    <2> QED
      BY <2>2, <2>5, <2>6, <2>7 DEF KeyTurns
  <1> QED
    BY <1>1, <1>3, <1>4, <1>5 DEF StateChangingServices

(* A request that unlocks a level turned its key.                          *)
LEMMA ProcessingTurnsKeys ==
    ASSUME Inv, NEW r \in Request, ProcessRequest(r),
           ecu'.unlocked \notin {Locked, ecu.unlocked}
    PROVE  KeyTurns(ecu') /\ answer'.handler = Positive
  <1>0. ecu \in Diagnostic
    BY DEF Inv, TypeOK
  <1> DEFINE c == ClearSuppressBitIfPending(r)
  <1>1. c \in Request
    BY ClearedRequestIsARequest
  <1>2. ~SessionForbids(r) /\ ~ChangesAreDiscarded(r)
    BY <1>0 DEF ProcessRequest, StateAfter, Diagnostic
  <1>3. ecu' = Handle(c).next /\ answer'.handler = Handle(c).says
    BY <1>2 DEF ProcessRequest, StateAfter, BuildResponsePlan, Outcome
  <1>4. Handle(c).next.unlocked \notin {Locked, ecu.unlocked}
    BY <1>3
  <1> HIDE DEF c
  <1> QED
    BY <1>1, <1>3, <1>4, HandlerTurnsKeys

(* A level is unlocked with its own seed, once, outside the default session,
   by an answer that does not refuse, for any levels and overrides.        *)
THEOREM UnlocksTakeTheirSeed == Spec => UnlockTakesItsSeed
  <1> DEFINE Step ==
        ecu'.unlocked \notin {Locked, ecu.unlocked}
        => /\ ecu.session # DefaultSession
           /\ ecu'.session = ecu.session
           /\ ecu.seed = ecu'.unlocked
           /\ ecu'.seed = Locked
           /\ config.levels[ecu'.unlocked] \in {"Compare", "AcceptAny"}
           /\ answer'.final \notin Refusal
  <1>1. Inv /\ [Next]_vars => [Step]_vars
    <2> SUFFICES ASSUME Inv, [Next]_vars, ecu'.unlocked \notin {Locked, ecu.unlocked}
                 PROVE  KeyTurns(ecu') /\ answer'.final \notin Refusal
      BY DEF KeyTurns
    <2>1. PICK r \in Request : ProcessRequest(r)
      BY OnlyRequestsChangeTheEcu
    <2>2. KeyTurns(ecu') /\ answer'.handler = Positive
      BY <2>1, ProcessingTurnsKeys
    <2>3. answer'.final \notin Refusal
      BY <2>1, <2>2, ProcessingRollsBack DEF Positive, Nothing
    <2> QED
      BY <2>2, <2>3
  <1>2. Spec => [][Step]_vars
    BY <1>1, EcuInvariant, PTL DEF Spec
  <1> QED BY <1>2 DEF UnlockTakesItsSeed

-----------------------------------------------------------------------------
(* Announced answers.                                                      *)

(* The handler is silent only towards a tester that asked for silence, with
   a service that has a suppress bit.                                      *)
LEMMA SilenceWasAskedFor ==
    ASSUME NEW r \in Request, Handle(r).says = Nothing
    PROVE  r.suppress /\ r.service \in SuppressCapableServices
  <1> USE DEF Refuse, Accept, AcceptQuietly, Nothing, Positive, SuppressCapableServices
  <1>1. ~(r.service \notin Declared /\ ~config.permissive)
    BY DEF Handle
  <1>2. CASE r.service \in {"SessionControl", "Reset", "TesterPresent"}
    BY <1>1, <1>2 DEF Handle, HandleDiagnosticSessionControl, HandleEcuReset,
                      HandleTesterPresent
  <1>3. CASE r.service = "SecurityAccess"
    BY <1>1, <1>3 DEF Handle, HandleSecurityAccess, HandleSecurityRequestSeed,
                      HandleSecuritySendKey
  <1>4. CASE r.service \in {"ReadData", "RoutineControl", "WriteData"}
    BY <1>1, <1>4 DEF Handle, HandleReadDataByIdentifier, HandleRoutineControl
  <1>5. CASE r.service \in {"RequestTransfer", "TransferData", "TransferExit"}
    BY <1>1, <1>5 DEF Handle, HandleRequestTransfer, HandleTransferData,
                      HandleRequestTransferExit
  <1> QED
    BY <1>2, <1>3, <1>4, <1>5, RequestParts DEF Service

(* The handler gets an announced request without its suppress bit.         *)
LEMMA AnnouncedIsAnswered ==
    ASSUME NEW r \in Request, ResolvePendingCountFor(r)
    PROVE  Outcome(r).says # Nothing
  <1> DEFINE c == ClearSuppressBitIfPending(r)
  <1> SUFFICES ASSUME Handle(c).says = Nothing PROVE FALSE
    BY DEF Outcome
  <1>1. c \in Request /\ c.service = r.service
    BY ClearedRequestIsARequest DEF ClearSuppressBitIfPending, Request
  <1>2. c.suppress /\ c.service \in SuppressCapableServices
    BY <1>1, SilenceWasAskedFor
  <1>3. c = [r EXCEPT !.suppress = FALSE]
    BY <1>1, <1>2 DEF ClearSuppressBitIfPending
  <1>4. c.suppress = FALSE
    BY <1>3, Zenon DEF Request
  <1> QED
    BY <1>2, <1>4

(* What announces an answer sends one, unless the operator's override or drop
   takes it away, for any timing and any overrides.                        *)
THEOREM PendingsAreFollowed == Spec => PendingIsFollowedByAnAnswer
  <1> DEFINE Step ==
        answer' # answer /\ answer'.pending /\ answer'.final = Nothing
        => answer'.overridden \/ config.timing.dropped
  <1>1. [Next]_vars => [Step]_vars
    <2> SUFFICES ASSUME [Next]_vars, answer' # answer, answer'.pending,
                        ~answer'.overridden, ~config.timing.dropped
                 PROVE  answer'.final # Nothing
      OBVIOUS
    <2>1. PICK r \in Request : ProcessRequest(r)
      BY DEF Next, vars, SetResponseOverrides, SetSecurityLevels, SetTiming,
             SetPermissive, Configure
    <2>2. ~SessionForbids(r)
      BY <2>1 DEF ProcessRequest, BuildResponsePlan
    <2>3. /\ answer'.final = Transmitted(Words(r))
          /\ answer'.pending = ResolvePendingCountFor(r)
          /\ answer'.overridden = OverrideApplies(r)
      BY <2>1, <2>2 DEF ProcessRequest, BuildResponsePlan
    <2>4. answer'.final = Outcome(r).says
      BY <2>3 DEF Words, Transmitted
    <2> QED
      BY <2>3, <2>4, AnnouncedIsAnswered
  <1>2. Spec => [][Step]_vars
    BY <1>1, PTL DEF Spec
  <1> QED BY <1>2 DEF PendingIsFollowedByAnAnswer
=============================================================================
