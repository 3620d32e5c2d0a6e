----------------------------- MODULE VirtualEcu -----------------------------
(***************************************************************************)
(* One simulated ECU: the diagnostic state and the answer of               *)
(* crates/ecu/src/lib.rs around the UDS handler of                         *)
(* plugins/protocols/l7-application/uds/src/handler.rs, with an operator   *)
(* who changes overrides, security levels, timing and permissive mode      *)
(* between requests.                                                       *)
(*                                                                         *)
(* A request is its service, the value of its second byte without the      *)
(* suppress bit, that bit, and whether the rest is what the service wants. *)
(* Data identifiers, DTCs, routine results and logging are left out.       *)
(***************************************************************************)
EXTENDS Integers

CONSTANTS
    Session,          \* sub-functions of the sessions a tester asks for
    Level,            \* requestSeed sub-functions of the security levels
    Modulus,          \* number of block counters, 256 in the code
    Declared,         \* services the ECU lists as supported
    SupportedSession, \* sessions the ECU can enter
    SessionServices,  \* services each session allows
    LevelTables,      \* security levels an operator can store
    Timings,          \* timing settings an operator can store
    Rules             \* response overrides an operator can store

DefaultSession == 1

Service ==
    {"SessionControl", "Reset", "SecurityAccess", "ReadData", "TesterPresent",
     "RoutineControl", "RequestTransfer", "TransferData", "TransferExit",
     "WriteData"}

KeyPolicy == {"Compare", "AcceptAny", "RefuseWith"}

(* A late answer starts after P2; P4 above P2 is what allows announcing it. *)
Timing == [late: BOOLEAN, forced: BOOLEAN, enhanced: BOOLEAN, dropped: BOOLEAN]

(* What the ECU says: nothing, a positive answer, or a refusal's code.     *)
Nothing == "Nothing"
Positive == "Positive"
Refusal ==
    {"0x11", "0x12", "0x13", "0x22", "0x24", "0x31", "0x35", "0x73", "0x7F"}
Saying == {Nothing, Positive} \cup Refusal

(* An override matches a service and the suppress bit the tester sent.  The
   service "None" is that of an override that matches nothing.             *)
Rule ==
    [service: Service \cup {"None"}, suppress: BOOLEAN, says: Saying,
     evenIfSuppressed: BOOLEAN]

ASSUME EcuAssumption ==
    /\ Modulus \in Nat \ {0}
    /\ Session \subseteq Nat
    /\ Level \subseteq {n \in Nat : n % 2 = 1}
    /\ Declared \subseteq Service
    /\ DefaultSession \in SupportedSession
    /\ SupportedSession \subseteq Session
    /\ SessionServices \in [SupportedSession -> SUBSET Service]
    /\ LevelTables \subseteq [Level -> KeyPolicy \cup {"Absent"}]
    /\ Timings \subseteq Timing
    /\ \A t \in Timings : t.late => t.enhanced
    /\ Rules \subseteq Rule

VARIABLES
    ecu,     \* session, unlocked level, level of the seed given out, block expected
    config,  \* override, security levels, timing, permissive mode
    answer,  \* the response plan of the last request
    taken    \* history: the block last taken in the open transfer

vars == <<ecu, config, answer, taken>>

Locked == 0
NoTransfer == -1
Block == 0 .. Modulus - 1

Diagnostic ==
    [session: SupportedSession, unlocked: Level \cup {Locked},
     seed: Level \cup {Locked}, block: Block \cup {NoTransfer}]

Config ==
    [rule: Rules, levels: LevelTables, timing: Timings, permissive: BOOLEAN]

Request ==
    [service: {"SessionControl"}, sub: Session, suppress: BOOLEAN,
     body: {"Right"}]
    \cup [service: {"SessionControl"}, sub: {DefaultSession},
          suppress: BOOLEAN, body: {"Short"}]
    \cup [service: {"Reset", "TesterPresent", "RoutineControl"}, sub: {0},
          suppress: BOOLEAN, body: {"Right"}]
    \cup [service: {"SecurityAccess"},
          sub: Level \cup {l + 1 : l \in Level}, suppress: {FALSE},
          body: {"Right", "Wrong"}]
    \cup [service: {"ReadData"}, sub: {0}, suppress: {FALSE},
          body: {"Right", "Wrong"}]
    \cup [service: {"RequestTransfer"}, sub: {0}, suppress: {FALSE},
          body: {"Right", "Short"}]
    \cup [service: {"TransferData"}, sub: Block, suppress: {FALSE},
          body: {"Right"}]
    \cup [service: {"TransferExit", "WriteData"}, sub: {0}, suppress: {FALSE},
          body: {"Right"}]

NoRequest ==
    [service |-> "None", sub |-> 0, suppress |-> FALSE, body |-> "Right"]

(* The response plan: what the handler said, what goes on the wire last, and
   whether a ResponsePending goes out before it.                           *)
Plan ==
    [request: Request \cup {NoRequest}, handler: Saying, final: Saying,
     pending: BOOLEAN, overridden: BOOLEAN]

-----------------------------------------------------------------------------
(* The state changes a handler can ask for.                                *)

LockSecurity(e) == [e EXCEPT !.unlocked = Locked, !.seed = Locked]

(* Mutated form of SetSession: entering the default session locks nothing. *)
SetSessionOnly(e, s) == [e EXCEPT !.session = s]

SetSession(e, s) ==
    LET entered == [e EXCEPT !.session = s]
    IN  IF s = DefaultSession THEN LockSecurity(entered) ELSE entered

ResetToDefaultSession(e) ==
    LockSecurity([e EXCEPT !.session = DefaultSession, !.block = NoTransfer])

NextBlockSequenceCounter(n) == (n + 1) % Modulus
PreviousBlockSequenceCounter(n) == (n + Modulus - 1) % Modulus

-----------------------------------------------------------------------------
(* The services.  An outcome is what the handler answers and the state its
   changes lead to.                                                        *)

Refuse(nrc) == [says |-> nrc, next |-> ecu]
Accept(next) == [says |-> Positive, next |-> next]
AcceptQuietly(r, next) ==
    [says |-> IF r.suppress THEN Nothing ELSE Positive, next |-> next]

HandleDiagnosticSessionControl(r) ==
    IF r.body = "Short" THEN Refuse("0x13")
    ELSE IF r.sub \notin SupportedSession THEN Refuse("0x12")
    ELSE AcceptQuietly(r, SetSession(ecu, r.sub))

HandleEcuReset(r) == AcceptQuietly(r, ResetToDefaultSession(ecu))

HandleSecurityRequestSeed(r) ==
    IF config.levels[r.sub] = "Absent" THEN Refuse("0x12")
    ELSE IF ecu.unlocked = r.sub THEN Accept(ecu)
    ELSE Accept([ecu EXCEPT !.seed = r.sub])

(* The code a refusing level answers with is the operator's; it is taken to
   be the one of a wrong key.                                              *)
KeyIsAccepted(policy, r) ==
    policy = "AcceptAny" \/ (policy = "Compare" /\ r.body = "Right")

(* Mutated form of HandleSecuritySendKey: the key is looked at before the
   order of the two messages.                                              *)
SendKeyInAnyOrder(r) ==
    LET level == r.sub - 1
    IN  IF config.levels[level] = "Absent" THEN Refuse("0x12")
        ELSE IF KeyIsAccepted(config.levels[level], r)
             THEN Accept([ecu EXCEPT !.unlocked = level, !.seed = Locked])
        ELSE IF ecu.seed # level THEN Refuse("0x24")
        ELSE Refuse("0x35")

HandleSecuritySendKey(r) ==
    LET level == r.sub - 1
    IN  IF config.levels[level] = "Absent" THEN Refuse("0x12")
        ELSE IF ecu.seed # level THEN Refuse("0x24")
        ELSE IF KeyIsAccepted(config.levels[level], r)
             THEN Accept([ecu EXCEPT !.unlocked = level, !.seed = Locked])
        ELSE Refuse("0x35")

HandleSecurityAccess(r) ==
    IF ecu.session = DefaultSession THEN Refuse("0x7F")
    ELSE IF r.sub \in Level THEN HandleSecurityRequestSeed(r)
    ELSE HandleSecuritySendKey(r)

HandleReadDataByIdentifier(r) ==
    IF r.body = "Wrong" THEN Refuse("0x31") ELSE Accept(ecu)

(* The routine control type is compared with the suppress bit still in it. *)
HandleRoutineControl(r) == IF r.suppress THEN Refuse("0x12") ELSE Accept(ecu)

HandleTesterPresent(r) == AcceptQuietly(r, ecu)

HandleRequestTransfer(r) ==
    IF r.body = "Short" THEN Refuse("0x13")
    ELSE Accept([ecu EXCEPT !.block = 1 % Modulus])

HandleTransferData(r) ==
    IF ecu.block = NoTransfer THEN Refuse("0x24")
    ELSE IF r.sub = PreviousBlockSequenceCounter(ecu.block) THEN Accept(ecu)
    ELSE IF r.sub # ecu.block THEN Refuse("0x73")
    ELSE Accept([ecu EXCEPT !.block = NextBlockSequenceCounter(r.sub)])

HandleRequestTransferExit == Accept([ecu EXCEPT !.block = NoTransfer])

Handle(r) ==
    IF r.service \notin Declared /\ ~config.permissive THEN Refuse("0x11")
    ELSE CASE r.service = "SessionControl"  -> HandleDiagnosticSessionControl(r)
           [] r.service = "Reset"           -> HandleEcuReset(r)
           [] r.service = "SecurityAccess"  -> HandleSecurityAccess(r)
           [] r.service = "ReadData"        -> HandleReadDataByIdentifier(r)
           [] r.service = "TesterPresent"   -> HandleTesterPresent(r)
           [] r.service = "RoutineControl"  -> HandleRoutineControl(r)
           [] r.service = "RequestTransfer" -> HandleRequestTransfer(r)
           [] r.service = "TransferData"    -> HandleTransferData(r)
           [] r.service = "TransferExit"    -> HandleRequestTransferExit
           [] r.service = "WriteData"       -> Refuse("0x11")

-----------------------------------------------------------------------------
(* Around the handler.                                                     *)

ImplementedServices ==
    {"Reset", "ReadData", "SecurityAccess", "RoutineControl",
     "SessionControl", "TesterPresent"}

(* Mutated form of SuppressCapableServices: a reset never suppresses.      *)
SuppressCapableWithoutReset ==
    {"SessionControl", "RoutineControl", "TesterPresent"}

SuppressCapableServices ==
    {"SessionControl", "Reset", "RoutineControl", "TesterPresent"}

(* Mutated form of StateChangingServices: a session change is not one.     *)
StateChangingWithoutSessions == {"Reset", "SecurityAccess"}

StateChangingServices == {"SessionControl", "Reset", "SecurityAccess"}

Matches(r) ==
    config.rule.service = r.service /\ config.rule.suppress = r.suppress

SessionForbids(r) ==
    /\ r.service \notin SessionServices[ecu.session]
    /\ ~config.permissive
    /\ ~Matches(r)

(* Mutated form of ResolvePendingCountFor: declared is enough.             *)
PendingForDeclared(r) ==
    /\ r.service \in Declared
    /\ config.timing.enhanced
    /\ config.timing.late \/ config.timing.forced

(* Whether the answer is announced by at least one ResponsePending.        *)
ResolvePendingCountFor(r) ==
    /\ r.service \in Declared \cap ImplementedServices
    /\ config.timing.enhanced
    /\ config.timing.late \/ config.timing.forced

ClearSuppressBitIfPending(r) ==
    IF ResolvePendingCountFor(r) /\ r.service \in SuppressCapableServices
    THEN [r EXCEPT !.suppress = FALSE] ELSE r

Outcome(r) == Handle(ClearSuppressBitIfPending(r))

(* Overrides are matched with the bytes the tester sent.                   *)
OverrideApplies(r) ==
    /\ Matches(r)
    /\ Outcome(r).says # Nothing \/ config.rule.evenIfSuppressed

Words(r) == IF OverrideApplies(r) THEN config.rule.says ELSE Outcome(r).says

ChangesAreDiscarded(r) ==
    /\ r.service \in StateChangingServices
    /\ Outcome(r).says = Positive
    /\ OverrideApplies(r)
    /\ config.rule.says \in Refusal

StateAfter(r) ==
    IF SessionForbids(r) THEN ecu
    ELSE IF ChangesAreDiscarded(r)
         THEN [ecu EXCEPT !.block = Outcome(r).next.block]
    ELSE Outcome(r).next

Transmitted(says) == IF config.timing.dropped THEN Nothing ELSE says

BuildResponsePlan(r) ==
    IF SessionForbids(r)
    THEN [request |-> r, handler |-> Nothing, final |-> Transmitted("0x7F"),
          pending |-> FALSE, overridden |-> FALSE]
    ELSE [request |-> r, handler |-> Outcome(r).says,
          final |-> Transmitted(Words(r)),
          pending |-> ResolvePendingCountFor(r),
          overridden |-> OverrideApplies(r)]

(* A block that moved the counter is the one last taken; a transfer that
   starts or ends has taken none.                                          *)
TakenAfter(r) ==
    CASE r.service = "TransferData" /\ StateAfter(r).block # ecu.block -> r.sub
      [] r.service = "RequestTransfer" /\ BuildResponsePlan(r).handler = Positive
            -> NoTransfer
      [] StateAfter(r).block = NoTransfer -> NoTransfer
      [] OTHER -> taken

-----------------------------------------------------------------------------
ProcessRequest(r) ==
    /\ ecu' = StateAfter(r)
    /\ answer' = BuildResponsePlan(r)
    /\ taken' = TakenAfter(r)
    /\ UNCHANGED config

(* The operator: configuration changes, the diagnostic state does not.     *)
Configure(newConfig) ==
    /\ config' = newConfig
    /\ UNCHANGED <<ecu, answer, taken>>

SetResponseOverrides ==
    \E rule \in Rules : Configure([config EXCEPT !.rule = rule])

SetSecurityLevels ==
    \E levels \in LevelTables : Configure([config EXCEPT !.levels = levels])

SetTiming ==
    \E timing \in Timings : Configure([config EXCEPT !.timing = timing])

SetPermissive ==
    \E b \in BOOLEAN : Configure([config EXCEPT !.permissive = b])

Init ==
    /\ ecu = [session |-> DefaultSession, unlocked |-> Locked,
              seed |-> Locked, block |-> NoTransfer]
    /\ config \in [rule: Rules, levels: LevelTables, timing: Timings,
                   permissive: {FALSE}]
    /\ answer = [request |-> NoRequest, handler |-> Nothing,
                 final |-> Nothing, pending |-> FALSE, overridden |-> FALSE]
    /\ taken = NoTransfer

Next ==
    \/ \E r \in Request : ProcessRequest(r)
    \/ SetResponseOverrides
    \/ SetSecurityLevels
    \/ SetTiming
    \/ SetPermissive

Spec == Init /\ [][Next]_vars

-----------------------------------------------------------------------------
(* The state, the configuration and the plan keep their types.             *)
TypeOK ==
    /\ ecu \in Diagnostic
    /\ config \in Config
    /\ answer \in Plan
    /\ taken \in Block \cup {NoTransfer}

(* An ECU in the default session is locked and waits for no key, whichever
   requests, resets, rollbacks and operator changes led there.             *)
DefaultSessionIsLocked ==
    ecu.session = DefaultSession => ecu.unlocked = Locked /\ ecu.seed = Locked

(* What the ECU says and what it did agree: a refusal on the wire means the
   session and the security state are those from before the request.  The
   exception is a rule that answers a request whose own answer the tester
   had suppressed.                                                         *)
RefusalRollsBack ==
    [][<<ecu.session, ecu.unlocked, ecu.seed>>' #
            <<ecu.session, ecu.unlocked, ecu.seed>>
       => answer'.final \notin Refusal \/ answer'.handler = Nothing]_vars

(* A level is unlocked only outside the default session, with the seed of
   that very level, which is used up, and never by an answer that refuses. *)
UnlockTakesItsSeed ==
    [][ecu'.unlocked \notin {Locked, ecu.unlocked}
       => /\ ecu.session # DefaultSession
          /\ ecu'.session = ecu.session
          /\ ecu.seed = ecu'.unlocked
          /\ ecu'.seed = Locked
          /\ config.levels[ecu'.unlocked] \in {"Compare", "AcceptAny"}
          /\ answer'.final \notin Refusal]_vars

(* A ResponsePending is a promise: no suppress bit takes the final answer
   away, only a rule of the operator or a drop the operator asked for.     *)
PendingIsFollowedByAnAnswer ==
    [][answer' # answer /\ answer'.pending /\ answer'.final = Nothing
       => answer'.overridden \/ config.timing.dropped]_vars

(* A positive answer the tester suppressed stays off the wire, unless it was
   announced or an override says it.                                       *)
SuppressedAnswerStaysQuiet ==
    answer.request.suppress /\ answer.final = Positive
    => answer.pending \/ answer.overridden

(* A ResponsePending says that this ECU works on the request: the handler
   never refuses such a request as a service it does not have.             *)
PendingMeansMine == answer.pending => answer.handler # "0x11"

(* What c_arrStateChangingServices is documented to be for: an ECU that says
   it refused a session change, a reset or a key has not changed.          *)
RefusedServiceChangesNothing ==
    [][answer'.request.service \in StateChangingServices
       /\ answer'.final \in Refusal => ecu' = ecu]_vars

(* What ResolveResponsePendingCount is documented to ensure: an answer past
   P2 is announced when the service is one that answers.                   *)
LateAnswerIsAnnounced ==
    [][answer' # answer /\ config.timing.late
       /\ answer'.request.service \in Declared
       /\ answer'.handler = Positive => answer'.pending]_vars

(* What HandleTransferData documents: a block that repeats the previous
   counter is answered as it was answered the first time.                  *)
RetransmissionRepeatsAnAnswer ==
    [][answer' # answer /\ answer'.request.service = "TransferData"
       /\ answer'.handler = Positive /\ ecu'.block = ecu.block
       => taken = answer'.request.sub]_vars
=============================================================================
