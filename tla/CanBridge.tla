------------------------------ MODULE CanBridge ------------------------------
(***************************************************************************)
(* crates/bridge: one task that takes frames off a CAN bus, assembles      *)
(* requests, has the simulation answer them and sends the answers, over    *)
(* the operators of IsoTp.  A step is what the task does between two       *)
(* awaits; frames arrive, and the operator acts, between any two steps.    *)
(*                                                                         *)
(* Each request identifier has a tester at the other end of the bus, which *)
(* is an ISO-TP transmitter for requests and a receiver of answers.  What  *)
(* the bridge sends reaches it at once; what it sends waits on the bus     *)
(* until the bridge reads.  The bus loses nothing: faults of the link are  *)
(* IsoTpLink's subject, what the bridge itself does to frames is this one's. *)
(*                                                                         *)
(* A message is named by the identifier it belongs to, so that Ids are the *)
(* request identifiers: one per ECU, and one for broadcasts.               *)
(***************************************************************************)
EXTENDS IsoTp, FiniteSets, SequencesExt

CONSTANTS
  Ecus,              \* physical request identifiers, one per ECU
  Functional,        \* the broadcast identifier
  RequestSizes,      \* RequestSizes[i]: sizes of the requests of a tester
  Plans,             \* Plans[i]: the timelines a request on i may be answered with
  TesterBlocks,      \* block sizes the testers ask for
  MaxRequests        \* MaxRequests[i]: bound on the requests of a tester

ASSUME BridgeAssumption ==
  /\ Functional \notin Ecus
  /\ Ids = Ecus \cup {Functional}
  /\ RequestSizes \in [Ids -> SUBSET (0 .. MaxSize)]
  /\ Plans \in [Ids -> SUBSET Seq([ecu : Ecus, size : Nat])]
  /\ TesterBlocks \subseteq Nat
  /\ MaxRequests \in [Ids -> Nat]

VARIABLES
  bus,               \* frames the bus holds for the bridge
  queue, deferred,   \* m_queueInbound, m_vecDeferred
  rx,                \* rx[i]: the message in progress of the endpoint i
  stale,             \* the configuration moved on since the endpoints were built
  running,           \* the simulation is started
  pc,                \* what the task is doing
  request,           \* u32RequestCanId of the request being answered
  timeline,          \* the steps of the response plans not yet due
  due,               \* vecDue: what came due and was not sent
  tx, to,            \* the transmitter, and the ECU on whose identifier it sends
  sender,            \* sender[i]: the tester's transmitter
  reader,            \* reader[e]: the answer of e its tester is assembling
  owed,              \* owed[e]: flow controls the tester has yet to send
  requests,          \* requests[i]: how many requests the tester has sent
  dropped            \* dropped[i]: a frame of the present message was dropped

bridgeVars == <<queue, deferred, rx, pc, request, timeline, due, tx, to, dropped>>
testerVars == <<sender, reader, owed, requests>>
vars == <<bus, stale, running, bridgeVars, testerVars>>

Broadcast == [i \in Ids |-> i = Functional]
OnBus(i, f) == [on |-> i, frame |-> f]

Init ==
  /\ bus = <<>> /\ queue = <<>> /\ deferred = <<>>
  /\ rx = [i \in Ids |-> NotAssembling]
  /\ stale = FALSE /\ running = TRUE
  /\ pc = "Polling" /\ request = Functional
  /\ timeline = <<>> /\ due = <<>>
  /\ tx = NewTransmitter(Functional) /\ to \in Ecus
  /\ sender = [i \in Ids |-> NewTransmitter(i)]
  /\ reader = [e \in Ecus |-> NotAssembling]
  /\ owed = [e \in Ecus |-> 0]
  /\ requests = [i \in Ids |-> 0]
  /\ dropped = [i \in Ids |-> FALSE]

\* Where the task goes on when nothing is left to do for a frame.
Resume(frames) == IF frames = <<>> THEN "Polling" ELSE "Handling"

-----------------------------------------------------------------------------
(***************************************************************************)
(* What the bridge sends: SendRaw                                          *)
(***************************************************************************)
\* A flow control reaches the transmitter of the tester.
SendFlowControl(e, flows) ==
  sender' = IF flows = <<>> THEN sender
            ELSE [sender EXCEPT ![e] = OnFlowControl(@, flows[1])]

\* A frame of an answer reaches its tester, who owes flow control for some.
SendAnswer(e, f) ==
  LET taken == OnFrame(reader[e], f)
  IN  /\ reader' = [reader EXCEPT ![e] = taken.pending]
      /\ owed' = IF taken.outcome = "SendFlowControl"
                 THEN [owed EXCEPT ![e] = @ + 1] ELSE owed

-----------------------------------------------------------------------------
(***************************************************************************)
(* PumpOnce                                                                *)
(***************************************************************************)
\* RebuildEndpoints: every endpoint anew, what was in progress is abandoned.
RebuildEndpointsIfStale ==
  /\ rx' = IF stale THEN [i \in Ids |-> NotAssembling] ELSE rx
  /\ stale' = FALSE

FillInbound == bus' = <<>>

Poll ==
  /\ pc = "Polling"
  /\ RebuildEndpointsIfStale
  /\ FillInbound
  /\ queue' = queue \o bus
  /\ pc' = Resume(queue \o bus)
  /\ UNCHANGED <<running, deferred, request, timeline, due, tx, to, dropped, testerVars>>

\* The head of the queue, from which a frame is taken.
Frame1 == Head(queue).frame
On1 == Head(queue).on

DropWhenStopped ==
  /\ pc = "Handling" /\ ~running
  /\ queue' = Tail(queue)
  /\ dropped' = [dropped EXCEPT ![On1] = TRUE]
  /\ pc' = Resume(queue')
  /\ UNCHANGED <<bus, stale, running, deferred, rx, request, timeline, due, tx, to, testerVars>>

Fed == IF Broadcast[On1] THEN OnBroadcastFrame(rx[On1], Frame1)
       ELSE OnFrame(rx[On1], Frame1)

\* FeedEndpoint, for a frame that completes no request.
FeedEndpoint ==
  /\ pc = "Handling" /\ running
  /\ Fed.outcome # "Completed"
  /\ rx' = [rx EXCEPT ![On1] = Fed.pending]
  /\ dropped' = [dropped EXCEPT ![On1] = @ /\ Frame1.kind # "First"]
  /\ SendFlowControl(On1, FlowControlFor(Fed.outcome))
  /\ queue' = Tail(queue)
  /\ pc' = Resume(queue')
  /\ UNCHANGED <<bus, stale, running, deferred, request, timeline, due, tx, to,
                 reader, owed, requests>>

\* AnswerRequest up to its first await: the simulation is asked, the plans of
\* all its answers become one timeline.  None means silence, which a stopped
\* or silenced ECU keeps.
AnswerRequest ==
  /\ pc = "Handling" /\ running
  /\ Fed.outcome = "Completed"
  /\ rx' = [rx EXCEPT ![On1] = Fed.pending]
  /\ dropped' = [dropped EXCEPT ![On1] = @ /\ Frame1.kind # "Single"]
  /\ request' = On1
  /\ queue' = Tail(queue)
  /\ timeline' \in Plans[On1] \cup {<<>>}
  /\ pc' = IF timeline' = <<>> THEN Resume(queue') ELSE "Executing"
  /\ UNCHANGED <<bus, stale, running, deferred, due, tx, to, testerVars>>

\* ExecutePlans sleeps until the next step is due and hands it over; what is
\* handed over is collected, and sent after the last step.
StepComesDue ==
  /\ pc = "Executing"
  /\ due' = Append(due, Head(timeline))
  /\ timeline' = Tail(timeline)
  /\ pc' = IF timeline' = <<>> THEN "Transmitting" ELSE "Executing"
  /\ UNCHANGED <<bus, stale, running, queue, deferred, rx, request, tx, to, dropped, testerVars>>

-----------------------------------------------------------------------------
(***************************************************************************)
(* TransmitPdu                                                             *)
(***************************************************************************)
\* Mutated form of Restored: what was set aside goes behind the queue.
RestoredBehind(frames) == frames \o deferred

\* RestoreDeferredFrames puts what was set aside in front, in its order.
Restored(frames) == deferred \o frames

\* A transfer ends with these frames left in the queue; the next answer is
\* sent, or the next frame taken.
EndTransfer(frames) ==
  /\ queue' = Restored(frames)
  /\ deferred' = <<>>
  /\ pc' = IF due' # <<>> THEN "Transmitting" ELSE Resume(queue')

Answer == [id |-> request, size |-> Head(due).size]

SkipTooLong ==
  /\ pc = "Transmitting" /\ ~CanBegin(Answer)
  /\ due' = Tail(due)
  /\ pc' = IF due' # <<>> THEN "Transmitting" ELSE Resume(queue)
  /\ UNCHANGED <<bus, stale, running, queue, deferred, rx, request, timeline, tx, to,
                 dropped, testerVars>>

BeginPdu ==
  /\ pc = "Transmitting" /\ CanBegin(Answer)
  /\ to' = Head(due).ecu
  /\ tx' = Begin(NewTransmitter(request), Answer)
  /\ due' = Tail(due)
  /\ SendAnswer(to', OpeningFrame(Answer))
  /\ IF tx'.state = "Complete" THEN EndTransfer(queue)
     ELSE pc' = "Awaiting" /\ UNCHANGED <<queue, deferred>>
  /\ UNCHANGED <<bus, stale, running, rx, request, timeline, dropped, sender, requests>>

\* Mutated form of FlowControlTimeout: it leaves the deferred frames aside.
FlowControlTimeoutForgets ==
  /\ pc = "Awaiting"
  /\ tx' = Abort(tx)
  /\ pc' = IF due # <<>> THEN "Transmitting" ELSE Resume(queue)
  /\ UNCHANGED <<bus, stale, running, queue, deferred, rx, request, timeline, due, to,
                 dropped, testerVars>>

\* Mutated form of FlowControlTimeout: no deadline after the first block.
FlowControlTimeoutAtFirst ==
  /\ pc = "Awaiting" /\ tx.sent = 0
  /\ tx' = Abort(tx)
  /\ due' = due
  /\ EndTransfer(queue)
  /\ UNCHANGED <<bus, stale, running, rx, request, timeline, to, dropped, testerVars>>

\* AwaitFlowControl: the deadline passes,
FlowControlTimeout ==
  /\ pc = "Awaiting"
  /\ tx' = Abort(tx)
  /\ due' = due
  /\ EndTransfer(queue)
  /\ UNCHANGED <<bus, stale, running, rx, request, timeline, to, dropped, testerVars>>

\* or the next frame is looked at: the flow control of any endpoint is taken
\* for the one awaited, a frame of the request being answered is dropped, and
\* another is set aside.
IsFlowControlFrame(f) == f.kind = "FlowControl"

TakeFlowControl ==
  LET frames == queue \o bus
  IN  /\ pc = "Awaiting" /\ frames # <<>>
      /\ IsFlowControlFrame(Head(frames).frame)
      /\ FillInbound
      /\ tx' = OnFlowControl(tx, Head(frames).frame)
      /\ due' = due
      /\ IF tx'.state = "Aborted"
         THEN EndTransfer(Tail(frames))
         ELSE /\ queue' = Tail(frames)
              /\ UNCHANGED deferred
              /\ pc' = IF tx'.state = "SendingBlock" THEN "Sending" ELSE "Awaiting"
      /\ UNCHANGED <<stale, running, rx, request, timeline, to, dropped, testerVars>>

SetAside(frame) ==
  IF frame.on = request
  THEN deferred' = deferred /\ dropped' = [dropped EXCEPT ![request] = TRUE]
  ELSE deferred' = Append(deferred, frame) /\ dropped' = dropped

TakeOtherFrame ==
  LET frames == queue \o bus
  IN  /\ pc = "Awaiting" /\ frames # <<>>
      /\ ~IsFlowControlFrame(Head(frames).frame)
      /\ FillInbound
      /\ queue' = Tail(frames)
      /\ SetAside(Head(frames))
      /\ UNCHANGED <<stale, running, rx, pc, request, timeline, due, tx, to, testerVars>>

SendConsecutive ==
  /\ pc = "Sending" /\ ~BlockIsUsedUp(tx)
  /\ tx' = AfterFrame(tx)
  /\ due' = due
  /\ SendAnswer(to, NextFrame(tx))
  /\ IF tx'.state = "Complete" THEN EndTransfer(queue) ELSE UNCHANGED <<queue, deferred, pc>>
  /\ UNCHANGED <<bus, stale, running, rx, request, timeline, to, dropped, sender, requests>>

FinishBlock ==
  /\ pc = "Sending" /\ BlockIsUsedUp(tx)
  /\ tx' = AwaitNextBlock(tx)
  /\ pc' = "Awaiting"
  /\ UNCHANGED <<bus, stale, running, queue, deferred, rx, request, timeline, due, to,
                 dropped, testerVars>>

-----------------------------------------------------------------------------
(***************************************************************************)
(* The operator, and the testers                                           *)
(***************************************************************************)
Operate ==
  /\ \/ running' = ~running /\ stale' = stale
     \/ stale' = TRUE /\ running' = running
  /\ UNCHANGED <<bus, bridgeVars, testerVars>>

SendRequest(i) ==
  /\ requests[i] < MaxRequests[i] /\ sender[i].state \notin InTransfer
  /\ requests' = [requests EXCEPT ![i] = @ + 1]
  /\ \E size \in RequestSizes[i] :
       LET m == [id |-> i, size |-> size]
       IN  /\ sender' = [sender EXCEPT ![i] = Begin(@, m)]
           /\ bus' = Append(bus, OnBus(i, OpeningFrame(m)))
  /\ UNCHANGED <<stale, running, bridgeVars, reader, owed>>

ContinueRequest(i) ==
  /\ sender[i].state = "SendingBlock"
  /\ IF BlockIsUsedUp(sender[i])
     THEN sender' = [sender EXCEPT ![i] = AwaitNextBlock(@)] /\ UNCHANGED bus
     ELSE /\ bus' = Append(bus, OnBus(i, NextFrame(sender[i])))
          /\ sender' = [sender EXCEPT ![i] = AfterFrame(@)]
  /\ UNCHANGED <<stale, running, bridgeVars, reader, owed, requests>>

GiveUpRequest(i) ==
  /\ sender[i].state = "AwaitingFlowControl"
  /\ sender' = [sender EXCEPT ![i] = Abort(@)]
  /\ UNCHANGED <<bus, stale, running, bridgeVars, reader, owed, requests>>

ClearToSend(e) ==
  /\ owed[e] > 0
  /\ owed' = [owed EXCEPT ![e] = @ - 1]
  /\ \E block \in TesterBlocks :
       bus' = Append(bus, OnBus(e, FlowControl("Continue", block)))
  /\ UNCHANGED <<stale, running, bridgeVars, sender, reader, requests>>

BridgeStep ==
  \/ Poll \/ DropWhenStopped \/ FeedEndpoint \/ AnswerRequest \/ StepComesDue
  \/ SkipTooLong \/ BeginPdu \/ FlowControlTimeout \/ TakeFlowControl
  \/ TakeOtherFrame \/ SendConsecutive \/ FinishBlock
TesterStep ==
  \/ \E i \in Ids : SendRequest(i) \/ ContinueRequest(i) \/ GiveUpRequest(i)
  \/ \E e \in Ecus : ClearToSend(e)

Next == BridgeStep \/ Operate \/ TesterStep
Spec == Init /\ [][Next]_vars

\* The bridge's task is scheduled, and its deadline passes in the end.
FairSpec == Spec /\ WF_vars(BridgeStep) /\ WF_vars(FlowControlTimeout)

-----------------------------------------------------------------------------
\* A transfer of one ECU leaves no hole in the message of another: the next
\* consecutive frame of a message in progress is the one expected, unless the
\* bridge dropped one of the same identifier, as m_vecDeferred is there to
\* ensure.
DeferralMakesNoHole ==
  pc = "Handling" /\ Frame1.kind = "Consecutive" /\ rx[On1].assembling /\ ~dropped[On1] =>
    Frame1.sn = rx[On1].next

\* What was set aside is back in the queue before the bridge looks at another
\* frame or polls, however the transfer ended.
NothingIsLeftAside == pc \in {"Polling", "Handling"} => deferred = <<>>

\* An answer that has to be segmented ends, sent or given up, whatever the
\* tester does, and the bridge goes back to the bus.
BridgeComesBack == pc = "Awaiting" ~> pc = "Polling"

\* What came due leaves while the bridge waits for the next step, "so an ECU
\* behaves identically whichever way it is reached".
AnswersLeaveWhenDue == pc = "Executing" => due = <<>>
=============================================================================
