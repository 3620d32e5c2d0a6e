------------------------------ MODULE IsoTpLink ------------------------------
(***************************************************************************)
(* One transmitter and one receiver of crates/isotp at the two ends of a   *)
(* CAN link, driven as crates/bridge drives them: a transmitter sends one  *)
(* message at a time and reads flow control only while it waits for it.    *)
(* The link keeps the order of frames and may lose any of them; a peer may *)
(* ask to wait or give up, and other nodes may put malformed frames on the *)
(* receiver's identifier.  A recorder sees what the receiver sees and      *)
(* reassembles it offline.                                                 *)
(*                                                                         *)
(* Timing: a timeout fires only when no frame is under way, and a transfer *)
(* begins only when no flow control for the one before is still to come:   *)
(* frames take a millisecond, c_timeoutFlowControl is a second.            *)
(***************************************************************************)
EXTENDS IsoTp

CONSTANTS
  Sizes,         \* sizes of the messages to send
  MaxMessages,   \* bound on the messages sent
  InFlight,      \* bound on the frames a link holds
  PeerWaits      \* how often a peer asks to wait before it continues

ASSUME LinkAssumption ==
  /\ MaxMessages \in Nat
  /\ Ids = 0 .. MaxMessages
  /\ Sizes \subseteq 0 .. MaxSize
  /\ InFlight \in Nat \ {0}
  /\ PeerWaits \subseteq Nat

VARIABLES
  tx, rx,        \* the transmitter, the receiver's message in progress
  toReceiver, toSender,
  recorded,      \* the recorder's message in progress
  submitted,     \* sizes of the messages sent so far
  delivered,     \* the last message the receiver handed over
  replayed,      \* the last message the recorder handed over
  disturbed,     \* a fault befell the present message
  strayed        \* a malformed frame came since the last opening frame

linkVars == <<tx, rx, toReceiver, toSender, recorded, submitted, delivered,
              replayed, disturbed, strayed>>

Init ==
  /\ tx = NewTransmitter(0)
  /\ rx = NotAssembling /\ recorded = NotAssembling
  /\ toReceiver = <<>> /\ toSender = <<>>
  /\ submitted = <<>> /\ delivered = <<>> /\ replayed = <<>>
  /\ disturbed = FALSE /\ strayed = FALSE

LinkIsQuiet == toReceiver = <<>> /\ toSender = <<>>

\* TransmitPdu begins: the transfer before has ended.
Submit ==
  /\ tx.state \notin InTransfer /\ toSender = <<>>
  /\ Len(submitted) < MaxMessages
  /\ Len(toReceiver) < InFlight
  /\ \E size \in Sizes :
       LET m == [id |-> Len(submitted) + 1, size |-> size]
       IN  /\ tx' = Begin(tx, m)
           /\ toReceiver' = Append(toReceiver, OpeningFrame(m))
           /\ submitted' = Append(submitted, size)
  /\ disturbed' = (disturbed /\ toReceiver # <<>>)
  /\ UNCHANGED <<rx, toSender, recorded, delivered, replayed, strayed>>

SendConsecutive ==
  /\ tx.state = "SendingBlock" /\ ~BlockIsUsedUp(tx)
  /\ Len(toReceiver) < InFlight
  /\ toReceiver' = Append(toReceiver, NextFrame(tx))
  /\ tx' = AfterFrame(tx)
  /\ UNCHANGED <<rx, toSender, recorded, submitted, delivered, replayed,
                 disturbed, strayed>>

FinishBlock ==
  /\ tx.state = "SendingBlock" /\ BlockIsUsedUp(tx)
  /\ tx' = AwaitNextBlock(tx)
  /\ UNCHANGED <<rx, toReceiver, toSender, recorded, submitted, delivered,
                 replayed, disturbed, strayed>>

TakeFlowControl ==
  /\ toSender # <<>> /\ tx.state # "SendingBlock"
  /\ tx' = OnFlowControl(tx, Head(toSender))
  /\ toSender' = Tail(toSender)
  /\ UNCHANGED <<rx, toReceiver, recorded, submitted, delivered, replayed,
                 disturbed, strayed>>

FlowControlTimeout ==
  /\ tx.state = "AwaitingFlowControl" /\ LinkIsQuiet
  /\ tx' = Abort(tx)
  /\ UNCHANGED <<rx, toReceiver, toSender, recorded, submitted, delivered,
                 replayed, disturbed, strayed>>

\* A frame reaches the receiver, and the recorder with it.
Take(f, waits) ==
  LET live == OnFrame(rx, f)
      offline == ReassembleStream(recorded, f)
      answer == FlowControlFor(live.outcome)
  IN  /\ rx' = live.pending
      /\ recorded' = offline.pending
      /\ delivered' = IF live.outcome = "Completed" THEN live.pdu ELSE delivered
      /\ replayed' = IF offline.outcome = "Completed" THEN offline.pdu ELSE replayed
      /\ toSender' = toSender \o IF answer = <<>> THEN <<>>
                                 ELSE [i \in 1 .. waits |-> FlowControl("Wait", 0)] \o answer

\* The engine's own receiver never asks to wait, other peers do.
Receive ==
  /\ toReceiver # <<>>
  /\ \E waits \in PeerWaits :
       /\ Take(Head(toReceiver), waits)
       /\ disturbed' = (disturbed \/ waits > MaxWaits)
  /\ toReceiver' = Tail(toReceiver)
  /\ strayed' = (strayed /\ Head(toReceiver).kind = "Consecutive")
  /\ UNCHANGED <<tx, submitted>>

(***************************************************************************)
(* Faults                                                                  *)
(***************************************************************************)
LoseFrame ==
  /\ toReceiver # <<>>
  /\ toReceiver' = Tail(toReceiver)
  /\ disturbed' = TRUE
  /\ UNCHANGED <<tx, rx, toSender, recorded, submitted, delivered, replayed, strayed>>

LoseFlowControl ==
  /\ toSender # <<>>
  /\ toSender' = Tail(toSender)
  /\ disturbed' = TRUE
  /\ UNCHANGED <<tx, rx, toReceiver, recorded, submitted, delivered, replayed, strayed>>

\* A peer that lost the message may say so, or ask to wait for ever.
PeerStalls ==
  /\ tx.state = "AwaitingFlowControl" /\ LinkIsQuiet
  /\ \E status \in {"Wait", "Overflow", "Reserved"} :
       toSender' = <<FlowControl(status, 0)>>
  /\ disturbed' = TRUE
  /\ UNCHANGED <<tx, rx, toReceiver, recorded, submitted, delivered, replayed, strayed>>

StrayArrives ==
  /\ \E kind \in Strays : Take(StrayFrame(kind), 0)
  /\ strayed' = TRUE
  /\ disturbed' = TRUE
  /\ UNCHANGED <<tx, toReceiver, submitted>>

Next ==
  \/ Submit \/ SendConsecutive \/ FinishBlock \/ TakeFlowControl
  \/ FlowControlTimeout \/ Receive
  \/ LoseFrame \/ LoseFlowControl \/ PeerStalls \/ StrayArrives

Spec == Init /\ [][Next]_linkVars

\* The bridge runs the transmitter, the bus delivers what it does not lose.
Fairness ==
  WF_linkVars(SendConsecutive \/ FinishBlock \/ TakeFlowControl
                \/ FlowControlTimeout \/ Receive)
FairSpec == Spec /\ Fairness

-----------------------------------------------------------------------------
LinkTypeOK ==
  /\ tx \in Transmitter
  /\ rx \in Pending
  /\ toReceiver \in Seq(Frame)
  /\ toSender \in Seq(Flow)
  /\ submitted \in Seq(Sizes) /\ Len(submitted) <= MaxMessages
  /\ delivered \in Seq(Part)
  /\ disturbed \in BOOLEAN
  /\ strayed \in BOOLEAN

\* Whatever the link loses, the receiver hands over messages that were sent,
\* each whole, once and in order, never one with a hole or put together from
\* two ("a plausible-looking but incorrect PDU").
Transport ==
  INSTANCE DeliveredOnce
    WITH last <- IF delivered = <<>> THEN 0 ELSE delivered[1][1],
         content <- delivered
TransportDelivers == Transport!Spec

\* A transfer nothing interfered with ends with the message delivered, if the
\* receiver has room for it: both ends count blocks alike and neither waits
\* for the other.
UndisturbedArrives ==
  ~disturbed /\ tx.state \notin InTransfer \cup {"Idle"} /\ toReceiver = <<>> =>
    IF tx.size > BufferSize THEN tx.state = "Aborted"
    ELSE tx.state = "Complete" /\ delivered # <<>> /\ delivered[1][1] = tx.id

\* The live receiver and the offline reassembler agree frame by frame on what
\* is in progress and what was received, "so that a live capture and a later
\* replay of it agree", unless a malformed frame came in between or the
\* receiver refused a message for its size.
Content(pending) == [pending EXCEPT !.left = NoLimit]
ReplayAgrees ==
  ~strayed /\ BufferSize = MaxSize =>
    /\ rx.assembling = recorded.assembling
    /\ rx.assembling => Content(rx) = recorded

\* A transfer ends: sent, refused, or given up after the flow control failed
\* to come or the peer asked to wait too often.
TransferEnds == tx.state \in InTransfer ~> tx.state \notin InTransfer
=============================================================================
