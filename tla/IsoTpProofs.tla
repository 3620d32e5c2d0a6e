----------------------------- MODULE IsoTpProofs -----------------------------
(***************************************************************************)
(* What holds of the ISO-TP link for any messages, sizes, blocks and       *)
(* faults: the types of both ends, that a replay agrees with what was      *)
(* received live, that what the receiver hands over are messages as they   *)
(* were sent, each at most once and in order, and that a message nothing   *)
(* interferes with arrives.                                                *)
(***************************************************************************)
EXTENDS IsoTpLink, TLAPS

-----------------------------------------------------------------------------
(***************************************************************************)
(* The transmitter                                                         *)
(***************************************************************************)
\* A transmitter that is in a transfer has a frame left to send, and one that
\* waits has not waited too often yet.
TransmitterInv(t) ==
  /\ t \in Transmitter
  /\ t.state \in InTransfer => t.sent < t.size /\ t.waits <= MaxWaits

\* Whatever a flow control frame says, a transmitter stays a transmitter.
LEMMA FlowControlKeepsTheTransmitter ==
  ASSUME NEW t, TransmitterInv(t), NEW flow \in Flow
  PROVE  TransmitterInv(OnFlowControl(t, flow))
<1>1. CASE t.state # "AwaitingFlowControl"
  <2>1. OnFlowControl(t, flow) = t
    BY <1>1, Zenon DEF OnFlowControl
  <2>2. QED
    BY <2>1
<1>2. CASE t.state = "AwaitingFlowControl"
  <2>1. OnFlowControl(t, flow) \in {OnContinueToSend(t, flow.block), OnWait(t), Abort(t)}
    <3>1. CASE flow.status = "Continue"
      BY <1>2, <3>1, Zenon DEF OnFlowControl
    <3>2. CASE flow.status = "Wait"
      BY <1>2, <3>2, Zenon DEF OnFlowControl
    <3>3. CASE flow.status # "Continue" /\ flow.status # "Wait"
      BY <1>2, <3>3, Zenon DEF OnFlowControl
    <3>4. QED
      BY <3>1, <3>2, <3>3
  <2>2. flow.block \in Nat
    BY DEF Flow
  <2>3. TransmitterInv(OnContinueToSend(t, flow.block))
    <3> DEFINE after == OnContinueToSend(t, flow.block)
    <3>1. (IF flow.block = 0 THEN NoLimit ELSE flow.block) \in Nat \cup {NoLimit}
      BY <2>2
    <3>2. after \in Transmitter
      <4> DEFINE left == IF flow.block = 0 THEN NoLimit ELSE flow.block
      <4>1. after = [t EXCEPT !.waits = 0, !.state = "SendingBlock", !.left = left]
        BY Zenon DEF OnContinueToSend
      <4>2. left \in Nat \cup {NoLimit}
        BY <3>1
      <4>3. 0 \in 0 .. MaxWaits + 1 /\ "SendingBlock" \in TransmitState
        BY IsoTpAssumption DEF TransmitState, InTransfer
      <4> HIDE DEF left, after
      <4>4. QED
        BY <4>1, <4>2, <4>3 DEF TransmitterInv, Transmitter
    <3>3. after.state = "SendingBlock" /\ after.waits = 0 /\ after.sent = t.sent /\ after.size = t.size
      <4>1. t \in Transmitter
        BY DEF TransmitterInv
      <4>2. QED
        BY <4>1 DEF Transmitter, OnContinueToSend
    <3>4. t.sent < t.size
      BY <1>2 DEF TransmitterInv, InTransfer
    <3>5. QED
      BY <3>2, <3>3, <3>4, IsoTpAssumption DEF TransmitterInv
  <2>4. TransmitterInv(Abort(t))
    BY DEF TransmitterInv, Transmitter, Abort, InTransfer, TransmitState
  <2>5. TransmitterInv(OnWait(t))
    <3> DEFINE waited == [t EXCEPT !.waits = @ + 1]
    <3>1. waited \in Transmitter /\ waited.state = t.state /\ waited.sent = t.sent
            /\ waited.size = t.size
      <4>1. t \in Transmitter /\ t.waits \in 0 .. MaxWaits
        BY <1>2 DEF TransmitterInv, InTransfer, Transmitter
      <4>2. t.waits + 1 \in 0 .. MaxWaits + 1
        BY <4>1, IsoTpAssumption
      <4>3. QED
        BY <4>1, <4>2 DEF Transmitter
    <3>2. Abort(waited) \in Transmitter /\ Abort(waited).state = "Aborted"
      BY <3>1 DEF Transmitter, Abort, TransmitState
    <3>3. OnWait(t) = IF waited.waits > MaxWaits THEN Abort(waited) ELSE waited
      BY DEF OnWait
    <3>4. waited.waits \in Int /\ MaxWaits \in Int
      BY <3>1, IsoTpAssumption DEF Transmitter
    <3>5. CASE waited.waits > MaxWaits
      BY <3>2, <3>3, <3>5 DEF TransmitterInv, InTransfer
    <3>6. CASE ~(waited.waits > MaxWaits)
      BY <1>2, <3>1, <3>3, <3>4, <3>6 DEF TransmitterInv, InTransfer
    <3>7. QED
      BY <3>5, <3>6
  <2>6. QED
    BY <2>1, <2>3, <2>4, <2>5
<1>3. QED
  BY <1>1, <1>2

\* A frame of a block is part of the message, and leaves a transmitter.
LEMMA FrameKeepsTheTransmitter ==
  ASSUME NEW t, TransmitterInv(t), t.state = "SendingBlock", ~BlockIsUsedUp(t)
  PROVE  /\ TransmitterInv(AfterFrame(t))
         /\ NextFrame(t) \in Frame
<1>1. /\ t \in Transmitter
      /\ t.sent < t.size /\ t.waits <= MaxWaits
      /\ t.left # 0
  BY DEF TransmitterInv, InTransfer, BlockIsUsedUp
<1>2. /\ t.sent \in Nat /\ t.size \in 0 .. MaxSize /\ t.sn \in 0 .. Modulus - 1
      /\ t.left \in Nat \cup {NoLimit} /\ t.id \in Ids /\ MaxSize \in Nat
  BY <1>1, IsoTpAssumption DEF Transmitter
<1>3. t.sent + 1 \in 0 .. MaxSize
  BY <1>1, <1>2
<1>4. NextNumber(t) \in 0 .. Modulus - 1
  BY <1>2, IsoTpAssumption DEF NextNumber
<1>5. (IF t.left = NoLimit THEN NoLimit ELSE t.left - 1) \in Nat \cup {NoLimit}
  BY <1>1, <1>2 DEF NoLimit
<1>6. AfterFrame(t) \in Transmitter
  BY <1>1, <1>3, <1>4, <1>5 DEF AfterFrame, Transmitter, TransmitState, InTransfer
<1>7. AfterFrame(t).state \in InTransfer => AfterFrame(t).sent < AfterFrame(t).size
                                            /\ AfterFrame(t).waits <= MaxWaits
  BY <1>1, <1>2, <1>3 DEF AfterFrame, Transmitter, InTransfer
<1>8. NextFrame(t) \in Frame
  BY <1>2, <1>3 DEF NextFrame, ConsecutiveFrame, Frame, Part
<1>9. QED
  BY <1>6, <1>7, <1>8 DEF TransmitterInv

\* A message that is begun fits, and so does the frame that opens it.
LEMMA BeginMakesATransmitter ==
  ASSUME NEW t, t \in Transmitter, NEW m, m \in [id : Ids, size : 0 .. MaxSize]
  PROVE  /\ TransmitterInv(Begin(t, m))
         /\ OpeningFrame(m) \in Frame
<1>1. m.id \in Ids /\ m.size \in 0 .. MaxSize /\ MaxSize \in Nat \ {0}
      /\ 1 \in 0 .. Modulus - 1 /\ MaxWaits \in Nat
  BY IsoTpAssumption
<1>2. TransmitterInv(Begin(t, m))
  <2>1. 0 \in 0 .. MaxSize /\ 0 \in 0 .. MaxWaits + 1 /\ 0 <= MaxWaits
    BY <1>1
  <2>2. Begin(t, m) \in Transmitter
    BY <1>1, <2>1 DEF Begin, Transmitter, InTransfer, TransmitState
  <2>3. Begin(t, m).state = IF m.size = 0 THEN "Complete" ELSE "AwaitingFlowControl"
    BY DEF Begin, Transmitter
  <2>4. Begin(t, m).sent = 0 /\ Begin(t, m).size = m.size /\ Begin(t, m).waits = 0
    BY DEF Begin, Transmitter
  <2>5. m.size # 0 => 0 < m.size
    BY <1>1
  <2>6. QED
    BY <2>1, <2>2, <2>3, <2>4, <2>5 DEF TransmitterInv, InTransfer
<1>3. <<m.id, 0>> \in Part
  <2>1. 0 \in 0 .. MaxSize
    BY <1>1
  <2>2. QED
    BY <1>1, <2>1 DEF Part
<1>4. CASE m.size = 0
  <2>1. OpeningFrame(m) = [kind |-> "Single", part |-> <<m.id, 0>>]
    BY <1>4 DEF OpeningFrame, SingleFrame
  <2>2. OpeningFrame(m) \in [kind : {"Single"}, part : Part]
    BY <1>3, <2>1
  <2>3. QED
    BY <1>2, <2>2, Zenon DEF Frame
<1>5. CASE m.size # 0
  <2>1. m.size \in 1 .. MaxSize
    BY <1>1, <1>5
  <2>2. QED
    <3>1. OpeningFrame(m) = [kind |-> "First", part |-> <<m.id, 0>>, size |-> m.size]
      BY <1>5 DEF OpeningFrame, FirstFrame
    <3>2. OpeningFrame(m) \in [kind : {"First"}, part : Part, size : 1 .. MaxSize]
      BY <1>3, <2>1, <3>1
    <3>3. QED
      BY <1>2, <3>2, Zenon DEF Frame
<1>6. QED
  BY <1>2, <1>4, <1>5

-----------------------------------------------------------------------------
(***************************************************************************)
(* The receiver                                                            *)
(***************************************************************************)
\* A message in progress lacks a part.
ReceiverInv(pending) ==
  /\ pending \in Pending
  /\ pending.assembling => pending.remaining > 0

\* A frame that was put on the link, by whomever.
AnyFrame == Frame \cup {StrayFrame(kind) : kind \in Strays}

LEMMA NothingInProgress == ReceiverInv(NotAssembling)
<1>1. NotAssembling.assembling = FALSE
  BY DEF NotAssembling
<1>2. QED
  BY <1>1, Zenon DEF ReceiverInv, Pending

\* What a first frame starts.
LEMMA StartedIsInProgress ==
  ASSUME NEW f, f.part \in Part, f.size \in 1 .. MaxSize
  PROVE  ReceiverInv(Started(f)) /\ Started(f).assembling
<1>1. BlockAllowance \in Nat \cup {NoLimit}
  BY IsoTpAssumption DEF BlockAllowance
<1>2. <<f.part>> \in Seq(Part)
  OBVIOUS
<1>3. f.size \in 0 .. MaxSize /\ f.size > 0 /\ 1 \in 0 .. Modulus - 1
  BY IsoTpAssumption
<1>4. Started(f) \in Assembling
  BY <1>1, <1>2, <1>3 DEF Started, Assembling
<1>5. Started(f).assembling = TRUE /\ Started(f).remaining > 0
  BY <1>3 DEF Started
<1>6. QED
  BY <1>4, <1>5, Zenon DEF ReceiverInv, Pending

\* The next part of a message in progress: it is whole, or goes on.
LEMMA ExtendedIsInProgress ==
  ASSUME NEW pending, pending \in Assembling, pending.remaining > 0,
         NEW f, f.part \in Part
  PROVE  /\ Extended(pending, f) \in Assembling
         /\ Extended(pending, f).remaining = pending.remaining - 1
         /\ Extended(pending, f).buffer \in Seq(Part)
<1>1. /\ pending.buffer \in Seq(Part) /\ pending.remaining \in 0 .. MaxSize
      /\ pending.next \in 0 .. Modulus - 1 /\ pending.left \in Nat \cup {NoLimit}
  BY DEF Assembling
<1>2. BlockAllowance \in Nat \cup {NoLimit}
  BY IsoTpAssumption DEF BlockAllowance
<1>3. NextAllowance(pending.left) \in Nat \cup {NoLimit}
  <2>1. CASE pending.left = NoLimit
    BY <2>1 DEF NextAllowance, NoLimit
  <2>2. CASE pending.left \in 0 .. 1
    BY <1>2, <2>2 DEF NextAllowance, NoLimit
  <2>3. CASE pending.left \in Nat /\ pending.left > 1
    <3>1. pending.left # -1 /\ pending.left \notin 0 .. 1 /\ pending.left - 1 \in Nat
      BY <2>3
    <3>2. QED
      BY <3>1, Zenon DEF NextAllowance, NoLimit
  <2>4. QED
    BY <1>1, <2>1, <2>2, <2>3
<1> DEFINE buffer == Append(pending.buffer, f.part)
           remaining == pending.remaining - 1
           next == (pending.next + 1) % Modulus
           left == NextAllowance(pending.left)
<1>4. buffer \in Seq(Part)
  BY <1>1
<1>5. remaining \in 0 .. MaxSize
  <2>1. pending.remaining \in 0 .. MaxSize
    BY <1>1
  <2>2. QED
    BY <2>1, IsoTpAssumption
<1>6. next \in 0 .. Modulus - 1
  BY <1>1, IsoTpAssumption
<1>7. Extended(pending, f) = [pending EXCEPT !.buffer = buffer, !.remaining = remaining,
                                             !.next = next, !.left = left]
  BY DEF Extended
<1>8. left \in Nat \cup {NoLimit}
  BY <1>3
<1> HIDE DEF buffer, remaining, next, left
<1>9. Extended(pending, f) = [assembling |-> TRUE, buffer |-> buffer,
                              remaining |-> remaining, next |-> next, left |-> left]
  BY <1>7 DEF Assembling
<1>10. Extended(pending, f) \in Assembling
  BY <1>4, <1>5, <1>6, <1>8, <1>9 DEF Assembling
<1>11. Extended(pending, f).remaining = remaining /\ Extended(pending, f).buffer = buffer
  BY <1>9
<1>12. QED
  BY <1>4, <1>10, <1>11 DEF remaining

\* The next consecutive frame of a message in progress.
LEMMA TakeNextKeepsTheReceiver ==
  ASSUME NEW pending, pending \in Assembling, pending.remaining > 0,
         NEW f, f.part \in Part
  PROVE  /\ ReceiverInv(TakeNext(pending, f).pending)
         /\ TakeNext(pending, f).outcome = "Completed" => TakeNext(pending, f).pdu \in Seq(Part)
<1> DEFINE extended == Extended(pending, f)
           took == TakeNext(pending, f)
<1>1. /\ extended \in Assembling /\ extended.buffer \in Seq(Part)
      /\ extended.remaining = pending.remaining - 1 /\ extended.remaining \in Nat
  <2>1. /\ extended \in Assembling /\ extended.buffer \in Seq(Part)
        /\ extended.remaining = pending.remaining - 1
    BY ExtendedIsInProgress
  <2>2. extended.remaining \in 0 .. MaxSize /\ MaxSize \in Nat
    BY <2>1, IsoTpAssumption DEF Assembling
  <2> HIDE DEF extended
  <2>3. extended.remaining \in Nat
    BY <2>2
  <2>4. QED
    BY <2>1, <2>3
<1>2. CASE extended.remaining = 0
  <2>1. took = Completed(extended.buffer)
    BY <1>2, Zenon DEF TakeNext
  <2>2. took.pending = NotAssembling /\ took.pdu = extended.buffer
    BY <2>1 DEF Completed
  <2>3. QED
    BY <1>1, <2>2, NothingInProgress
<1>3. CASE extended.remaining # 0
  <2>1. took = Owing(extended) \/ took = Ignored(extended)
    <3>1. CASE pending.left \in 0 .. 1
      BY <1>3, <3>1, Zenon DEF TakeNext
    <3>2. CASE pending.left \notin 0 .. 1
      BY <1>3, <3>2, Zenon DEF TakeNext
    <3>3. QED
      BY <3>1, <3>2
  <2>2. took.pending = extended /\ took.outcome # "Completed"
    BY <2>1 DEF Owing, Ignored
  <2>3. extended.remaining > 0
    <3> HIDE DEF extended
    <3>1. extended.remaining \in Nat
      BY <1>1
    <3>2. QED
      BY <1>3, <3>1
  <2>4. ReceiverInv(extended)
    BY <1>1, <2>3, Zenon DEF ReceiverInv, Pending
  <2>5. QED
    BY <2>2, <2>4
<1>4. QED
  BY <1>2, <1>3

\* Any frame leaves a receiver, and completes messages made of parts.
LEMMA FrameKeepsTheReceiver ==
  ASSUME NEW pending, ReceiverInv(pending), NEW f \in AnyFrame
  PROVE  /\ ReceiverInv(OnFrame(pending, f).pending)
         /\ OnFrame(pending, f).outcome = "Completed" => OnFrame(pending, f).pdu \in Seq(Part)
<1> DEFINE after == OnFrame(pending, f)
<1>1. CASE f.kind = "Single"
  <2>1. after = Completed(<<f.part>>)
    BY <1>1, Zenon DEF OnFrame
  <2>2. f.part \in Part
    BY <1>1 DEF AnyFrame, Frame, StrayFrame, Strays
  <2>3. <<f.part>> \in Seq(Part)
    BY <2>2
  <2>4. after.pending = NotAssembling /\ after.pdu = <<f.part>>
    BY <2>1 DEF Completed
  <2>5. QED
    BY <2>3, <2>4, NothingInProgress
<1>2. CASE f.kind = "First"
  <2>1. after = OnFirstFrame(pending, f)
    BY <1>2, Zenon DEF OnFrame
  <2>2. f.part \in Part /\ f.size \in 1 .. MaxSize
    BY <1>2 DEF AnyFrame, Frame, StrayFrame, Strays
  <2>3. ReceiverInv(Started(f))
    BY <2>2, StartedIsInProgress
  <2>4. after = Finished("Refused") \/ after = Owing(Started(f))
    BY <2>1 DEF OnFirstFrame
  <2>5. after.pending \in {NotAssembling, Started(f)} /\ after.outcome # "Completed"
    BY <2>4 DEF Finished, Owing
  <2>6. QED
    BY <2>3, <2>5, NothingInProgress
<1>3. CASE f.kind = "Consecutive"
  <2>1. after = OnConsecutiveFrame(pending, f)
    BY <1>3, Zenon DEF OnFrame
  <2>2. f.part \in Part
    BY <1>3 DEF AnyFrame, Frame, StrayFrame, Strays
  <2>3. CASE ~pending.assembling
    <3>1. after = Ignored(pending)
      BY <2>1, <2>3, Zenon DEF OnConsecutiveFrame
    <3>2. after.pending = pending /\ after.outcome = "Nothing"
      BY <3>1 DEF Ignored
    <3>3. QED
      BY <3>2
  <2>4. CASE pending.assembling /\ f.sn # pending.next
    <3>1. after = Finished("Aborted")
      BY <2>1, <2>4, Zenon DEF OnConsecutiveFrame
    <3>2. after.pending = NotAssembling /\ after.outcome = "Aborted"
      BY <3>1 DEF Finished
    <3>3. QED
      BY <3>2, NothingInProgress
  <2>5. CASE pending.assembling /\ f.sn = pending.next
    <3>1. after = TakeNext(pending, f)
      BY <2>1, <2>5, Zenon DEF OnConsecutiveFrame
    <3>2. pending \in Assembling /\ pending.remaining > 0
      BY <2>5 DEF ReceiverInv, Pending, NotAssembling
    <3>3. QED
      BY <2>2, <3>1, <3>2, TakeNextKeepsTheReceiver
  <2>6. QED
    BY <2>3, <2>4, <2>5
<1>4. CASE f.kind = "FdEscape"
  <2>1. after = Ignored(NotAssembling)
    BY <1>4, Zenon DEF OnFrame
  <2>2. after.pending = NotAssembling /\ after.outcome = "Nothing"
    BY <2>1 DEF Ignored
  <2>3. QED
    BY <2>2, NothingInProgress
<1>5. CASE f.kind \notin {"Single", "First", "Consecutive", "FdEscape"}
  <2>1. after = Ignored(pending)
    BY <1>5, Zenon DEF OnFrame
  <2>2. after.pending = pending /\ after.outcome = "Nothing"
    BY <2>1 DEF Ignored
  <2>3. QED
    BY <2>2
<1>6. QED
  BY <1>1, <1>2, <1>3, <1>4, <1>5

-----------------------------------------------------------------------------
(***************************************************************************)
(* The link                                                                *)
(***************************************************************************)
LinkInv ==
  /\ LinkTypeOK
  /\ TransmitterInv(tx)
  /\ ReceiverInv(rx)

\* What a receiver answers to a frame is flow control.
LEMMA AnswersAreFlowControl ==
  ASSUME NEW outcome, NEW waits \in Nat
  PROVE  (IF FlowControlFor(outcome) = <<>> THEN <<>>
          ELSE [i \in 1 .. waits |-> FlowControl("Wait", 0)] \o FlowControlFor(outcome))
            \in Seq(Flow)
<1> DEFINE asked == [i \in 1 .. waits |-> FlowControl("Wait", 0)]
<1>1. \A status \in FlowStatus, block \in Nat : FlowControl(status, block) \in Flow
  BY DEF FlowControl, Flow
<1>2. asked \in Seq(Flow)
  BY <1>1 DEF FlowStatus
<1>3. FlowControlFor(outcome) \in Seq(Flow)
  <2>1. BlockSize \in Nat
    BY IsoTpAssumption
  <2>2. FlowControl("Continue", BlockSize) \in Flow /\ FlowControl("Overflow", BlockSize) \in Flow
    BY <1>1, <2>1 DEF FlowStatus
  <2>3. FlowControlFor(outcome) \in
          {<<>>, <<FlowControl("Continue", BlockSize)>>, <<FlowControl("Overflow", BlockSize)>>}
    <3>1. CASE outcome = "SendFlowControl"
      BY <3>1, Zenon DEF FlowControlFor
    <3>2. CASE outcome = "Refused"
      BY <3>2, Zenon DEF FlowControlFor
    <3>3. CASE outcome # "SendFlowControl" /\ outcome # "Refused"
      BY <3>3, Zenon DEF FlowControlFor
    <3>4. QED
      BY <3>1, <3>2, <3>3
  <2> HIDE DEF asked
  <2> DEFINE continue == FlowControl("Continue", BlockSize)
             overflow == FlowControl("Overflow", BlockSize)
  <2>4. continue \in Flow /\ overflow \in Flow
          /\ FlowControlFor(outcome) \in {<<>>, <<continue>>, <<overflow>>}
    BY <2>2, <2>3
  <2> HIDE DEF continue, overflow
  <2>5. <<>> \in Seq(Flow) /\ <<continue>> \in Seq(Flow) /\ <<overflow>> \in Seq(Flow)
    BY <2>4
  <2>6. QED
    BY <2>4, <2>5
<1> HIDE DEF asked
<1>4. asked \o FlowControlFor(outcome) \in Seq(Flow)
  BY <1>2, <1>3
<1>5. QED
  BY <1>4 DEF asked

\* A frame leaves the types of everything it touches at the receiver.
LEMMA TakeKeepsTheTypes ==
  ASSUME LinkInv, NEW f \in AnyFrame, NEW waits \in Nat, Take(f, waits)
  PROVE  /\ ReceiverInv(rx)'
         /\ delivered' \in Seq(Part)
         /\ toSender' \in Seq(Flow)
<1> DEFINE live == OnFrame(rx, f)
           answers == IF FlowControlFor(live.outcome) = <<>> THEN <<>>
                      ELSE [i \in 1 .. waits |-> FlowControl("Wait", 0)]
                             \o FlowControlFor(live.outcome)
<1>1. /\ ReceiverInv(live.pending)
      /\ live.outcome = "Completed" => live.pdu \in Seq(Part)
  BY FrameKeepsTheReceiver DEF LinkInv
<1>2. answers \in Seq(Flow)
  BY AnswersAreFlowControl
<1>3. /\ rx' = live.pending
      /\ delivered' = IF live.outcome = "Completed" THEN live.pdu ELSE delivered
      /\ toSender' = toSender \o answers
  BY Zenon DEF Take
<1>4. toSender \in Seq(Flow) /\ delivered \in Seq(Part)
  BY DEF LinkInv, LinkTypeOK
<1> HIDE DEF live, answers
<1>5. toSender' \in Seq(Flow)
  BY <1>2, <1>3, <1>4
<1>6. QED
  BY <1>1, <1>3, <1>4, <1>5 DEF ReceiverInv

\* A new message has the next identity, and its frame goes to the end.
LEMMA SubmitKeepsTheTypes ==
  ASSUME LinkInv, Submit
  PROVE  LinkInv'
<1>1. PICK size \in Sizes :
        LET m == [id |-> Len(submitted) + 1, size |-> size]
        IN  /\ tx' = Begin(tx, m)
            /\ toReceiver' = Append(toReceiver, OpeningFrame(m))
            /\ submitted' = Append(submitted, size)
  BY Zenon DEF Submit
<1> DEFINE m == [id |-> Len(submitted) + 1, size |-> size]
<1>2. submitted \in Seq(Sizes) /\ Len(submitted) < MaxMessages /\ tx \in Transmitter
        /\ toReceiver \in Seq(Frame)
  BY DEF Submit, LinkInv, LinkTypeOK
<1>3. Len(submitted) + 1 \in 0 .. MaxMessages
  <2>1. Len(submitted) \in Nat
    BY <1>2
  <2>2. QED
    BY <1>2, <2>1, LinkAssumption
<1>4. m \in [id : Ids, size : 0 .. MaxSize]
  BY <1>3, LinkAssumption
<1>5. TransmitterInv(tx') /\ OpeningFrame(m) \in Frame
  BY <1>1, <1>2, <1>4, BeginMakesATransmitter
<1>6. toReceiver' \in Seq(Frame)
  <2> DEFINE f == OpeningFrame(m)
  <2>1. f \in Frame /\ toReceiver' = Append(toReceiver, f)
    BY <1>1, <1>5
  <2> HIDE DEF f
  <2>2. QED
    BY <1>2, <2>1
<1>7. submitted' \in Seq(Sizes) /\ Len(submitted') = Len(submitted) + 1
  BY <1>1, <1>2
<1>8. Len(submitted') <= MaxMessages
  BY <1>3, <1>7
<1>9. disturbed' \in BOOLEAN
  BY DEF Submit
<1>10. UNCHANGED <<rx, toSender, recorded, delivered, replayed, strayed>>
  BY DEF Submit
<1>11. QED
  BY <1>5, <1>6, <1>7, <1>8, <1>9, <1>10
     DEF LinkInv, LinkTypeOK, TransmitterInv, ReceiverInv

\* The transmitter's steps within a transfer.
LEMMA TransferKeepsTheTypes ==
  ASSUME LinkInv, SendConsecutive \/ FinishBlock \/ TakeFlowControl \/ FlowControlTimeout
  PROVE  LinkInv'
<1>1. TransmitterInv(tx) /\ toReceiver \in Seq(Frame) /\ toSender \in Seq(Flow)
  BY DEF LinkInv, LinkTypeOK
<1>2. UNCHANGED <<rx, submitted, delivered, disturbed, strayed>>
  BY DEF SendConsecutive, FinishBlock, TakeFlowControl, FlowControlTimeout
<1>3. SUFFICES TransmitterInv(tx') /\ toReceiver' \in Seq(Frame) /\ toSender' \in Seq(Flow)
  BY <1>2, Zenon DEF LinkInv, LinkTypeOK, TransmitterInv, ReceiverInv
<1>4. CASE SendConsecutive
  <2>1. /\ tx' = AfterFrame(tx) /\ toReceiver' = Append(toReceiver, NextFrame(tx))
        /\ toSender' = toSender
    BY <1>4 DEF SendConsecutive
  <2>2. TransmitterInv(AfterFrame(tx)) /\ NextFrame(tx) \in Frame
    BY <1>1, <1>4, FrameKeepsTheTransmitter DEF SendConsecutive
  <2>3. QED
    BY <1>1, <2>1, <2>2
<1>5. CASE FinishBlock
  <2>1. /\ tx' = AwaitNextBlock(tx) /\ tx.state = "SendingBlock"
        /\ toReceiver' = toReceiver /\ toSender' = toSender
    BY <1>5 DEF FinishBlock
  <2>2. TransmitterInv(AwaitNextBlock(tx))
    BY <1>1, <2>1 DEF AwaitNextBlock, TransmitterInv, Transmitter, TransmitState, InTransfer
  <2>3. QED
    BY <1>1, <2>1, <2>2
<1>6. CASE TakeFlowControl
  <2>1. /\ tx' = OnFlowControl(tx, Head(toSender)) /\ toSender # <<>>
        /\ toReceiver' = toReceiver /\ toSender' = Tail(toSender)
    BY <1>6 DEF TakeFlowControl
  <2>2. Head(toSender) \in Flow /\ toSender' \in Seq(Flow)
    BY <1>1, <2>1
  <2>3. TransmitterInv(OnFlowControl(tx, Head(toSender)))
    BY <1>1, <2>2, FlowControlKeepsTheTransmitter
  <2>4. QED
    BY <1>1, <2>1, <2>2, <2>3
<1>7. CASE FlowControlTimeout
  <2>1. tx' = Abort(tx) /\ toReceiver' = toReceiver /\ toSender' = toSender
    BY <1>7 DEF FlowControlTimeout
  <2>2. TransmitterInv(Abort(tx))
    BY <1>1 DEF Abort, TransmitterInv, Transmitter, TransmitState, InTransfer
  <2>3. QED
    BY <1>1, <2>1, <2>2
<1>8. QED
  BY <1>4, <1>5, <1>6, <1>7

\* A frame is received, or a malformed one comes in between.
LEMMA ReceptionKeepsTheTypes ==
  ASSUME LinkInv, Receive \/ StrayArrives
  PROVE  LinkInv'
<1>1. /\ toReceiver \in Seq(Frame)
      /\ disturbed \in BOOLEAN /\ strayed \in BOOLEAN
  BY DEF LinkInv, LinkTypeOK
<1>2. UNCHANGED <<tx, submitted>>
  BY DEF Receive, StrayArrives
<1>3. SUFFICES /\ ReceiverInv(rx)' /\ delivered' \in Seq(Part) /\ toSender' \in Seq(Flow)
               /\ toReceiver' \in Seq(Frame)
               /\ disturbed' \in BOOLEAN /\ strayed' \in BOOLEAN
  BY <1>2, Zenon DEF LinkInv, LinkTypeOK, TransmitterInv, ReceiverInv
<1>4. CASE Receive
  <2>1. PICK waits \in PeerWaits :
          Take(Head(toReceiver), waits) /\ disturbed' = (disturbed \/ waits > MaxWaits)
    BY <1>4, Zenon DEF Receive
  <2>2. toReceiver # <<>> /\ toReceiver' = Tail(toReceiver)
          /\ strayed' = (strayed /\ Head(toReceiver).kind = "Consecutive")
    BY <1>4 DEF Receive
  <2>3. Head(toReceiver) \in AnyFrame /\ toReceiver' \in Seq(Frame)
    BY <1>1, <2>2 DEF AnyFrame
  <2>4. waits \in Nat
    BY LinkAssumption
  <2>5. ReceiverInv(rx)' /\ delivered' \in Seq(Part) /\ toSender' \in Seq(Flow)
    BY <2>1, <2>3, <2>4, TakeKeepsTheTypes
  <2>6. disturbed' \in BOOLEAN /\ strayed' \in BOOLEAN
    BY <2>1, <2>2
  <2>7. QED
    BY <2>3, <2>5, <2>6
<1>5. CASE StrayArrives
  <2>1. PICK kind \in Strays : Take(StrayFrame(kind), 0)
    BY <1>5, Zenon DEF StrayArrives
  <2>2. strayed' = TRUE /\ disturbed' = TRUE /\ toReceiver' = toReceiver
    BY <1>5 DEF StrayArrives
  <2>3. StrayFrame(kind) \in AnyFrame
    BY Zenon DEF AnyFrame
  <2>4. ReceiverInv(rx)' /\ delivered' \in Seq(Part) /\ toSender' \in Seq(Flow)
    BY <2>1, <2>3, TakeKeepsTheTypes
  <2>5. QED
    BY <1>1, <2>2, <2>4
<1>6. QED
  BY <1>4, <1>5

\* A frame or a flow control is lost, or the peer stalls.
LEMMA FaultsKeepTheTypes ==
  ASSUME LinkInv, LoseFrame \/ LoseFlowControl \/ PeerStalls
  PROVE  LinkInv'
<1>1. toReceiver \in Seq(Frame) /\ toSender \in Seq(Flow)
  BY DEF LinkInv, LinkTypeOK
<1>2. UNCHANGED <<tx, rx, submitted, delivered, strayed>> /\ disturbed' = TRUE
  BY DEF LoseFrame, LoseFlowControl, PeerStalls
<1>3. SUFFICES toReceiver' \in Seq(Frame) /\ toSender' \in Seq(Flow)
  BY <1>2, Zenon DEF LinkInv, LinkTypeOK, TransmitterInv, ReceiverInv
<1>4. CASE LoseFrame \/ LoseFlowControl
  <2>1. \/ toReceiver # <<>> /\ toReceiver' = Tail(toReceiver) /\ toSender' = toSender
        \/ toSender # <<>> /\ toSender' = Tail(toSender) /\ toReceiver' = toReceiver
    BY <1>4 DEF LoseFrame, LoseFlowControl
  <2>2. toReceiver # <<>> => Tail(toReceiver) \in Seq(Frame)
    BY <1>1
  <2>3. toSender # <<>> => Tail(toSender) \in Seq(Flow)
    BY <1>1
  <2>4. QED
    BY <1>1, <2>1, <2>2, <2>3, Zenon
<1>5. CASE PeerStalls
  <2>1. PICK status \in {"Wait", "Overflow", "Reserved"} : toSender' = <<FlowControl(status, 0)>>
    BY <1>5, Zenon DEF PeerStalls
  <2>2. FlowControl(status, 0) \in Flow
    BY DEF FlowControl, Flow, FlowStatus
  <2>3. toReceiver' = toReceiver
    BY <1>5 DEF PeerStalls
  <2>4. QED
    BY <1>1, <2>1, <2>2, <2>3
<1>6. QED
  BY <1>4, <1>5

\* The types of both ends, of the link and of what was received.
THEOREM LinkInvariant == Spec => []LinkInv
<1>1. Init => LinkInv
  <2> SUFFICES ASSUME Init PROVE LinkInv
    OBVIOUS
  <2>1. TransmitterInv(tx)
    <3>1. tx = [state |-> "Idle", id |-> 0, size |-> 0, sent |-> 0, sn |-> 1,
                left |-> NoLimit, waits |-> 0]
      BY DEF Init, NewTransmitter
    <3>2. /\ 0 \in Ids /\ 0 \in 0 .. MaxSize /\ 1 \in 0 .. Modulus - 1
          /\ 0 \in 0 .. MaxWaits + 1
      BY IsoTpAssumption, LinkAssumption
    <3>3. NoLimit \in Nat \cup {NoLimit} /\ "Idle" \in TransmitState
      BY DEF TransmitState
    <3>4. tx \in Transmitter
      <4> DEFINE states == TransmitState
                 lefts == Nat \cup {NoLimit}
                 zeros == 0 .. MaxSize
                 waited == 0 .. MaxWaits + 1
                 numbers == 0 .. Modulus - 1
      <4>1. /\ "Idle" \in states /\ 0 \in Ids /\ 0 \in zeros /\ 1 \in numbers
            /\ NoLimit \in lefts /\ 0 \in waited
        BY <3>2, <3>3
      <4>2. Transmitter = [state : states, id : Ids, size : zeros, sent : zeros,
                           sn : numbers, left : lefts, waits : waited]
        BY DEF Transmitter
      <4> HIDE DEF states, lefts, zeros, waited, numbers
      <4>3. QED
        BY <3>1, <4>1, <4>2
    <3>5. tx.state \notin InTransfer
      BY <3>1 DEF InTransfer
    <3>6. QED
      BY <3>4, <3>5 DEF TransmitterInv
  <2>2. ReceiverInv(rx)
    BY NothingInProgress DEF Init
  <2>3. QED
    <3>1. tx \in Transmitter /\ rx \in Pending
      BY <2>1, <2>2 DEF TransmitterInv, ReceiverInv
    <3>2. /\ toReceiver \in Seq(Frame) /\ toSender \in Seq(Flow)
          /\ delivered \in Seq(Part)
          /\ submitted \in Seq(Sizes) /\ Len(submitted) = 0
      BY DEF Init
    <3>3. Len(submitted) <= MaxMessages
      BY <3>2, LinkAssumption
    <3>4. disturbed \in BOOLEAN /\ strayed \in BOOLEAN
      BY DEF Init
    <3>5. QED
      BY <2>1, <2>2, <3>1, <3>2, <3>3, <3>4, Zenon DEF LinkInv, LinkTypeOK
<1>2. LinkInv /\ [Next]_linkVars => LinkInv'
  <2>1. ASSUME LinkInv, UNCHANGED linkVars PROVE LinkInv'
    BY <2>1, Zenon DEF linkVars, LinkInv, LinkTypeOK, TransmitterInv, ReceiverInv
  <2>2. QED
    BY <2>1, SubmitKeepsTheTypes, TransferKeepsTheTypes, ReceptionKeepsTheTypes,
       FaultsKeepTheTypes DEF Next
<1>3. QED
  BY <1>1, <1>2, PTL DEF Spec

-----------------------------------------------------------------------------
(***************************************************************************)
(* Live and offline                                                        *)
(***************************************************************************)
\* The receiver and the recorder are at the same point of the same message.
Agree(live, offline) ==
  /\ live.assembling = offline.assembling
  /\ live.assembling => Content(live) = offline

\* A message in progress without its blocks is what the recorder holds.
LEMMA ContentOfAssembling ==
  ASSUME NEW pending, pending \in Assembling
  PROVE  Content(pending) = [assembling |-> TRUE, buffer |-> pending.buffer,
                             remaining |-> pending.remaining, next |-> pending.next,
                             left |-> NoLimit]
<1> DEFINE buffer == pending.buffer
           remaining == pending.remaining
           next == pending.next
           left == pending.left
<1>1. pending = [assembling |-> TRUE, buffer |-> buffer, remaining |-> remaining,
                 next |-> next, left |-> left]
  BY DEF Assembling
<1>2. Content(pending) = [pending EXCEPT !.left = NoLimit]
  BY DEF Content
<1> HIDE DEF buffer, remaining, next, left
<1>3. Content(pending) = [assembling |-> TRUE, buffer |-> buffer, remaining |-> remaining,
                          next |-> next, left |-> NoLimit]
  BY <1>1, <1>2
<1>4. QED
  BY <1>3 DEF buffer, remaining, next

\* A single or a first frame makes them agree, whatever came before.
LEMMA OpeningFramesAgree ==
  ASSUME BufferSize = MaxSize, NEW live, NEW offline, NEW f \in Frame,
         f.kind # "Consecutive"
  PROVE  Agree(OnFrame(live, f).pending, ReassembleStream(offline, f).pending)
<1>1. f.kind \in {"Single", "First"}
  BY DEF Frame
<1>2. CASE f.kind = "Single"
  <2>1. OnFrame(live, f) = Completed(<<f.part>>)
          /\ ReassembleStream(offline, f) = Completed(<<f.part>>)
    BY <1>2, Zenon DEF OnFrame, ReassembleStream
  <2>2. Completed(<<f.part>>).pending = NotAssembling
    BY DEF Completed
  <2>3. NotAssembling.assembling = FALSE
    BY DEF NotAssembling
  <2>4. QED
    BY <2>1, <2>2, <2>3 DEF Agree
<1>3. CASE f.kind = "First"
  <2>1. f.part \in Part /\ f.size \in 1 .. MaxSize
    BY <1>3 DEF Frame
  <2>2. ~(f.size > BufferSize)
    BY <2>1, IsoTpAssumption
  <2>3. OnFrame(live, f) = Owing(Started(f))
          /\ ReassembleStream(offline, f) = Ignored([Started(f) EXCEPT !.left = NoLimit])
    BY <1>3, <2>2, Zenon DEF OnFrame, OnFirstFrame, ReassembleStream
  <2>4. OnFrame(live, f).pending = Started(f)
          /\ ReassembleStream(offline, f).pending = Content(Started(f))
    BY <2>3 DEF Owing, Ignored, Content
  <2>5. Content(Started(f)).assembling = TRUE /\ Started(f).assembling = TRUE
    BY DEF Content, Started
  <2>6. QED
    BY <2>4, <2>5 DEF Agree
<1>4. QED
  BY <1>1, <1>2, <1>3

\* What extends the one extends the other.
LEMMA ExtensionsAgree ==
  ASSUME NEW live, live \in Assembling, live.remaining > 0, NEW f, f.part \in Part
  PROVE  [Extended(Content(live), f) EXCEPT !.left = NoLimit] = Content(Extended(live, f))
<1> DEFINE offline == Content(live)
           buffer == Append(live.buffer, f.part)
           remaining == live.remaining - 1
           next == (live.next + 1) % Modulus
           allowance == NextAllowance(offline.left)
<1>1. /\ offline.buffer = live.buffer /\ offline.remaining = live.remaining
      /\ offline.next = live.next
  BY ContentOfAssembling
<1>2. offline \in Assembling
  <2>1. offline = [live EXCEPT !.left = NoLimit]
    BY DEF Content
  <2>2. NoLimit \in Nat \cup {NoLimit}
    OBVIOUS
  <2> HIDE DEF offline
  <2>3. QED
    BY <2>1, <2>2 DEF Assembling
<1>3. Extended(offline, f) = [offline EXCEPT !.buffer = buffer, !.remaining = remaining,
                                             !.next = next, !.left = allowance]
  BY <1>1, Zenon DEF Extended
<1>4. Extended(live, f) \in Assembling
  BY ExtendedIsInProgress
<1>5. /\ Extended(live, f).buffer = buffer /\ Extended(live, f).remaining = remaining
      /\ Extended(live, f).next = next
  BY DEF Extended, Assembling
<1> HIDE DEF offline, buffer, remaining, next, allowance
<1>6. Extended(offline, f) = [assembling |-> TRUE, buffer |-> buffer, remaining |-> remaining,
                              next |-> next, left |-> allowance]
  BY <1>2, <1>3 DEF Assembling
<1>7. [Extended(offline, f) EXCEPT !.left = NoLimit]
        = [assembling |-> TRUE, buffer |-> buffer, remaining |-> remaining, next |-> next,
           left |-> NoLimit]
  <2> DEFINE extended == Extended(offline, f)
             limit == NoLimit
  <2>1. extended = [assembling |-> TRUE, buffer |-> buffer, remaining |-> remaining,
                    next |-> next, left |-> allowance]
    BY <1>6
  <2> DEFINE result == [extended EXCEPT !.left = limit]
  <2>2. result = [extended EXCEPT !.left = limit]
    OBVIOUS
  <2> HIDE DEF extended, limit, result
  <2>3. result = [assembling |-> TRUE, buffer |-> buffer, remaining |-> remaining,
                  next |-> next, left |-> limit]
    BY <2>1, <2>2
  <2>4. QED
    BY <2>3, Zenon DEF extended, limit, result
<1>8. Content(Extended(live, f))
        = [assembling |-> TRUE, buffer |-> buffer, remaining |-> remaining, next |-> next,
           left |-> NoLimit]
  BY <1>4, <1>5, ContentOfAssembling
<1>9. QED
  BY <1>7, <1>8 DEF offline

\* A consecutive frame leaves them in agreement.
LEMMA ConsecutiveFramesAgree ==
  ASSUME NEW live, ReceiverInv(live), NEW offline, Agree(live, offline),
         NEW f \in Frame, f.kind = "Consecutive"
  PROVE  Agree(OnFrame(live, f).pending, ReassembleStream(offline, f).pending)
<1> DEFINE one == OnFrame(live, f)
           other == ReassembleStream(offline, f)
<1>1. one = OnConsecutiveFrame(live, f) /\ other = ReassembleConsecutive(offline, f)
  BY Zenon DEF OnFrame, ReassembleStream
<1>2. NotAssembling.assembling = FALSE
  BY DEF NotAssembling
<1>3. CASE ~live.assembling
  <2>1. one = Ignored(live) /\ other = Ignored(NotAssembling)
    BY <1>1, <1>3, Zenon DEF OnConsecutiveFrame, ReassembleConsecutive, Agree
  <2>2. one.pending = live /\ other.pending = NotAssembling
    BY <2>1 DEF Ignored
  <2>3. live.assembling = FALSE
    BY <1>2, <1>3 DEF ReceiverInv, Pending, Assembling
  <2>4. QED
    BY <1>2, <2>2, <2>3 DEF Agree
<1>4. CASE live.assembling
  <2>1. live \in Assembling /\ live.remaining > 0
    BY <1>2, <1>4 DEF ReceiverInv, Pending
  <2>2. offline = Content(live) /\ offline.assembling /\ offline.next = live.next
    BY <1>4, <2>1, ContentOfAssembling DEF Agree
  <2>3. CASE f.sn # live.next
    <3>1. one = Finished("Aborted") /\ other = Ignored(NotAssembling)
      BY <1>1, <1>4, <2>2, <2>3, Zenon DEF OnConsecutiveFrame, ReassembleConsecutive
    <3>2. one.pending = NotAssembling /\ other.pending = NotAssembling
      BY <3>1 DEF Finished, Ignored
    <3>3. QED
      BY <1>2, <3>2 DEF Agree
  <2>4. CASE f.sn = live.next
    <3> DEFINE extended == Extended(live, f)
               replay == [Extended(offline, f) EXCEPT !.left = NoLimit]
    <3>1. f.part \in Part
      BY DEF Frame
    <3>2. replay = Content(extended)
      BY <2>1, <2>2, <3>1, ExtensionsAgree
    <3>3. extended \in Assembling
      BY <2>1, <3>1, ExtendedIsInProgress
    <3>4. /\ replay.assembling = TRUE /\ extended.assembling = TRUE
          /\ replay.remaining = extended.remaining
      <4>1. extended.assembling = TRUE
        BY <3>3 DEF Assembling
      <4>2. replay.assembling = TRUE /\ replay.remaining = extended.remaining
        BY <3>2, <3>3, ContentOfAssembling
      <4>3. QED
        BY <4>1, <4>2
    <3>5. one = TakeNext(live, f)
      BY <1>1, <1>4, <2>4, Zenon DEF OnConsecutiveFrame
    <3>6. other = IF replay.remaining = 0 THEN Completed(replay.buffer) ELSE Ignored(replay)
      BY <1>1, <2>2, <2>4, Zenon DEF ReassembleConsecutive
    <3>7. CASE extended.remaining = 0
      <4>1. one = Completed(extended.buffer) /\ other = Completed(replay.buffer)
        BY <3>4, <3>5, <3>6, <3>7, Zenon DEF TakeNext
      <4>2. one.pending = NotAssembling /\ other.pending = NotAssembling
        BY <4>1 DEF Completed
      <4>3. QED
        BY <1>2, <4>2 DEF Agree
    <3>8. CASE extended.remaining # 0
      <4>1. one = Owing(extended) \/ one = Ignored(extended)
        <5>1. CASE live.left \in 0 .. 1
          BY <3>5, <3>8, <5>1, Zenon DEF TakeNext
        <5>2. CASE live.left \notin 0 .. 1
          BY <3>5, <3>8, <5>2, Zenon DEF TakeNext
        <5>3. QED
          BY <5>1, <5>2
      <4>2. other = Ignored(replay)
        BY <3>4, <3>6, <3>8, Zenon
      <4> HIDE DEF one, other, extended, replay
      <4>3. one.pending = extended /\ other.pending = replay
        BY <4>1, <4>2 DEF Owing, Ignored
      <4>4. Agree(one.pending, other.pending)
        BY <3>2, <3>4, <4>3, Zenon DEF Agree
      <4>5. QED
        BY <4>4 DEF one, other
    <3>9. QED
      BY <3>7, <3>8
  <2>5. QED
    BY <2>3, <2>4
<1>5. QED
  BY <1>3, <1>4

\* A message that begins after a malformed frame, or none at all, is seen
\* alike: until the next malformed frame the two agree.
LEMMA StepsKeepTheAgreement ==
  ASSUME LinkInv, ReplayAgrees, [Next]_linkVars
  PROVE  ReplayAgrees'
<1>1. SUFFICES ASSUME ~strayed', BufferSize = MaxSize
               PROVE  Agree(rx, recorded)'
  BY Zenon DEF ReplayAgrees, Agree
<1>2. ~strayed => Agree(rx, recorded)
  BY <1>1, Zenon DEF ReplayAgrees, Agree
<1>3. CASE Receive
  <2> DEFINE f == Head(toReceiver)
  <2>1. rx' = OnFrame(rx, f).pending /\ recorded' = ReassembleStream(recorded, f).pending
    BY <1>3, Zenon DEF Receive, Take
  <2>2. f \in Frame
    BY <1>3 DEF Receive, LinkInv, LinkTypeOK
  <2>3. strayed' = (strayed /\ f.kind = "Consecutive")
    BY <1>3 DEF Receive
  <2>4. CASE f.kind # "Consecutive"
    BY <1>1, <2>1, <2>2, <2>4, OpeningFramesAgree
  <2>5. CASE f.kind = "Consecutive"
    <3>1. Agree(rx, recorded) /\ ReceiverInv(rx)
      BY <1>1, <1>2, <2>3, <2>5, Zenon DEF LinkInv
    <3>2. QED
      BY <2>1, <2>2, <2>5, <3>1, ConsecutiveFramesAgree
  <2>6. QED
    BY <2>4, <2>5
<1>4. CASE StrayArrives
  BY <1>1, <1>4 DEF StrayArrives
<1>5. ASSUME UNCHANGED <<rx, recorded, strayed>> PROVE Agree(rx, recorded)'
  BY <1>1, <1>2, <1>5, Zenon DEF Agree
<1>6. CASE Submit \/ SendConsecutive \/ FinishBlock \/ TakeFlowControl \/ FlowControlTimeout
  BY <1>5, <1>6 DEF Submit, SendConsecutive, FinishBlock, TakeFlowControl, FlowControlTimeout
<1>7. CASE LoseFrame \/ LoseFlowControl \/ PeerStalls \/ UNCHANGED linkVars
  BY <1>5, <1>7 DEF LoseFrame, LoseFlowControl, PeerStalls, linkVars
<1>8. QED
  BY <1>3, <1>4, <1>6, <1>7 DEF Next

\* The live receiver and the offline reassembler agree on what is in progress
\* after any sequence of frames a link with faults can carry, for any lengths,
\* blocks and sequence numbers.
THEOREM ReplayAgreesWithLive == Spec => []ReplayAgrees
<1>1. Init => ReplayAgrees
  <2>1. Init => rx = recorded /\ rx = NotAssembling
    BY DEF Init
  <2>2. NotAssembling.assembling = FALSE
    BY DEF NotAssembling
  <2>3. QED
    BY <2>1, <2>2, Zenon DEF ReplayAgrees
<1>2. QED
  BY <1>1, LinkInvariant, StepsKeepTheAgreement, PTL DEF Spec

-----------------------------------------------------------------------------
(***************************************************************************)
(* Delivery.  No sequence number is needed for it: the receiver counts the *)
(* parts it lacks, so a message with a hole is never complete, and nothing *)
(* of a message is sent before the receiver asked for it, so no message    *)
(* goes on with the parts of another.                                      *)
(***************************************************************************)
\* How far message k was sent: what is sent now, or one sent to its end.
SentOf(k) == IF k = tx.id THEN tx.sent ELSE submitted[k]

\* What the transmitter may send before it reads flow control again.
Granted == IF tx.state = "SendingBlock" THEN tx.left ELSE 0

IdOf(frame) == frame.part[1]
Receiving == rx.buffer[1][1]

\* The transmitter was told to go on, and will learn of it.
GoAhead == tx.state \in InTransfer
             /\ \E i \in 1 .. Len(toSender) : toSender[i].status = "Continue"

\* The transmitter is at the message handed over last.
TransmitterShape ==
  /\ tx.state = "Idle" => submitted = <<>>
  /\ tx.state # "Idle" =>
       tx.id = Len(submitted) /\ tx.id > 0 /\ tx.size = submitted[tx.id]
  /\ tx.state = "Complete" => tx.sent = tx.size
  /\ tx.state \in {"Idle", "Aborted"} => toReceiver = <<>>
  /\ tx.state = "SendingBlock" /\ BlockSize > 0 => tx.left \in Nat

\* Flow control is under way only while no frame is: whoever sends it waits
\* for the transmitter, and the transmitter waits for it.
FlowShape ==
  /\ toSender # <<>> => toReceiver = <<>> /\ Granted = 0
  /\ \A i \in 1 .. Len(toSender) : toSender[i].status = "Continue" =>
       i = Len(toSender) /\ toSender[i].block = BlockSize

\* The first q frames under way are the last ones sent of message c ...
RunShape(c, q) ==
  /\ c \in 0 .. Len(submitted) /\ q \in 0 .. Len(toReceiver)
  /\ q > 0 => c > 0
  /\ \A i \in 1 .. q : toReceiver[i].kind = "Consecutive"
                         /\ toReceiver[i].part = <<c, SentOf(c) - q + i>>

\* ... and the others open later messages, each as it was handed over.
Opens(f, c) ==
  /\ f.kind \in {"Single", "First"} /\ f.part[2] = 0
  /\ IdOf(f) \in c + 1 .. Len(submitted)
  /\ f.kind = "Single" => submitted[IdOf(f)] = 0
  /\ f.kind = "First" => /\ f.size = submitted[IdOf(f)]
                         /\ tx.state = "AwaitingFlowControl"
                         /\ tx.id = IdOf(f) /\ tx.sent = 0
OpeningShape(c, q) ==
  /\ \A i \in q + 1 .. Len(toReceiver) :
       Opens(toReceiver[i], c) /\ (toReceiver[i].kind = "First" => i = Len(toReceiver))
  /\ \A i, j \in q + 1 .. Len(toReceiver) : i < j => IdOf(toReceiver[i]) < IdOf(toReceiver[j])

\* A message is sent on only if it is the one whose frames are under way.
ServiceShape(c, q) ==
  /\ tx.state = "SendingBlock" => c = tx.id /\ q = Len(toReceiver)
  /\ GoAhead => c = tx.id

\* The message in progress at the receiver is one of those sent, and it is
\* the one whose frames are under way if there are any.
ProgressShape(c, q) ==
  rx.assembling =>
    /\ Receiving \in 1 .. Len(submitted) /\ Len(rx.buffer) > 0
    /\ Len(rx.buffer) + rx.remaining = submitted[Receiving] + 1
    /\ \A i \in q + 1 .. Len(toReceiver) : Receiving < IdOf(toReceiver[i])
    /\ IF BlockSize = 0 THEN rx.left = NoLimit ELSE rx.left > 0
    /\ q > 0 \/ tx.state = "SendingBlock" \/ GoAhead => Receiving = c

\* The receiver took all that is no longer under way, or lacks some of it for
\* good, and it grants no less than the transmitter may send.
PartsShape(c, q) ==
  rx.assembling /\ Receiving = c =>
    /\ Len(rx.buffer) - 1 <= SentOf(c) - q
    /\ Len(rx.buffer) - 1 = SentOf(c) - q =>
         \A i \in 1 .. Len(rx.buffer) : rx.buffer[i] = <<c, i - 1>>
    /\ BlockSize > 0 => SentOf(c) + Granted <= Len(rx.buffer) - 1 + rx.left
    /\ BlockSize > 0 /\ GoAhead => SentOf(c) + BlockSize <= Len(rx.buffer) - 1 + rx.left

\* What was delivered is behind everything else.
DeliveredShape(q) ==
  delivered # <<>> =>
    /\ delivered[1][1] \in 1 .. Len(submitted)
    /\ \A i \in q + 1 .. Len(toReceiver) : delivered[1][1] < IdOf(toReceiver[i])
    /\ rx.assembling => delivered[1][1] < Receiving

Shape(c, q) ==
  /\ RunShape(c, q) /\ OpeningShape(c, q) /\ ServiceShape(c, q)
  /\ ProgressShape(c, q) /\ PartsShape(c, q) /\ DeliveredShape(q)

\* The invariant of delivery.
DeliveryInv ==
  /\ LinkInv /\ TransmitterShape /\ FlowShape
  /\ \E c \in 0 .. Len(submitted), q \in 0 .. Len(toReceiver) : Shape(c, q)

\* Types, once for all.
LEMMA LinkTypes ==
  ASSUME LinkInv
  PROVE  /\ tx.id \in Nat /\ tx.sent \in Nat /\ tx.size \in Nat
         /\ tx.left \in Nat \cup {NoLimit} /\ tx.state \in TransmitState
         /\ submitted \in Seq(Sizes) /\ Len(submitted) \in Nat /\ Sizes \subseteq Nat
         /\ toReceiver \in Seq(Frame) /\ Len(toReceiver) \in Nat
         /\ toSender \in Seq(Flow) /\ Len(toSender) \in Nat
         /\ BlockSize \in Nat
         /\ \A k \in 1 .. Len(submitted) : submitted[k] \in Nat
<1>1. /\ tx \in Transmitter /\ toReceiver \in Seq(Frame) /\ toSender \in Seq(Flow)
      /\ submitted \in Seq(Sizes)
  BY DEF LinkInv, LinkTypeOK
<1>2. Sizes \subseteq Nat /\ Ids \subseteq Nat /\ MaxSize \in Nat /\ BlockSize \in Nat
  BY IsoTpAssumption, LinkAssumption
<1>3. \A k \in 1 .. Len(submitted) : submitted[k] \in Nat
  <2>1. \A k \in 1 .. Len(submitted) : submitted[k] \in Sizes
    BY <1>1
  <2>2. QED
    BY <1>2, <2>1
<1>4. tx.id \in Nat /\ tx.sent \in Nat /\ tx.size \in Nat
  <2>1. tx.id \in Ids /\ tx.sent \in 0 .. MaxSize /\ tx.size \in 0 .. MaxSize
    BY <1>1 DEF Transmitter
  <2>2. \A n \in 0 .. MaxSize : n \in Nat
    BY <1>2
  <2>3. QED
    BY <1>2, <2>1, <2>2
<1>5. tx.left \in Nat \cup {NoLimit} /\ tx.state \in TransmitState
  BY <1>1 DEF Transmitter
<1>6. QED
  BY <1>1, <1>2, <1>3, <1>4, <1>5

\* A message in progress, field by field.
LEMMA ReceiverTypes ==
  ASSUME LinkInv, rx.assembling
  PROVE  /\ rx \in Assembling /\ rx.buffer \in Seq(Part) /\ Len(rx.buffer) \in Nat
         /\ rx.remaining \in Nat /\ rx.remaining > 0
         /\ rx.left \in Nat \cup {NoLimit}
<1>1. rx \in Assembling /\ rx.remaining > 0
  BY DEF LinkInv, ReceiverInv, Pending, NotAssembling
<1>2. /\ rx.buffer \in Seq(Part) /\ rx.remaining \in 0 .. MaxSize
      /\ rx.left \in Nat \cup {NoLimit}
  BY <1>1 DEF Assembling
<1>3. rx.remaining \in Nat
  <2>1. MaxSize \in Nat /\ rx.remaining \in 0 .. MaxSize
    BY <1>2, IsoTpAssumption
  <2>2. QED
    BY <2>1
<1>4. QED
  BY <1>1, <1>2, <1>3

\* How far a message was sent is a number.
LEMMA SentOfType ==
  ASSUME LinkInv, NEW c \in 1 .. Len(submitted)
  PROVE  SentOf(c) \in Nat
<1>1. CASE c = tx.id
  BY <1>1, LinkTypes DEF SentOf
<1>2. CASE c # tx.id
  BY <1>2, LinkTypes DEF SentOf
<1>3. QED
  BY <1>1, <1>2

\* What is left of the flow control under way when its head is gone.
LEMMA TailOfFlow ==
  ASSUME LinkInv, FlowShape, toSender # <<>>, toSender' = Tail(toSender)
  PROVE  /\ Len(toSender') = Len(toSender) - 1 /\ Len(toSender) \in Nat \ {0}
         /\ \A i \in 1 .. Len(toSender') : toSender'[i] = toSender[i + 1]
         /\ Head(toSender) = toSender[1] /\ Head(toSender) \in Flow
         /\ Head(toSender).status = "Continue" => toSender' = <<>>
<1>1. toSender \in Seq(Flow)
  BY DEF LinkInv, LinkTypeOK
<1>2. /\ Len(toSender') = Len(toSender) - 1 /\ Len(toSender) \in Nat \ {0}
      /\ \A i \in 1 .. Len(toSender') : toSender'[i] = toSender[i + 1]
      /\ Head(toSender) = toSender[1] /\ Head(toSender) \in Flow
  BY <1>1
<1>3. ASSUME Head(toSender).status = "Continue" PROVE toSender' = <<>>
  <2>1. 1 \in 1 .. Len(toSender) /\ toSender[1].status = "Continue"
    BY <1>2, <1>3
  <2>2. 1 = Len(toSender)
    BY <2>1, Zenon DEF FlowShape
  <2>3. QED
    BY <1>1, <2>2
<1>4. QED
  BY <1>2, <1>3

\* Before the first message nothing is under way.
LEMMA DeliveryBegins ==
  ASSUME Init, LinkInv
  PROVE  DeliveryInv
<1>1. /\ toReceiver = <<>> /\ toSender = <<>> /\ submitted = <<>> /\ delivered = <<>>
      /\ tx.state = "Idle" /\ rx.assembling = FALSE
  BY DEF Init, NewTransmitter, NotAssembling
<1>2. TransmitterShape /\ FlowShape
  BY <1>1 DEF TransmitterShape, FlowShape
<1>3. Shape(0, 0)
  BY <1>1 DEF Shape, RunShape, OpeningShape, ServiceShape, ProgressShape, PartsShape,
              DeliveredShape, GoAhead, InTransfer
<1>4. QED
  BY <1>1, <1>2, <1>3 DEF DeliveryInv

\* When nothing is under way to the receiver, a step that leaves it alone and
\* lets the transmitter neither begin nor send needs to be looked at only for
\* what the transmitter may do next.
LEMMA QuietStep ==
  ASSUME NEW c, NEW q, LinkInv, Shape(c, q), toReceiver = <<>>,
         UNCHANGED <<toReceiver, rx, delivered, submitted>>,
         tx'.id = tx.id, tx'.sent = tx.sent,
         ServiceShape(c, q)',
         rx.assembling /\ (tx'.state = "SendingBlock" \/ GoAhead') => Receiving = c,
         rx.assembling /\ Receiving = c /\ BlockSize > 0 =>
           /\ SentOf(c) + Granted' <= Len(rx.buffer) - 1 + rx.left
           /\ GoAhead' => SentOf(c) + BlockSize <= Len(rx.buffer) - 1 + rx.left
  PROVE  Shape(c, q)' /\ q = 0
<1>1. q = 0 /\ Len(toReceiver) = 0
  BY DEF Shape, RunShape
<1>2. SentOf(c)' = SentOf(c) /\ Receiving' = Receiving
  BY DEF SentOf, Receiving
<1>3. RunShape(c, q)'
  BY <1>1, <1>2 DEF Shape, RunShape
<1>4. 1 .. q = {} /\ q + 1 .. Len(toReceiver) = {} /\ q + 1 .. Len(toReceiver') = {}
  BY <1>1
<1>5. OpeningShape(c, q)'
  BY <1>4 DEF OpeningShape
<1>6. DeliveredShape(q)'
  <2>1. delivered # <<>> => delivered[1][1] \in 1 .. Len(submitted)
                              /\ (rx.assembling => delivered[1][1] < Receiving)
    BY DEF Shape, DeliveredShape
  <2>2. QED
    BY <1>2, <1>4, <2>1 DEF DeliveredShape
<1>7. ProgressShape(c, q)'
  <2>1. rx.assembling =>
          /\ Receiving \in 1 .. Len(submitted) /\ Len(rx.buffer) > 0
          /\ Len(rx.buffer) + rx.remaining = submitted[Receiving] + 1
          /\ IF BlockSize = 0 THEN rx.left = NoLimit ELSE rx.left > 0
    BY DEF Shape, ProgressShape
  <2>2. QED
    BY <1>1, <1>2, <1>4, <2>1 DEF ProgressShape
<1>8. PartsShape(c, q)'
  BY <1>1, <1>2 DEF Shape, PartsShape
<1>9. QED
  BY <1>1, <1>3, <1>5, <1>6, <1>7, <1>8 DEF Shape

\* What flow control does to a transmitter, without its counters.
LEMMA FlowControlEffects ==
  ASSUME NEW t \in Transmitter, NEW flow \in Flow
  PROVE  LET after == OnFlowControl(t, flow)
         IN  /\ after.id = t.id /\ after.sent = t.sent /\ after.size = t.size
             /\ \/ after = t
                \/ t.state = "AwaitingFlowControl" /\ after.state \in {"AwaitingFlowControl", "Aborted"}
                \/ /\ t.state = "AwaitingFlowControl" /\ flow.status = "Continue"
                   /\ after.state = "SendingBlock"
                   /\ after.left = IF flow.block = 0 THEN NoLimit ELSE flow.block
<1> DEFINE after == OnFlowControl(t, flow)
<1>1. CASE t.state # "AwaitingFlowControl"
  <2>1. after = t
    BY <1>1, Zenon DEF OnFlowControl
  <2>2. QED
    BY <2>1
<1>2. CASE t.state = "AwaitingFlowControl" /\ flow.status = "Continue"
  <2>1. after = OnContinueToSend(t, flow.block)
    BY <1>2, Zenon DEF OnFlowControl
  <2> DEFINE left == IF flow.block = 0 THEN NoLimit ELSE flow.block
  <2>2. after = [t EXCEPT !.waits = 0, !.state = "SendingBlock", !.left = left]
    BY <2>1, Zenon DEF OnContinueToSend
  <2> HIDE DEF after, left
  <2>3. after.id = t.id /\ after.sent = t.sent /\ after.size = t.size
          /\ after.state = "SendingBlock" /\ after.left = left
    BY <2>2 DEF Transmitter
  <2>4. QED
    BY <1>2, <2>3, Zenon DEF after, left
<1>3. CASE t.state = "AwaitingFlowControl" /\ flow.status = "Wait"
  <2>1. after = OnWait(t)
    BY <1>3, Zenon DEF OnFlowControl
  <2> DEFINE waited == [t EXCEPT !.waits = @ + 1]
  <2>2. after = waited \/ after = [waited EXCEPT !.state = "Aborted"]
    BY <2>1 DEF OnWait, Abort
  <2>3. /\ waited.id = t.id /\ waited.sent = t.sent /\ waited.size = t.size
        /\ waited.state = t.state
        /\ DOMAIN waited = {"state", "id", "size", "sent", "sn", "left", "waits"}
    BY DEF Transmitter
  <2> HIDE DEF after, waited
  <2>4. /\ after.id = t.id /\ after.sent = t.sent /\ after.size = t.size
        /\ after.state \in {"AwaitingFlowControl", "Aborted"}
    BY <1>3, <2>2, <2>3
  <2>5. QED
    BY <1>3, <2>4, Zenon DEF after
<1>4. CASE t.state = "AwaitingFlowControl" /\ flow.status \notin {"Continue", "Wait"}
  <2>1. after = Abort(t)
    BY <1>4, Zenon DEF OnFlowControl
  <2>2. /\ after.id = t.id /\ after.sent = t.sent /\ after.size = t.size
        /\ after.state = "Aborted"
    BY <2>1 DEF Abort, Transmitter
  <2> HIDE DEF after
  <2>3. QED
    BY <1>4, <2>2, Zenon DEF after
<1>5. QED
  BY <1>1, <1>2, <1>3, <1>4

\* With nothing under way, flow control, its loss and its absence are safe.
LEMMA FlowStepsKeepDelivery ==
  ASSUME DeliveryInv, LinkInv',
         TakeFlowControl \/ FlowControlTimeout \/ LoseFlowControl \/ PeerStalls
  PROVE  DeliveryInv'
<1>1. PICK c \in 0 .. Len(submitted), q \in 0 .. Len(toReceiver) : Shape(c, q)
  BY DEF DeliveryInv
<1>2. /\ LinkInv /\ TransmitterShape /\ FlowShape
      /\ UNCHANGED <<toReceiver, rx, delivered, submitted>>
  BY DEF DeliveryInv, TakeFlowControl, FlowControlTimeout, LoseFlowControl, PeerStalls
<1>3. toReceiver = <<>>
  BY <1>2 DEF FlowShape, TakeFlowControl, FlowControlTimeout, LoseFlowControl, PeerStalls,
              LinkIsQuiet
<1>4. tx \in Transmitter /\ toSender \in Seq(Flow)
  BY <1>2 DEF LinkInv, LinkTypeOK
<1>5. SUFFICES /\ TransmitterShape' /\ FlowShape' /\ tx'.id = tx.id /\ tx'.sent = tx.sent
               /\ ServiceShape(c, q)'
               /\ rx.assembling /\ (tx'.state = "SendingBlock" \/ GoAhead') => Receiving = c
               /\ rx.assembling /\ Receiving = c /\ BlockSize > 0 =>
                    /\ SentOf(c) + Granted' <= Len(rx.buffer) - 1 + rx.left
                    /\ GoAhead' => SentOf(c) + BlockSize <= Len(rx.buffer) - 1 + rx.left
  <2>1. Shape(c, q)' /\ q = 0
    BY <1>1, <1>2, <1>3, <1>5, QuietStep
  <2>2. c \in 0 .. Len(submitted') /\ q \in 0 .. Len(toReceiver')
    BY <1>1, <1>2
  <2>3. QED
    BY <1>5, <2>1, <2>2 DEF DeliveryInv
<1>6. /\ q = 0
      /\ tx.state = "SendingBlock" \/ GoAhead => c = tx.id
      /\ rx.assembling /\ (tx.state = "SendingBlock" \/ GoAhead) => Receiving = c
      /\ rx.assembling /\ Receiving = c /\ BlockSize > 0 =>
           /\ SentOf(c) + Granted <= Len(rx.buffer) - 1 + rx.left
           /\ GoAhead => SentOf(c) + BlockSize <= Len(rx.buffer) - 1 + rx.left
  BY <1>1, <1>3 DEF Shape, RunShape, ServiceShape, ProgressShape, PartsShape
<1>7. ServiceShape(c, q)' <=> (tx'.state = "SendingBlock" \/ GoAhead' => c = tx'.id)
  BY <1>2, <1>3, <1>6 DEF ServiceShape
<1>8. rx.assembling /\ Receiving = c =>
        SentOf(c) \in Int /\ Len(rx.buffer) \in Int /\ rx.left \in Int
  <2>1. rx.assembling /\ Receiving = c => c \in 1 .. Len(submitted)
    BY <1>1 DEF Shape, ProgressShape
  <2>2. QED
    BY <1>2, <2>1, ReceiverTypes, SentOfType DEF NoLimit
<1>9. CASE LoseFlowControl
  <2>1. toSender # <<>> /\ toSender' = Tail(toSender) /\ tx' = tx
    BY <1>9 DEF LoseFlowControl
  <2>2. GoAhead' => GoAhead
    BY <1>2, <2>1, TailOfFlow DEF GoAhead
  <2>3. Granted' = Granted
    BY <2>1 DEF Granted
  <2>4. TransmitterShape'
    BY <1>2, <2>1 DEF TransmitterShape
  <2>5. FlowShape'
    BY <1>2, <2>1, <2>3, TailOfFlow DEF FlowShape
  <2>6. QED
    BY <1>6, <1>7, <2>1, <2>2, <2>3, <2>4, <2>5
<1>10. CASE PeerStalls
  <2>1. PICK status \in {"Wait", "Overflow", "Reserved"} : toSender' = <<FlowControl(status, 0)>>
    BY <1>10, Zenon DEF PeerStalls
  <2>2. Len(toSender') = 1 /\ toSender'[1].status # "Continue"
    BY <2>1 DEF FlowControl
  <2>3. tx' = tx /\ tx.state = "AwaitingFlowControl"
    BY <1>10 DEF PeerStalls
  <2>4. ~GoAhead'
    BY <2>2 DEF GoAhead
  <2>5. Granted' = Granted /\ Granted = 0
    BY <2>3 DEF Granted
  <2>6. TransmitterShape'
    BY <1>2, <2>3 DEF TransmitterShape
  <2>7. FlowShape'
    BY <1>2, <1>3, <2>2, <2>5 DEF FlowShape
  <2>8. QED
    BY <1>6, <1>7, <2>3, <2>4, <2>5, <2>6, <2>7
<1>11. CASE FlowControlTimeout
  <2>1. tx' = Abort(tx) /\ toSender' = toSender /\ toSender = <<>>
          /\ tx.state = "AwaitingFlowControl"
    BY <1>11 DEF FlowControlTimeout, LinkIsQuiet
  <2>2. tx'.state = "Aborted" /\ tx'.id = tx.id /\ tx'.sent = tx.sent /\ tx'.size = tx.size
    BY <1>4, <2>1 DEF Abort, Transmitter
  <2>3. ~GoAhead' /\ Granted' = Granted
    BY <2>1, <2>2 DEF GoAhead, Granted, InTransfer
  <2>4. TransmitterShape'
    BY <1>2, <1>3, <2>1, <2>2 DEF TransmitterShape
  <2>5. FlowShape'
    BY <1>2, <2>1 DEF FlowShape
  <2>6. QED
    BY <1>6, <1>7, <2>2, <2>3, <2>4, <2>5
<1>12. CASE TakeFlowControl
  <2> DEFINE flow == Head(toSender)
  <2>1. toSender # <<>> /\ toSender' = Tail(toSender) /\ tx' = OnFlowControl(tx, flow)
    BY <1>12 DEF TakeFlowControl
  <2>2. flow = toSender[1] /\ flow \in Flow /\ Len(toSender) \in Nat \ {0}
    BY <1>2, <2>1, TailOfFlow
  <2>3. /\ tx'.id = tx.id /\ tx'.sent = tx.sent /\ tx'.size = tx.size
        /\ \/ tx' = tx
           \/ tx.state = "AwaitingFlowControl" /\ tx'.state \in {"AwaitingFlowControl", "Aborted"}
           \/ /\ tx.state = "AwaitingFlowControl" /\ flow.status = "Continue"
              /\ tx'.state = "SendingBlock"
              /\ tx'.left = IF flow.block = 0 THEN NoLimit ELSE flow.block
    BY <1>4, <2>1, <2>2, FlowControlEffects
  <2>4. \A i \in 1 .. Len(toSender') : toSender'[i].status = "Continue" =>
          i = Len(toSender') /\ toSender'[i].block = BlockSize
    BY <1>2, <2>1, TailOfFlow DEF FlowShape
  <2>5. (\E i \in 1 .. Len(toSender') : toSender'[i].status = "Continue")
          => \E i \in 1 .. Len(toSender) : toSender[i].status = "Continue"
    BY <1>2, <2>1, TailOfFlow
  <2>6. CASE tx' = tx
    <3>1. Granted' = Granted /\ (GoAhead' => GoAhead)
      BY <2>5, <2>6 DEF GoAhead, Granted
    <3>2. TransmitterShape'
      BY <1>2, <2>6 DEF TransmitterShape
    <3>3. FlowShape'
      BY <1>2, <2>1, <2>4, <3>1 DEF FlowShape
    <3>4. QED
      BY <1>6, <1>7, <2>6, <3>1, <3>2, <3>3
  <2>7. CASE tx.state = "AwaitingFlowControl" /\ tx'.state \in {"AwaitingFlowControl", "Aborted"}
    <3>1. Granted' = 0 /\ Granted = 0 /\ (GoAhead' => GoAhead)
      BY <2>5, <2>7 DEF GoAhead, Granted, InTransfer
    <3>2. TransmitterShape'
      BY <1>2, <1>3, <2>3, <2>7 DEF TransmitterShape
    <3>3. FlowShape'
      BY <1>2, <2>1, <2>4, <3>1 DEF FlowShape
    <3>4. QED
      BY <1>6, <1>7, <2>3, <2>7, <3>1, <3>2, <3>3
  <2>8. CASE /\ tx.state = "AwaitingFlowControl" /\ flow.status = "Continue"
             /\ tx'.state = "SendingBlock"
             /\ tx'.left = IF flow.block = 0 THEN NoLimit ELSE flow.block
    <3>1. flow.block = BlockSize
      BY <1>2, <2>2, <2>8 DEF FlowShape
    <3>2. toSender' = <<>>
      BY <1>2, <2>1, <2>8, TailOfFlow
    <3>3. GoAhead /\ ~GoAhead'
      BY <2>2, <2>8, <3>2 DEF GoAhead, InTransfer
    <3>4. BlockSize > 0 => Granted' = BlockSize
      BY <2>8, <3>1 DEF Granted
    <3>5. TransmitterShape'
      BY <1>2, <2>3, <2>8, <3>1, IsoTpAssumption DEF TransmitterShape
    <3>6. FlowShape'
      BY <3>2 DEF FlowShape
    <3>7. QED
      BY <1>6, <1>7, <2>3, <3>3, <3>4, <3>5, <3>6
  <2>9. QED
    BY <2>3, <2>6, <2>7, <2>8
<1>13. QED
  BY <1>9, <1>10, <1>11, <1>12

\* The end of a block leaves everything under way as it is.
LEMMA FinishBlockKeepsDelivery ==
  ASSUME DeliveryInv, LinkInv', FinishBlock
  PROVE  DeliveryInv'
<1>1. PICK c \in 0 .. Len(submitted), q \in 0 .. Len(toReceiver) : Shape(c, q)
  BY DEF DeliveryInv
<1>2. /\ LinkInv /\ TransmitterShape /\ FlowShape /\ tx.state = "SendingBlock" /\ tx.left = 0
      /\ UNCHANGED <<toReceiver, toSender, rx, delivered, submitted>>
  BY DEF DeliveryInv, FinishBlock, BlockIsUsedUp
<1>3. tx' = [tx EXCEPT !.state = "AwaitingFlowControl"] /\ tx \in Transmitter
  BY <1>2 DEF FinishBlock, AwaitNextBlock, LinkInv, LinkTypeOK
<1>4. /\ tx'.state = "AwaitingFlowControl" /\ tx'.id = tx.id /\ tx'.sent = tx.sent
      /\ tx'.size = tx.size
  BY <1>3 DEF Transmitter
<1>5. /\ SentOf(c)' = SentOf(c) /\ Receiving' = Receiving /\ Granted' = 0 /\ Granted = 0
      /\ GoAhead' <=> GoAhead
  BY <1>2, <1>4 DEF SentOf, Receiving, Granted, GoAhead, InTransfer
<1>6. c = tx.id /\ q = Len(toReceiver) /\ q + 1 .. Len(toReceiver) = {}
  BY <1>1, <1>2, LinkTypes DEF Shape, ServiceShape
<1>7. TransmitterShape'
  BY <1>2, <1>4 DEF TransmitterShape
<1>8. FlowShape'
  BY <1>2, <1>5 DEF FlowShape
<1>9. RunShape(c, q)'
  BY <1>1, <1>2, <1>5 DEF Shape, RunShape
<1>10. OpeningShape(c, q)' /\ ServiceShape(c, q)'
  BY <1>2, <1>4, <1>6 DEF OpeningShape, ServiceShape
<1>11. ProgressShape(c, q)'
  BY <1>1, <1>2, <1>4, <1>5, <1>6 DEF Shape, ProgressShape
<1>12. PartsShape(c, q)'
  BY <1>1, <1>2, <1>5 DEF Shape, PartsShape
<1>13. DeliveredShape(q)'
  BY <1>1, <1>2, <1>5, <1>6 DEF Shape, DeliveredShape
<1>14. QED
  BY <1>1, <1>2, <1>7, <1>8, <1>9, <1>10, <1>11, <1>12, <1>13 DEF DeliveryInv, Shape

\* A consecutive frame goes behind those of the same message.
LEMMA SendConsecutiveKeepsDelivery ==
  ASSUME DeliveryInv, LinkInv', SendConsecutive
  PROVE  DeliveryInv'
<1>1. PICK c \in 0 .. Len(submitted), q \in 0 .. Len(toReceiver) : Shape(c, q)
  BY DEF DeliveryInv
<1>2. /\ LinkInv /\ TransmitterShape /\ FlowShape /\ tx.state = "SendingBlock" /\ tx.left # 0
      /\ UNCHANGED <<toSender, rx, delivered, submitted>>
      /\ toReceiver' = Append(toReceiver, NextFrame(tx))
      /\ tx' = AfterFrame(tx)
  BY DEF DeliveryInv, SendConsecutive, BlockIsUsedUp
<1>3. /\ tx \in Transmitter /\ tx.sent \in Nat /\ tx.size \in Nat /\ tx.sent < tx.size
      /\ toReceiver \in Seq(Frame) /\ Len(toReceiver) \in Nat /\ tx.left \in Nat \cup {NoLimit}
  BY <1>2, LinkTypes DEF LinkInv, LinkTypeOK, TransmitterInv, InTransfer
<1>4. /\ tx'.id = tx.id /\ tx'.sent = tx.sent + 1 /\ tx'.size = tx.size
      /\ tx'.left = IF tx.left = NoLimit THEN NoLimit ELSE tx.left - 1
      /\ tx'.state = IF tx.sent + 1 >= tx.size THEN "Complete" ELSE "SendingBlock"
  BY <1>2, <1>3 DEF AfterFrame, Transmitter
<1>5. /\ c = tx.id /\ q = Len(toReceiver) /\ q \in Nat /\ c > 0 /\ c \in 1 .. Len(submitted)
      /\ toSender = <<>>
  <2>1. c = tx.id /\ q = Len(toReceiver)
    BY <1>1, <1>2 DEF Shape, ServiceShape
  <2>2. tx.id > 0
    BY <1>2 DEF TransmitterShape
  <2>3. toSender = <<>>
    BY <1>2 DEF FlowShape, Granted
  <2>4. QED
    BY <1>1, <1>3, <2>1, <2>2, <2>3
<1>6. /\ SentOf(c) = tx.sent /\ SentOf(c)' = tx.sent + 1 /\ Receiving' = Receiving
      /\ ~GoAhead' /\ Granted = tx.left
  BY <1>2, <1>4, <1>5 DEF SentOf, Receiving, Granted, GoAhead
<1>7. /\ Len(toReceiver') = q + 1 /\ (q + 1) + 1 .. Len(toReceiver') = {}
      /\ \A i \in 1 .. q : toReceiver'[i] = toReceiver[i]
      /\ toReceiver'[q + 1] = NextFrame(tx)
  <2> DEFINE f == NextFrame(tx)
  <2>1. toReceiver' = Append(toReceiver, f)
    BY <1>2
  <2> HIDE DEF f
  <2>2. /\ Len(toReceiver') = q + 1 /\ toReceiver'[q + 1] = f
        /\ \A i \in 1 .. q : toReceiver'[i] = toReceiver[i]
    BY <1>3, <1>5, <2>1
  <2>3. (q + 1) + 1 .. Len(toReceiver') = {}
    BY <1>5, <2>2
  <2>4. QED
    BY <2>2, <2>3 DEF f
<1>8. NextFrame(tx).kind = "Consecutive" /\ NextFrame(tx).part = <<c, tx.sent + 1>>
  BY <1>5 DEF NextFrame, ConsecutiveFrame
<1>9. TransmitterShape'
  <2>1. tx.id = Len(submitted) /\ tx.id > 0 /\ tx.size = submitted[tx.id]
    BY <1>2 DEF TransmitterShape
  <2>2. tx'.state \in {"Complete", "SendingBlock"}
    BY <1>4
  <2>3. tx'.state = "Complete" => tx'.sent = tx'.size
    BY <1>3, <1>4
  <2>4. BlockSize > 0 => tx'.left \in Nat
    <3>1. BlockSize > 0 => tx.left \in Nat /\ tx.left # 0
      BY <1>2 DEF TransmitterShape
    <3>2. QED
      BY <1>4, <3>1 DEF NoLimit
  <2>5. tx'.id = Len(submitted') /\ tx'.id > 0 /\ tx'.size = submitted'[tx'.id]
    BY <1>2, <1>4, <2>1
  <2>6. QED
    BY <2>2, <2>3, <2>4, <2>5 DEF TransmitterShape
<1>10. FlowShape'
  BY <1>2, <1>5 DEF FlowShape
<1>11. RunShape(c, q + 1)'
  <2>1. ASSUME NEW i \in 1 .. q + 1
        PROVE  toReceiver'[i].kind = "Consecutive"
                 /\ toReceiver'[i].part = <<c, (tx.sent + 1) - (q + 1) + i>>
    <3>1. CASE i = q + 1
      <4> DEFINE sent == tx.sent
      <4>1. (sent + 1) - (q + 1) + i = sent + 1
        <5>1. sent \in Nat /\ q \in Nat
          BY <1>3, <1>5
        <5> HIDE DEF sent
        <5>2. QED
          BY <3>1, <5>1
      <4>2. QED
        BY <1>7, <1>8, <3>1, <4>1
    <3>2. CASE i # q + 1
      <4> DEFINE sent == tx.sent
      <4>1. i \in 1 .. q /\ (sent + 1) - (q + 1) + i = sent - q + i
        <5>1. sent \in Nat /\ q \in Nat
          BY <1>3, <1>5
        <5> HIDE DEF sent
        <5>2. QED
          BY <3>2, <5>1
      <4>2. toReceiver[i].kind = "Consecutive" /\ toReceiver[i].part = <<c, tx.sent - q + i>>
        BY <1>1, <1>6, <4>1 DEF Shape, RunShape
      <4>3. QED
        BY <1>7, <4>1, <4>2
    <3>3. QED
      BY <3>1, <3>2
  <2>2. c \in 0 .. Len(submitted') /\ q + 1 \in 0 .. Len(toReceiver')
    BY <1>1, <1>2, <1>5, <1>7
  <2>3. QED
    BY <1>5, <1>6, <2>1, <2>2 DEF RunShape
<1>12. OpeningShape(c, q + 1)' /\ ServiceShape(c, q + 1)'
  BY <1>4, <1>5, <1>6, <1>7 DEF OpeningShape, ServiceShape
<1>13. ProgressShape(c, q + 1)'
  BY <1>1, <1>2, <1>6, <1>7 DEF Shape, ProgressShape
<1>14. PartsShape(c, q + 1)'
  <2> SUFFICES ASSUME rx.assembling, Receiving = c PROVE PartsShape(c, q + 1)'
    BY <1>2, <1>6 DEF PartsShape
  <2>1. SentOf(c)' - (q + 1) = tx.sent - q
    BY <1>3, <1>5, <1>6
  <2>2. /\ Len(rx.buffer) - 1 <= tx.sent - q
        /\ Len(rx.buffer) - 1 = tx.sent - q =>
             \A i \in 1 .. Len(rx.buffer) : rx.buffer[i] = <<c, i - 1>>
        /\ BlockSize > 0 => tx.sent + tx.left <= Len(rx.buffer) - 1 + rx.left
    BY <1>1, <1>6 DEF Shape, PartsShape
  <2>3. BlockSize > 0 => tx.left \in Nat /\ Granted' <= tx.left - 1
    <3> SUFFICES ASSUME BlockSize > 0 PROVE tx.left \in Nat /\ Granted' <= tx.left - 1
      OBVIOUS
    <3>1. tx.left \in Nat /\ tx.left # 0
      BY <1>2 DEF TransmitterShape
    <3>2. tx'.left = tx.left - 1
      BY <1>4, <3>1 DEF NoLimit
    <3>3. Granted' = tx'.left \/ Granted' = 0
      BY DEF Granted
    <3>4. QED
      BY <3>1, <3>2, <3>3
  <2>4. Granted' \in Int /\ Len(rx.buffer) \in Int /\ rx.left \in Int
    BY <1>2, <1>3, <1>4, ReceiverTypes DEF Granted, NoLimit
  <2>5. BlockSize > 0 => tx.sent + 1 + Granted' <= Len(rx.buffer) - 1 + rx.left
    <3> SUFFICES ASSUME BlockSize > 0
                 PROVE  tx.sent + 1 + Granted' <= Len(rx.buffer) - 1 + rx.left
      OBVIOUS
    <3> DEFINE grant == Granted'
               room == Len(rx.buffer) - 1 + rx.left
               sent == tx.sent
               left == tx.left
    <3>1. /\ grant \in Int /\ room \in Int /\ sent \in Int /\ left \in Int
          /\ grant <= left - 1 /\ sent + left <= room
      BY <1>3, <2>2, <2>3, <2>4
    <3> HIDE DEF grant, room, sent, left
    <3>2. sent + 1 + grant <= room
      BY <3>1
    <3>3. QED
      BY <3>2, Zenon DEF grant, room, sent
  <2>6. /\ Len(rx.buffer) - 1 <= SentOf(c)' - (q + 1)
        /\ Len(rx.buffer) - 1 = SentOf(c)' - (q + 1) =>
             \A i \in 1 .. Len(rx.buffer) : rx.buffer[i] = <<c, i - 1>>
        /\ BlockSize > 0 => SentOf(c)' + Granted' <= Len(rx.buffer) - 1 + rx.left
    BY <1>6, <2>1, <2>2, <2>5, Zenon
  <2>7. rx' = rx
    BY <1>2
  <2>8. QED
    BY <1>6, <2>6, <2>7, Zenon DEF PartsShape
<1>15. DeliveredShape(q + 1)'
  BY <1>1, <1>2, <1>6, <1>7 DEF Shape, DeliveredShape
<1>16. c \in 0 .. Len(submitted') /\ q + 1 \in 0 .. Len(toReceiver')
  BY <1>11 DEF RunShape
<1>17. QED
  BY <1>9, <1>10, <1>11, <1>12, <1>13, <1>14, <1>15, <1>16 DEF DeliveryInv, Shape

\* The frame at the head is gone, lost or received.
AfterHead(q) == IF q > 0 THEN q - 1 ELSE 0

LEMMA QueueTail ==
  ASSUME LinkInv, NEW c, NEW q, RunShape(c, q), OpeningShape(c, q), ServiceShape(c, q),
         toReceiver # <<>>, toReceiver' = Tail(toReceiver), UNCHANGED <<tx, submitted>>
  PROVE  /\ RunShape(c, AfterHead(q))' /\ OpeningShape(c, AfterHead(q))'
         /\ AfterHead(q) \in 0 .. Len(toReceiver')
         /\ tx.state = "SendingBlock" => AfterHead(q) = Len(toReceiver')
         /\ SentOf(c)' = SentOf(c)
         /\ \A i \in AfterHead(q) + 1 .. Len(toReceiver') :
              i + 1 \in q + 1 .. Len(toReceiver) /\ toReceiver'[i] = toReceiver[i + 1]
<1> DEFINE p == AfterHead(q)
<1>1. /\ toReceiver \in Seq(Frame) /\ Len(toReceiver) \in Nat \ {0}
      /\ Len(toReceiver') = Len(toReceiver) - 1
      /\ \A i \in 1 .. Len(toReceiver') : toReceiver'[i] = toReceiver[i + 1]
  <2>1. toReceiver \in Seq(Frame)
    BY DEF LinkInv, LinkTypeOK
  <2>2. QED
    BY <2>1
<1>2. c \in 0 .. Len(submitted) /\ q \in 0 .. Len(toReceiver) /\ (q > 0 => c > 0)
  BY DEF RunShape
<1>3. p \in 0 .. Len(toReceiver') /\ (p > 0 => p = q - 1 /\ q > 0)
  BY <1>1, <1>2 DEF AfterHead
<1>4. SentOf(c)' = SentOf(c)
  BY DEF SentOf
<1>5. \A i \in p + 1 .. Len(toReceiver') :
        i + 1 \in q + 1 .. Len(toReceiver) /\ toReceiver'[i] = toReceiver[i + 1]
  BY <1>1, <1>2, <1>3 DEF AfterHead
<1>6. RunShape(c, p)'
  <2>1. ASSUME NEW i \in 1 .. p
        PROVE  toReceiver'[i].kind = "Consecutive"
                 /\ toReceiver'[i].part = <<c, SentOf(c)' - p + i>>
    <3>1. /\ q > 0 /\ p = q - 1 /\ i + 1 \in 1 .. q /\ i \in 1 .. Len(toReceiver')
          /\ toReceiver'[i] = toReceiver[i + 1]
      BY <1>1, <1>2, <1>3
    <3>2. toReceiver[i + 1].kind = "Consecutive"
            /\ toReceiver[i + 1].part = <<c, SentOf(c) - q + (i + 1)>>
      BY <3>1 DEF RunShape
    <3>3. SentOf(c) \in Nat
      BY <1>2, <3>1, SentOfType
    <3>4. SentOf(c) - q + (i + 1) = SentOf(c)' - p + i
      BY <1>2, <1>4, <3>1, <3>3
    <3>5. QED
      BY <3>1, <3>2, <3>4
  <2>2. c \in 0 .. Len(submitted') /\ (p > 0 => c > 0)
    BY <1>2, <1>3
  <2>3. QED
    BY <1>3, <2>1, <2>2 DEF RunShape
<1>7. OpeningShape(c, p)'
  <2>1. ASSUME NEW i \in p + 1 .. Len(toReceiver')
        PROVE  Opens(toReceiver[i], c)'
                 /\ (toReceiver'[i].kind = "First" => i = Len(toReceiver'))
    <3>1. i + 1 \in q + 1 .. Len(toReceiver) /\ toReceiver'[i] = toReceiver[i + 1] /\ i \in Int
      BY <1>3, <1>5
    <3>2. Opens(toReceiver[i + 1], c)
            /\ (toReceiver[i + 1].kind = "First" => i + 1 = Len(toReceiver))
      BY <3>1 DEF OpeningShape
    <3>3. Opens(toReceiver[i], c)'
      BY <3>1, <3>2 DEF Opens, IdOf
    <3>4. toReceiver'[i].kind = "First" => i = Len(toReceiver')
      BY <1>1, <3>1, <3>2
    <3>5. QED
      BY <3>3, <3>4
  <2>2. ASSUME NEW i \in p + 1 .. Len(toReceiver'), NEW j \in p + 1 .. Len(toReceiver'), i < j
        PROVE  IdOf(toReceiver'[i]) < IdOf(toReceiver'[j])
    <3>1. /\ i + 1 \in q + 1 .. Len(toReceiver) /\ toReceiver'[i] = toReceiver[i + 1]
          /\ j + 1 \in q + 1 .. Len(toReceiver) /\ toReceiver'[j] = toReceiver[j + 1]
      BY <1>5
    <3>2. i + 1 < j + 1
      BY <1>3, <2>2
    <3>3. QED
      BY <3>1, <3>2 DEF OpeningShape
  <2>3. QED
    BY <2>1, <2>2, Zenon DEF OpeningShape
<1>8. tx.state = "SendingBlock" => p = Len(toReceiver')
  BY <1>1, <1>2 DEF ServiceShape, AfterHead
<1>9. QED
  BY <1>3, <1>4, <1>5, <1>6, <1>7, <1>8

\* No flow control is under way while a frame is.
LEMMA FramesKeepFlowAway ==
  ASSUME FlowShape, toReceiver # <<>>
  PROVE  toSender = <<>> /\ ~GoAhead
BY DEF FlowShape, GoAhead

\* A lost frame is a hole that the receiver does not make up for.
LEMMA LoseFrameKeepsDelivery ==
  ASSUME DeliveryInv, LinkInv', LoseFrame
  PROVE  DeliveryInv'
<1>1. PICK c \in 0 .. Len(submitted), q \in 0 .. Len(toReceiver) : Shape(c, q)
  BY DEF DeliveryInv
<1> DEFINE p == AfterHead(q)
<1>2. /\ LinkInv /\ TransmitterShape /\ FlowShape
      /\ toReceiver # <<>> /\ toReceiver' = Tail(toReceiver)
      /\ UNCHANGED <<tx, toSender, rx, delivered, submitted>>
  BY DEF DeliveryInv, LoseFrame
<1>3. /\ RunShape(c, p)' /\ OpeningShape(c, p)' /\ p \in 0 .. Len(toReceiver')
      /\ tx.state = "SendingBlock" => p = Len(toReceiver')
      /\ SentOf(c)' = SentOf(c)
      /\ \A i \in p + 1 .. Len(toReceiver') :
           i + 1 \in q + 1 .. Len(toReceiver) /\ toReceiver'[i] = toReceiver[i + 1]
  BY <1>1, <1>2, QueueTail DEF Shape
<1>4. toSender = <<>> /\ ~GoAhead /\ ~GoAhead' /\ Granted' = Granted /\ Receiving' = Receiving
  BY <1>2, FramesKeepFlowAway DEF GoAhead, Granted, Receiving
<1>5. TransmitterShape' /\ FlowShape'
  BY <1>2, <1>4 DEF TransmitterShape, FlowShape
<1>6. ServiceShape(c, p)'
  BY <1>1, <1>2, <1>3, <1>4 DEF Shape, ServiceShape
<1>7. p > 0 => q > 0
  BY <1>1 DEF AfterHead
<1>8. ProgressShape(c, p)'
  <2> SUFFICES ASSUME rx.assembling PROVE ProgressShape(c, p)'
    BY <1>2 DEF ProgressShape
  <2>1. /\ Receiving \in 1 .. Len(submitted) /\ Len(rx.buffer) > 0
        /\ Len(rx.buffer) + rx.remaining = submitted[Receiving] + 1
        /\ \A i \in q + 1 .. Len(toReceiver) : Receiving < IdOf(toReceiver[i])
        /\ IF BlockSize = 0 THEN rx.left = NoLimit ELSE rx.left > 0
        /\ q > 0 \/ tx.state = "SendingBlock" \/ GoAhead => Receiving = c
    BY <1>1 DEF Shape, ProgressShape
  <2>2. \A i \in p + 1 .. Len(toReceiver') : Receiving < IdOf(toReceiver'[i])
    BY <1>3, <2>1
  <2>3. QED
    BY <1>2, <1>4, <1>7, <2>1, <2>2 DEF ProgressShape
<1>9. PartsShape(c, p)'
  <2> SUFFICES ASSUME rx.assembling, Receiving = c PROVE PartsShape(c, p)'
    BY <1>2, <1>4 DEF PartsShape
  <2>1. /\ Len(rx.buffer) - 1 <= SentOf(c) - q
        /\ Len(rx.buffer) - 1 = SentOf(c) - q =>
             \A i \in 1 .. Len(rx.buffer) : rx.buffer[i] = <<c, i - 1>>
        /\ BlockSize > 0 => SentOf(c) + Granted <= Len(rx.buffer) - 1 + rx.left
    BY <1>1 DEF Shape, PartsShape
  <2>2. c \in 1 .. Len(submitted)
    BY <1>1 DEF Shape, ProgressShape
  <2>3. SentOf(c) \in Nat /\ Len(rx.buffer) \in Nat /\ q \in Nat
    BY <1>1, <1>2, <2>2, SentOfType, ReceiverTypes, LinkTypes
  <2>4. /\ Len(rx.buffer) - 1 <= SentOf(c)' - p
        /\ Len(rx.buffer) - 1 = SentOf(c)' - p => Len(rx.buffer) - 1 = SentOf(c) - q
    BY <1>3, <2>1, <2>3 DEF AfterHead
  <2>5. rx' = rx
    BY <1>2
  <2>6. QED
    BY <1>3, <1>4, <2>1, <2>4, <2>5, Zenon DEF PartsShape
<1>10. DeliveredShape(p)'
  <2>1. delivered # <<>> =>
          /\ delivered[1][1] \in 1 .. Len(submitted)
          /\ \A i \in q + 1 .. Len(toReceiver) : delivered[1][1] < IdOf(toReceiver[i])
          /\ rx.assembling => delivered[1][1] < Receiving
    BY <1>1 DEF Shape, DeliveredShape
  <2>2. delivered # <<>> =>
          \A i \in p + 1 .. Len(toReceiver') : delivered[1][1] < IdOf(toReceiver'[i])
    BY <1>3, <2>1
  <2>3. QED
    BY <1>2, <1>4, <2>1, <2>2 DEF DeliveredShape
<1>11. c \in 0 .. Len(submitted')
  BY <1>1, <1>2
<1>12. QED
  BY <1>3, <1>5, <1>6, <1>8, <1>9, <1>10, <1>11 DEF DeliveryInv, Shape

\* Whatever the receiver gives up, the rest stays in order.
LEMMA GivingUpKeepsShape ==
  ASSUME NEW c, NEW q, RunShape(c, q)', OpeningShape(c, q)', ServiceShape(c, q)',
         ~rx'.assembling, delivered # <<>> => delivered[1][1] \in 1 .. Len(submitted),
         \A i \in q + 1 .. Len(toReceiver') :
           delivered # <<>> => delivered[1][1] < IdOf(toReceiver'[i]),
         UNCHANGED <<submitted, delivered>>
  PROVE  Shape(c, q)'
BY DEF Shape, ProgressShape, PartsShape, DeliveredShape

\* A malformed frame is ignored or ends the message in progress.
LEMMA StrayKeepsDelivery ==
  ASSUME DeliveryInv, LinkInv', StrayArrives
  PROVE  DeliveryInv' /\ delivered' = delivered
<1>1. PICK c \in 0 .. Len(submitted), q \in 0 .. Len(toReceiver) : Shape(c, q)
  BY DEF DeliveryInv
<1>2. PICK kind \in Strays : Take(StrayFrame(kind), 0)
  BY Zenon DEF StrayArrives
<1>3. LinkInv /\ TransmitterShape /\ FlowShape /\ UNCHANGED <<tx, toReceiver, submitted>>
  BY DEF DeliveryInv, StrayArrives
<1>4. OnFrame(rx, StrayFrame(kind)) \in {Ignored(NotAssembling), Ignored(rx)}
  <2>1. StrayFrame(kind).kind \in {"ShortFirst", "FdEscape", "Unknown"}
    BY DEF StrayFrame, Strays
  <2>2. CASE StrayFrame(kind).kind = "FdEscape"
    BY <2>2, Zenon DEF OnFrame
  <2>3. CASE StrayFrame(kind).kind \notin {"Single", "First", "Consecutive", "FdEscape"}
    BY <2>3, Zenon DEF OnFrame
  <2>4. QED
    BY <2>1, <2>2, <2>3
<1>5. OnFrame(rx, StrayFrame(kind)).pending \in {NotAssembling, rx}
        /\ OnFrame(rx, StrayFrame(kind)).outcome = "Nothing"
  BY <1>4 DEF Ignored
<1>6. FlowControlFor("Nothing") = <<>>
  BY Zenon DEF FlowControlFor
<1>7. rx' \in {NotAssembling, rx} /\ delivered' = delivered /\ toSender' = toSender
  <2>1. /\ rx' = OnFrame(rx, StrayFrame(kind)).pending
        /\ delivered' = IF OnFrame(rx, StrayFrame(kind)).outcome = "Completed"
                        THEN OnFrame(rx, StrayFrame(kind)).pdu ELSE delivered
        /\ toSender' = toSender \o
             IF FlowControlFor(OnFrame(rx, StrayFrame(kind)).outcome) = <<>> THEN <<>>
             ELSE [i \in 1 .. 0 |-> FlowControl("Wait", 0)]
                    \o FlowControlFor(OnFrame(rx, StrayFrame(kind)).outcome)
    BY <1>2, Zenon DEF Take
  <2>2. toSender' = toSender \o <<>>
    BY <1>5, <1>6, <2>1, Zenon
  <2>3. toSender \in Seq(Flow)
    BY <1>3 DEF LinkInv, LinkTypeOK
  <2>4. toSender' = toSender
    BY <2>2, <2>3
  <2>5. QED
    BY <1>5, <2>1, <2>4
<1>8. GoAhead' = GoAhead /\ Granted' = Granted /\ SentOf(c)' = SentOf(c)
  BY <1>3, <1>7 DEF GoAhead, Granted, SentOf
<1>9. TransmitterShape' /\ FlowShape'
  BY <1>3, <1>7, <1>8 DEF TransmitterShape, FlowShape
<1>10. RunShape(c, q)' /\ ServiceShape(c, q)'
  BY <1>1, <1>3, <1>7, <1>8 DEF Shape, RunShape, ServiceShape
<1>11. OpeningShape(c, q)'
  BY <1>1, <1>3 DEF Shape, OpeningShape, Opens, IdOf
<1>12. CASE rx' = rx
  <2>1. Receiving' = Receiving
    BY <1>12 DEF Receiving
  <2>2. ProgressShape(c, q)' /\ PartsShape(c, q)'
    BY <1>1, <1>3, <1>7, <1>8, <1>12, <2>1 DEF Shape, ProgressShape, PartsShape, IdOf
  <2>3. DeliveredShape(q)'
    BY <1>1, <1>3, <1>7, <1>12, <2>1 DEF Shape, DeliveredShape, IdOf
  <2>4. QED
    BY <1>1, <1>3, <1>7, <1>9, <1>10, <1>11, <2>2, <2>3 DEF DeliveryInv, Shape
<1>13. CASE rx' = NotAssembling
  <2>1. ~rx'.assembling
    BY <1>13 DEF NotAssembling
  <2>2. Shape(c, q)'
    BY <1>1, <1>3, <1>7, <1>10, <1>11, <2>1, GivingUpKeepsShape DEF Shape, DeliveredShape
  <2>3. QED
    BY <1>1, <1>3, <1>7, <1>9, <2>2 DEF DeliveryInv
<1>14. QED
  BY <1>7, <1>12, <1>13

\* A transmitter that is done with its message counts it as sent to its end.
LEMMA DoneIsSent ==
  ASSUME LinkInv, TransmitterShape, tx.state = "Complete",
         NEW c \in 1 .. Len(submitted)
  PROVE  SentOf(c) = submitted[c]
BY DEF TransmitterShape, SentOf

\* Before a message is begun, the transmitter is done with the one before, or
\* nothing is under way.
LEMMA BetweenMessages ==
  ASSUME DeliveryInv, tx.state \notin InTransfer, toSender = <<>>
  PROVE  \E c \in 0 .. Len(submitted), q \in 0 .. Len(toReceiver) :
           Shape(c, q) /\ (c > 0 => tx.state = "Complete")
<1>1. PICK c \in 0 .. Len(submitted), q \in 0 .. Len(toReceiver) : Shape(c, q)
  BY DEF DeliveryInv
<1>2. LinkInv /\ TransmitterShape /\ ~GoAhead
  BY DEF DeliveryInv, GoAhead
<1>3. CASE tx.state = "Complete"
  BY <1>1, <1>3
<1>4. CASE tx.state # "Complete"
  <2>1. toReceiver = <<>> /\ tx.state # "SendingBlock"
    BY <1>2, <1>4, LinkTypes DEF TransmitterShape, TransmitState, InTransfer
  <2>2. q = 0 /\ Len(toReceiver) = 0 /\ 0 + 1 .. Len(toReceiver) = {} /\ 1 .. 0 = {}
    BY <1>1, <2>1
  <2>3. 0 \in 0 .. Len(submitted)
    BY <1>2, LinkTypes
  <2>4. RunShape(0, 0) /\ OpeningShape(0, 0) /\ ServiceShape(0, 0)
    BY <1>2, <2>1, <2>2, <2>3 DEF RunShape, OpeningShape, ServiceShape
  <2>5. DeliveredShape(0)
    BY <1>1, <2>2 DEF Shape, DeliveredShape
  <2>6. ProgressShape(0, 0)
    BY <1>1, <1>2, <2>1, <2>2 DEF Shape, ProgressShape
  <2>7. PartsShape(0, 0)
    BY <2>6 DEF ProgressShape, PartsShape
  <2>8. Shape(0, 0)
    BY <2>4, <2>5, <2>6, <2>7 DEF Shape
  <2>9. QED
    BY <2>2, <2>3, <2>8
<1>5. QED
  BY <1>3, <1>4

\* A new message goes behind everything under way.
LEMMA SubmitKeepsDelivery ==
  ASSUME DeliveryInv, LinkInv', Submit
  PROVE  DeliveryInv'
<1>1. PICK size \in Sizes :
        LET m == [id |-> Len(submitted) + 1, size |-> size]
        IN  /\ tx' = Begin(tx, m)
            /\ toReceiver' = Append(toReceiver, OpeningFrame(m))
            /\ submitted' = Append(submitted, size)
  BY Zenon DEF Submit
<1> DEFINE n == Len(submitted)
           m == [id |-> n + 1, size |-> size]
           f == OpeningFrame(m)
<1>2. /\ tx.state \notin InTransfer /\ toSender = <<>>
      /\ UNCHANGED <<rx, toSender, recorded, delivered, replayed, strayed>>
      /\ LinkInv /\ TransmitterShape
  BY DEF Submit, DeliveryInv
<1>3. PICK c \in 0 .. Len(submitted), q \in 0 .. Len(toReceiver) :
        Shape(c, q) /\ (c > 0 => tx.state = "Complete")
  BY <1>2, BetweenMessages
<1>4. /\ n \in Nat /\ submitted \in Seq(Sizes) /\ size \in Nat /\ tx \in Transmitter
      /\ toReceiver \in Seq(Frame) /\ Len(toReceiver) \in Nat
  BY <1>2, LinkTypes DEF LinkInv, LinkTypeOK
<1>5. /\ tx'.id = n + 1 /\ tx'.size = size /\ tx'.sent = 0
      /\ tx'.state = IF size = 0 THEN "Complete" ELSE "AwaitingFlowControl"
  <2> DEFINE state == IF size = 0 THEN "Complete" ELSE "AwaitingFlowControl"
             id == n + 1
  <2>1. tx' = [tx EXCEPT !.id = id, !.size = size, !.sent = 0, !.sn = 1, !.waits = 0,
                         !.state = state]
    BY <1>1 DEF Begin
  <2> HIDE DEF state, id
  <2>2. tx'.id = id /\ tx'.size = size /\ tx'.sent = 0 /\ tx'.state = state
    BY <1>4, <2>1 DEF Transmitter
  <2>3. QED
    BY <2>2 DEF state, id
<1>6. /\ Len(submitted') = n + 1 /\ submitted'[n + 1] = size
      /\ \A k \in 1 .. n : submitted'[k] = submitted[k]
  BY <1>1, <1>4
<1>7. /\ f.part = <<n + 1, 0>>
      /\ f.kind = IF size = 0 THEN "Single" ELSE "First"
      /\ f.kind = "First" => f.size = size
  BY DEF OpeningFrame, SingleFrame, FirstFrame
<1>8. toReceiver' = Append(toReceiver, f)
  BY <1>1
<1> HIDE DEF f
<1>9. /\ Len(toReceiver') = Len(toReceiver) + 1 /\ toReceiver'[Len(toReceiver) + 1] = f
      /\ \A i \in 1 .. Len(toReceiver) : toReceiver'[i] = toReceiver[i]
  BY <1>4, <1>8
<1>10. /\ ~GoAhead' /\ Granted' = 0 /\ Receiving' = Receiving
  BY <1>2, <1>5 DEF GoAhead, Granted, Receiving
<1>11. \A k \in 1 .. n : c = k => SentOf(k)' = SentOf(k)
  <2>1. ASSUME NEW k \in 1 .. n, c = k PROVE SentOf(k)' = SentOf(k)
    <3>1. SentOf(k) = submitted[k]
      BY <1>2, <1>3, <2>1, DoneIsSent
    <3>2. SentOf(k)' = submitted'[k]
      BY <1>4, <1>5 DEF SentOf
    <3>3. QED
      BY <1>6, <3>1, <3>2
  <2>2. QED
    BY <2>1
<1>12. TransmitterShape'
  <2>1. tx'.state # "Idle" /\ tx'.state # "Aborted" /\ tx'.state # "SendingBlock"
    BY <1>5
  <2>2. tx'.id = Len(submitted') /\ tx'.id > 0 /\ tx'.size = submitted'[tx'.id]
    BY <1>4, <1>5, <1>6
  <2>3. tx'.state = "Complete" => tx'.sent = tx'.size
    BY <1>5
  <2>4. QED
    BY <2>1, <2>2, <2>3 DEF TransmitterShape
<1>13. FlowShape'
  BY <1>2 DEF FlowShape
<1>14. c \in 0 .. Len(submitted') /\ q \in 0 .. Len(toReceiver')
  BY <1>3, <1>4, <1>6, <1>9
<1>15. RunShape(c, q)'
  <2>1. ASSUME NEW i \in 1 .. q
        PROVE  toReceiver'[i].kind = "Consecutive"
                 /\ toReceiver'[i].part = <<c, SentOf(c)' - q + i>>
    <3>1. c \in 1 .. n /\ i \in 1 .. Len(toReceiver)
      BY <1>3, <1>4 DEF Shape, RunShape
    <3>2. toReceiver[i].kind = "Consecutive" /\ toReceiver[i].part = <<c, SentOf(c) - q + i>>
      BY <1>3 DEF Shape, RunShape
    <3>3. SentOf(c)' = SentOf(c)
      BY <1>11, <3>1
    <3>4. QED
      BY <1>9, <3>1, <3>2, <3>3
  <2>2. q > 0 => c > 0
    BY <1>3 DEF Shape, RunShape
  <2>3. QED
    BY <1>14, <2>1, <2>2 DEF RunShape
<1>16. \A i \in q + 1 .. Len(toReceiver') :
         \/ i = Len(toReceiver') /\ toReceiver'[i] = f
         \/ i \in q + 1 .. Len(toReceiver) /\ toReceiver'[i] = toReceiver[i]
              /\ toReceiver[i].kind = "Single" /\ Opens(toReceiver[i], c)
  <2>1. ASSUME NEW i \in q + 1 .. Len(toReceiver)
        PROVE  toReceiver[i].kind = "Single" /\ Opens(toReceiver[i], c)
    <3>1. Opens(toReceiver[i], c)
      BY <1>3 DEF Shape, OpeningShape
    <3>2. tx.state # "AwaitingFlowControl"
      BY <1>2 DEF InTransfer
    <3>3. QED
      BY <3>1, <3>2 DEF Opens
  <2>2. QED
    BY <1>3, <1>4, <1>9, <2>1
<1>17. OpeningShape(c, q)'
  <2>1. ASSUME NEW i \in q + 1 .. Len(toReceiver')
        PROVE  Opens(toReceiver[i], c)'
                 /\ (toReceiver'[i].kind = "First" => i = Len(toReceiver'))
    <3>1. CASE i = Len(toReceiver') /\ toReceiver'[i] = f
      <4>1. n + 1 \in c + 1 .. Len(submitted')
        BY <1>3, <1>4, <1>6
      <4>2. QED
        BY <1>5, <1>6, <1>7, <3>1, <4>1 DEF Opens, IdOf
    <3>2. CASE i \in q + 1 .. Len(toReceiver) /\ toReceiver'[i] = toReceiver[i]
                 /\ toReceiver[i].kind = "Single" /\ Opens(toReceiver[i], c)
      <4>1. /\ toReceiver[i].part[2] = 0 /\ IdOf(toReceiver[i]) \in c + 1 .. n
            /\ submitted[IdOf(toReceiver[i])] = 0
        BY <3>2 DEF Opens
      <4>2. IdOf(toReceiver[i]) \in 1 .. n /\ IdOf(toReceiver[i]) \in c + 1 .. Len(submitted')
        BY <1>3, <1>4, <1>6, <4>1
      <4>3. submitted'[IdOf(toReceiver[i])] = 0
        BY <1>6, <4>1, <4>2
      <4>4. QED
        BY <3>2, <4>1, <4>2, <4>3 DEF Opens, IdOf
    <3>3. QED
      BY <1>16, <3>1, <3>2
  <2>2. ASSUME NEW i \in q + 1 .. Len(toReceiver'), NEW j \in q + 1 .. Len(toReceiver'), i < j
        PROVE  IdOf(toReceiver'[i]) < IdOf(toReceiver'[j])
    <3>1. i # Len(toReceiver')
      BY <1>3, <1>4, <1>9, <2>2
    <3>2. /\ i \in q + 1 .. Len(toReceiver) /\ toReceiver'[i] = toReceiver[i]
          /\ Opens(toReceiver[i], c)
      BY <1>16, <3>1
    <3>3. CASE j = Len(toReceiver') /\ toReceiver'[j] = f
      <4>1. IdOf(toReceiver[i]) \in c + 1 .. n /\ IdOf(f) = n + 1
        BY <1>7, <3>2 DEF Opens, IdOf
      <4>2. QED
        BY <1>3, <1>4, <3>2, <3>3, <4>1
    <3>4. CASE j \in q + 1 .. Len(toReceiver) /\ toReceiver'[j] = toReceiver[j]
      BY <1>3, <2>2, <3>2, <3>4 DEF Shape, OpeningShape
    <3>5. QED
      BY <1>16, <3>3, <3>4
  <2>3. QED
    BY <2>1, <2>2, Zenon DEF OpeningShape
<1>18. ServiceShape(c, q)'
  BY <1>5, <1>10 DEF ServiceShape
<1>19. ASSUME NEW k \in 1 .. n, \A i \in q + 1 .. Len(toReceiver) : k < IdOf(toReceiver[i])
       PROVE  \A i \in q + 1 .. Len(toReceiver') : k < IdOf(toReceiver'[i])
  BY <1>4, <1>7, <1>16, <1>19 DEF IdOf
<1>20. ProgressShape(c, q)'
  <2> SUFFICES ASSUME rx.assembling PROVE ProgressShape(c, q)'
    BY <1>2 DEF ProgressShape
  <2>1. /\ Receiving \in 1 .. n /\ Len(rx.buffer) > 0
        /\ Len(rx.buffer) + rx.remaining = submitted[Receiving] + 1
        /\ \A i \in q + 1 .. Len(toReceiver) : Receiving < IdOf(toReceiver[i])
        /\ IF BlockSize = 0 THEN rx.left = NoLimit ELSE rx.left > 0
        /\ q > 0 => Receiving = c
    BY <1>3 DEF Shape, ProgressShape
  <2>2. \A i \in q + 1 .. Len(toReceiver') : Receiving < IdOf(toReceiver'[i])
    BY <1>19, <2>1
  <2>3. Receiving \in 1 .. Len(submitted') /\ submitted'[Receiving] = submitted[Receiving]
    BY <1>4, <1>6, <2>1
  <2>4. tx'.state # "SendingBlock" /\ rx' = rx
    BY <1>2, <1>5
  <2>5. QED
    BY <1>10, <2>1, <2>2, <2>3, <2>4 DEF ProgressShape
<1>21. PartsShape(c, q)'
  <2> SUFFICES ASSUME rx.assembling, Receiving = c PROVE PartsShape(c, q)'
    BY <1>2, <1>10 DEF PartsShape
  <2>1. c \in 1 .. n
    BY <1>3 DEF Shape, ProgressShape
  <2>2. SentOf(c)' = SentOf(c) /\ Granted = 0 /\ rx' = rx
    BY <1>2, <1>11, <2>1 DEF Granted, InTransfer
  <2>3. QED
    BY <1>3, <1>10, <2>2 DEF Shape, PartsShape
<1>22. DeliveredShape(q)'
  <2> SUFFICES ASSUME delivered # <<>> PROVE DeliveredShape(q)'
    BY <1>2 DEF DeliveredShape
  <2>1. /\ delivered[1][1] \in 1 .. n
        /\ \A i \in q + 1 .. Len(toReceiver) : delivered[1][1] < IdOf(toReceiver[i])
        /\ rx.assembling => delivered[1][1] < Receiving
    BY <1>3 DEF Shape, DeliveredShape
  <2>2. \A i \in q + 1 .. Len(toReceiver') : delivered[1][1] < IdOf(toReceiver'[i])
    BY <1>19, <2>1
  <2>3. delivered[1][1] \in 1 .. Len(submitted')
    BY <1>4, <1>6, <2>1
  <2>4. QED
    BY <1>2, <1>10, <2>1, <2>2, <2>3 DEF DeliveredShape
<1>23. QED
  BY <1>12, <1>13, <1>14, <1>15, <1>17, <1>18, <1>20, <1>21, <1>22 DEF DeliveryInv, Shape

-----------------------------------------------------------------------------
(***************************************************************************)
(* Reception                                                               *)
(***************************************************************************)
Last == IF delivered = <<>> THEN 0 ELSE delivered[1][1]

\* What a step may hand over: nothing, or a later message as it was sent.
DeliversWhole ==
  \/ delivered' = delivered
  \/ \E k \in Last + 1 .. Len(submitted) :
       delivered' = [i \in 1 .. submitted[k] + 1 |-> <<k, i - 1>>]

\* What is put on the link in answer to a frame: the outcome decides it.
Answers(outcome, waits) ==
  IF FlowControlFor(outcome) = <<>> THEN <<>>
  ELSE [i \in 1 .. waits |-> FlowControl("Wait", 0)] \o FlowControlFor(outcome)

LEMMA AnswersOfOutcomes ==
  ASSUME NEW waits \in Nat
  PROVE  /\ \A outcome \in {"Nothing", "Completed", "Aborted"} : Answers(outcome, waits) = <<>>
         /\ \A i \in 1 .. Len(Answers("Refused", waits)) :
              Answers("Refused", waits)[i].status # "Continue"
         /\ \A i \in 1 .. Len(Answers("SendFlowControl", waits)) :
              Answers("SendFlowControl", waits)[i].status = "Continue" =>
                /\ i = Len(Answers("SendFlowControl", waits))
                /\ Answers("SendFlowControl", waits)[i].block = BlockSize
<1> DEFINE asked == [i \in 1 .. waits |-> FlowControl("Wait", 0)]
           continue == FlowControl("Continue", BlockSize)
           overflow == FlowControl("Overflow", BlockSize)
<1>1. \A outcome \in {"Nothing", "Completed", "Aborted"} : Answers(outcome, waits) = <<>>
  <2>1. \A outcome \in {"Nothing", "Completed", "Aborted"} :
          outcome # "SendFlowControl" /\ outcome # "Refused"
    OBVIOUS
  <2>2. \A outcome : outcome # "SendFlowControl" /\ outcome # "Refused" =>
          FlowControlFor(outcome) = <<>>
    BY Zenon DEF FlowControlFor
  <2>3. QED
    BY <2>1, <2>2 DEF Answers
<1>2. /\ continue.status = "Continue" /\ continue.block = BlockSize
      /\ overflow.status = "Overflow"
  BY DEF FlowControl
<1>3. /\ asked \in Seq({FlowControl("Wait", 0)}) /\ Len(asked) = waits
      /\ \A i \in 1 .. waits : asked[i].status = "Wait"
  <2>1. FlowControl("Wait", 0).status = "Wait"
    BY DEF FlowControl
  <2>2. QED
    BY <2>1
<1>4. FlowControlFor("SendFlowControl") = <<continue>>
        /\ FlowControlFor("Refused") = <<overflow>>
  <2>1. "SendFlowControl" # "Refused"
    OBVIOUS
  <2>2. QED
    BY <2>1, Zenon DEF FlowControlFor
<1> HIDE DEF asked, continue, overflow
<1>5. Answers("SendFlowControl", waits) = asked \o <<continue>>
        /\ Answers("Refused", waits) = asked \o <<overflow>>
  <2>1. <<continue>> # <<>> /\ <<overflow>> # <<>>
    OBVIOUS
  <2>2. QED
    BY <1>4, <2>1, Zenon DEF Answers, asked
<1>6. ASSUME NEW f
      PROVE  /\ Len(asked \o <<f>>) = waits + 1
             /\ \A i \in 1 .. waits : (asked \o <<f>>)[i] = asked[i]
             /\ (asked \o <<f>>)[waits + 1] = f
  BY <1>3
<1>7. \A i \in 1 .. waits + 1 : i \in 1 .. waits \/ i = waits + 1
  OBVIOUS
<1>8. \A i \in 1 .. Len(asked \o <<overflow>>) : (asked \o <<overflow>>)[i].status # "Continue"
  BY <1>2, <1>3, <1>6, <1>7
<1>9. \A i \in 1 .. Len(asked \o <<continue>>) :
        (asked \o <<continue>>)[i].status = "Continue" =>
          i = Len(asked \o <<continue>>) /\ (asked \o <<continue>>)[i].block = BlockSize
  BY <1>2, <1>3, <1>6, <1>7
<1>10. QED
  BY <1>1, <1>5, <1>8, <1>9

\* What a reception does to the variables.
LEMMA ReceiveEffects ==
  ASSUME LinkInv, FlowShape, Receive
  PROVE  LET f == toReceiver[1]
             live == OnFrame(rx, f)
         IN  /\ toReceiver # <<>> /\ toReceiver' = Tail(toReceiver)
             /\ UNCHANGED <<tx, submitted>>
             /\ toSender = <<>> /\ ~GoAhead /\ f \in Frame
             /\ rx' = live.pending
             /\ delivered' = IF live.outcome = "Completed" THEN live.pdu ELSE delivered
             /\ \E waits \in Nat : toSender' = Answers(live.outcome, waits)
<1> DEFINE f == Head(toReceiver)
           live == OnFrame(rx, f)
<1>1. toReceiver # <<>> /\ toReceiver' = Tail(toReceiver) /\ UNCHANGED <<tx, submitted>>
  BY DEF Receive
<1>2. PICK waits \in PeerWaits : Take(f, waits)
  BY Zenon DEF Receive
<1>3. /\ rx' = live.pending
      /\ delivered' = IF live.outcome = "Completed" THEN live.pdu ELSE delivered
      /\ toSender' = toSender \o Answers(live.outcome, waits)
  BY <1>2, Zenon DEF Take, Answers
<1>4. toReceiver \in Seq(Frame) /\ waits \in Nat
  BY LinkAssumption DEF LinkInv, LinkTypeOK
<1>5. f = toReceiver[1] /\ f \in Frame
  BY <1>1, <1>4
<1>6. toSender = <<>> /\ ~GoAhead
  BY <1>1, FramesKeepFlowAway
<1>7. Answers(live.outcome, waits) \in Seq(Flow)
  BY <1>4, AnswersAreFlowControl DEF Answers
<1> HIDE DEF live
<1>8. toSender' = Answers(live.outcome, waits)
  BY <1>3, <1>6, <1>7
<1>9. QED
  BY <1>1, <1>3, <1>4, <1>5, <1>6, <1>8 DEF live

\* A single frame is a message.
LEMMA ReceiveSingle ==
  ASSUME DeliveryInv, Receive, toReceiver[1].kind = "Single"
  PROVE  DeliversWhole /\ (LinkInv' => DeliveryInv')
<1>1. PICK c \in 0 .. Len(submitted), q \in 0 .. Len(toReceiver) : Shape(c, q)
  BY DEF DeliveryInv
<1> DEFINE f == toReceiver[1]
<1>2. LinkInv /\ TransmitterShape /\ FlowShape
  BY DEF DeliveryInv
<1>3. OnFrame(rx, f) = Completed(<<f.part>>)
  BY Zenon DEF OnFrame
<1>4. /\ OnFrame(rx, f).pending = NotAssembling /\ OnFrame(rx, f).outcome = "Completed"
      /\ OnFrame(rx, f).pdu = <<f.part>>
  BY <1>3 DEF Completed
<1>5. /\ toReceiver # <<>> /\ toReceiver' = Tail(toReceiver) /\ UNCHANGED <<tx, submitted>>
      /\ toSender = <<>> /\ f \in Frame
      /\ rx' = NotAssembling /\ delivered' = <<f.part>>
  BY <1>2, <1>4, ReceiveEffects
<1>6. toSender' = <<>>
  BY <1>2, <1>4, ReceiveEffects, AnswersOfOutcomes
<1>7. Len(toReceiver) \in Nat \ {0} /\ Len(submitted) \in Nat
  BY <1>2, <1>5, LinkTypes
<1>8. q = 0
  <2>1. q > 0 => f.kind = "Consecutive"
    BY <1>1, <1>7 DEF Shape, RunShape
  <2>2. QED
    BY <1>1, <2>1
<1>9. Opens(f, c) /\ AfterHead(q) = 0
  BY <1>1, <1>7, <1>8 DEF Shape, OpeningShape, AfterHead
<1>10. f.part = <<IdOf(f), 0>>
  <2>1. f.part \in Ids \X (0 .. MaxSize) /\ f.part[2] = 0
    BY <1>5, <1>9 DEF Frame, Part, Opens
  <2>2. QED
    BY <2>1 DEF IdOf
<1>11. IdOf(f) \in 1 .. Len(submitted) /\ submitted[IdOf(f)] = 0
  BY <1>1, <1>7, <1>9 DEF Opens
<1>12. delivered'[1][1] = IdOf(f) /\ delivered' = <<<<IdOf(f), 0>>>>
  BY <1>5, <1>10 DEF IdOf
<1>13. DeliversWhole
  <2>1. IdOf(f) \in Last + 1 .. Len(submitted)
    <3>1. delivered # <<>> => delivered[1][1] \in 1 .. Len(submitted) /\ delivered[1][1] < IdOf(f)
      BY <1>1, <1>7, <1>8 DEF Shape, DeliveredShape
    <3>2. QED
      BY <1>7, <1>11, <3>1 DEF Last
  <2>2. <<<<IdOf(f), 0>>>> = [i \in 1 .. submitted[IdOf(f)] + 1 |-> <<IdOf(f), i - 1>>]
    BY <1>11
  <2>3. QED
    BY <1>12, <2>1, <2>2 DEF DeliversWhole
<1>14. /\ RunShape(c, 0)' /\ OpeningShape(c, 0)' /\ 0 \in 0 .. Len(toReceiver')
       /\ tx.state = "SendingBlock" => 0 = Len(toReceiver')
       /\ \A i \in 1 .. Len(toReceiver') :
            i + 1 \in 1 .. Len(toReceiver) /\ toReceiver'[i] = toReceiver[i + 1]
  <2>1. RunShape(c, q) /\ OpeningShape(c, q) /\ ServiceShape(c, q)
    BY <1>1 DEF Shape
  <2>2. /\ RunShape(c, AfterHead(q))' /\ OpeningShape(c, AfterHead(q))'
        /\ AfterHead(q) \in 0 .. Len(toReceiver')
        /\ tx.state = "SendingBlock" => AfterHead(q) = Len(toReceiver')
        /\ \A i \in 1 .. Len(toReceiver') :
             i + 1 \in 1 .. Len(toReceiver) /\ toReceiver'[i] = toReceiver[i + 1]
    BY <1>1, <1>2, <1>5, <2>1, QueueTail DEF Shape
  <2>3. QED
    BY <1>9, <2>2
<1>15. Granted' = Granted /\ ~GoAhead'
  BY <1>5, <1>6 DEF Granted, GoAhead
<1>16. TransmitterShape' /\ FlowShape'
  BY <1>2, <1>5, <1>6 DEF TransmitterShape, FlowShape
<1>17. ServiceShape(c, 0)'
  BY <1>1, <1>5, <1>14, <1>15 DEF Shape, ServiceShape
<1>18. ~rx'.assembling
  BY <1>5 DEF NotAssembling
<1>19. DeliveredShape(0)'
  <2>1. ASSUME NEW i \in 1 .. Len(toReceiver') PROVE IdOf(f) < IdOf(toReceiver'[i])
    <3>1. i + 1 \in 1 .. Len(toReceiver) /\ toReceiver'[i] = toReceiver[i + 1] /\ 1 < i + 1
            /\ 1 \in 1 .. Len(toReceiver)
      BY <1>7, <1>14
    <3>2. QED
      BY <1>1, <1>8, <3>1 DEF Shape, OpeningShape
  <2>2. delivered'[1][1] \in 1 .. Len(submitted')
    BY <1>5, <1>11, <1>12
  <2>3. QED
    BY <1>12, <1>18, <2>1, <2>2 DEF DeliveredShape, IdOf
<1>20. Shape(c, 0)'
  BY <1>14, <1>17, <1>18, <1>19 DEF Shape, ProgressShape, PartsShape
<1>21. c \in 0 .. Len(submitted')
  BY <1>1, <1>5
<1>22. QED
  BY <1>13, <1>14, <1>16, <1>20, <1>21 DEF DeliveryInv

\* A first frame starts the message it announces, or is refused.
LEMMA ReceiveFirst ==
  ASSUME DeliveryInv, Receive, toReceiver[1].kind = "First"
  PROVE  DeliversWhole /\ (LinkInv' => DeliveryInv')
<1>1. PICK c \in 0 .. Len(submitted), q \in 0 .. Len(toReceiver) : Shape(c, q)
  BY DEF DeliveryInv
<1> DEFINE f == toReceiver[1]
           live == OnFrame(rx, f)
<1>2. LinkInv /\ TransmitterShape /\ FlowShape
  BY DEF DeliveryInv
<1>3. /\ toReceiver # <<>> /\ toReceiver' = Tail(toReceiver) /\ UNCHANGED <<tx, submitted>>
      /\ f \in Frame /\ rx' = live.pending
      /\ delivered' = IF live.outcome = "Completed" THEN live.pdu ELSE delivered
  BY <1>2, ReceiveEffects
<1>4. Len(toReceiver) \in Nat \ {0} /\ Len(submitted) \in Nat /\ BlockSize \in Nat
      /\ toReceiver \in Seq(Frame)
  BY <1>2, <1>3, LinkTypes
<1>5. q = 0
  <2>1. q > 0 => f.kind = "Consecutive"
    BY <1>1, <1>4 DEF Shape, RunShape
  <2>2. QED
    BY <1>1, <2>1
<1>6. Opens(f, c) /\ 1 = Len(toReceiver)
  <2>1. 1 \in q + 1 .. Len(toReceiver)
    BY <1>4, <1>5
  <2>2. QED
    BY <1>1, <2>1 DEF Shape, OpeningShape
<1>7. PICK id \in c + 1 .. Len(submitted) : id = IdOf(f)
  BY <1>6 DEF Opens
<1>8. /\ id \in c + 1 .. Len(submitted) /\ f.size = submitted[id] /\ f.part[2] = 0
      /\ tx.state = "AwaitingFlowControl" /\ tx.id = id /\ tx.sent = 0
  BY <1>6, <1>7 DEF Opens
<1>9. f.part = <<id, 0>> /\ f.size \in 1 .. MaxSize
  <2>1. f.part \in Ids \X (0 .. MaxSize) /\ f.size \in 1 .. MaxSize
    BY <1>3 DEF Frame, Part
  <2>2. QED
    BY <1>8, <1>7, <2>1 DEF IdOf
<1>10. toReceiver' = <<>> /\ Len(toReceiver') = 0
  BY <1>3, <1>4, <1>6
<1>11. Granted' = 0 /\ TransmitterShape'
  BY <1>2, <1>3, <1>8, <1>10 DEF Granted, TransmitterShape
<1>12. live = OnFirstFrame(rx, f)
  BY Zenon DEF OnFrame
<1>13. CASE f.size > BufferSize
  <2>1. live = Finished("Refused")
    BY <1>12, <1>13, Zenon DEF OnFirstFrame
  <2>2. live.pending = NotAssembling /\ live.outcome = "Refused"
    BY <2>1 DEF Finished
  <2>3. rx' = NotAssembling /\ delivered' = delivered
    BY <1>3, <2>2
  <2>4. PICK waits \in Nat : toSender' = Answers("Refused", waits)
    BY <1>2, <2>2, ReceiveEffects
  <2>5. \A i \in 1 .. Len(toSender') : toSender'[i].status # "Continue"
    BY <2>4, AnswersOfOutcomes
  <2>6. ~GoAhead' /\ FlowShape'
    BY <1>10, <1>11, <2>5 DEF GoAhead, FlowShape
  <2>7. 0 + 1 .. Len(toReceiver') = {} /\ 1 .. 0 = {}
    BY <1>10
  <2>8. RunShape(c, 0)' /\ OpeningShape(c, 0)' /\ ServiceShape(c, 0)'
    <3>1. c \in 0 .. Len(submitted') /\ 0 \in 0 .. Len(toReceiver')
      BY <1>1, <1>3, <1>10
    <3>2. RunShape(c, 0)'
      BY <2>7, <3>1 DEF RunShape
    <3>3. OpeningShape(c, 0)'
      BY <2>7 DEF OpeningShape
    <3>4. ServiceShape(c, 0)'
      BY <1>3, <1>8, <2>6 DEF ServiceShape
    <3>5. QED
      BY <3>2, <3>3, <3>4
  <2>9. ~rx'.assembling
    BY <2>3 DEF NotAssembling
  <2>10. delivered # <<>> => delivered[1][1] \in 1 .. Len(submitted)
    BY <1>1 DEF Shape, DeliveredShape
  <2>11. Shape(c, 0)'
    BY <1>3, <2>3, <2>7, <2>8, <2>9, <2>10, GivingUpKeepsShape
  <2>12. DeliversWhole
    BY <2>3 DEF DeliversWhole
  <2>13. c \in 0 .. Len(submitted') /\ 0 \in 0 .. Len(toReceiver')
    BY <2>8 DEF RunShape
  <2>14. QED
    BY <1>11, <2>6, <2>11, <2>12, <2>13 DEF DeliveryInv
<1>14. CASE ~(f.size > BufferSize)
  <2>1. live = Owing(Started(f))
    BY <1>12, <1>14, Zenon DEF OnFirstFrame
  <2>2. live.pending = Started(f) /\ live.outcome = "SendFlowControl"
    BY <2>1 DEF Owing
  <2>3. rx' = Started(f) /\ delivered' = delivered
    BY <1>3, <2>2
  <2>4. PICK waits \in Nat : toSender' = Answers("SendFlowControl", waits)
    BY <1>2, <2>2, ReceiveEffects
  <2>5. \A i \in 1 .. Len(toSender') : toSender'[i].status = "Continue" =>
          i = Len(toSender') /\ toSender'[i].block = BlockSize
    BY <2>4, AnswersOfOutcomes
  <2>6. FlowShape'
    BY <1>10, <1>11, <2>5 DEF FlowShape
  <2>7. 0 + 1 .. Len(toReceiver') = {} /\ 1 .. 0 = {}
    BY <1>10
  <2>8. /\ rx'.buffer = <<f.part>> /\ rx'.remaining = f.size
        /\ rx'.left = BlockAllowance /\ rx'.assembling
    BY <2>3 DEF Started
  <2>9. Len(rx'.buffer) = 1 /\ rx'.buffer[1] = <<id, 0>> /\ Receiving' = id
    BY <1>9, <2>8 DEF Receiving
  <2>10. id \in 1 .. Len(submitted') /\ SentOf(id)' = 0 /\ tx'.id = id
         /\ tx'.state = "AwaitingFlowControl"
    BY <1>1, <1>3, <1>4, <1>8 DEF SentOf
  <2>11. 0 \in 0 .. Len(toReceiver') /\ id \in 0 .. Len(submitted')
    BY <1>10, <2>10
  <2> HIDE DEF f, live
  <2>12. RunShape(id, 0)'
    BY <2>7, <2>11 DEF RunShape
  <2>13. OpeningShape(id, 0)' /\ ServiceShape(id, 0)'
    BY <2>7, <2>10 DEF OpeningShape, ServiceShape
  <2>14. ProgressShape(id, 0)'
    <3>1. f.size = submitted'[id] /\ f.size \in Nat
      BY <1>3, <1>8, <1>9, IsoTpAssumption
    <3>2. Len(rx'.buffer) + rx'.remaining = submitted'[id] + 1
      BY <2>8, <2>9, <3>1
    <3>3. IF BlockSize = 0 THEN rx'.left = NoLimit ELSE rx'.left > 0
      BY <1>4, <2>8 DEF BlockAllowance
    <3>4. QED
      BY <2>7, <2>9, <2>10, <3>2, <3>3 DEF ProgressShape
  <2>15. PartsShape(id, 0)'
    <3>1. BlockSize > 0 => rx'.left = BlockSize
      BY <1>4, <2>8 DEF BlockAllowance
    <3>2. \A i \in 1 .. Len(rx'.buffer) : rx'.buffer[i] = <<id, i - 1>>
      BY <2>9
    <3>3. QED
      BY <1>4, <1>11, <2>9, <2>10, <3>1, <3>2 DEF PartsShape
  <2>16. DeliveredShape(0)'
    <3>1. delivered # <<>> => delivered[1][1] \in 1 .. Len(submitted) /\ delivered[1][1] < id
      BY <1>1, <1>4, <1>5, <1>7 DEF Shape, DeliveredShape, f
    <3>2. QED
      BY <1>3, <2>3, <2>7, <2>9, <3>1 DEF DeliveredShape
  <2>17. Shape(id, 0)'
    BY <2>12, <2>13, <2>14, <2>15, <2>16 DEF Shape
  <2>18. DeliversWhole
    BY <2>3 DEF DeliversWhole
  <2>19. QED
    BY <1>11, <2>6, <2>11, <2>17, <2>18 DEF DeliveryInv
<1>15. QED
  BY <1>13, <1>14

\* The message in progress with one part more, field by field.
LEMMA OnePartMore ==
  ASSUME LinkInv, rx.assembling, NEW f \in Frame
  PROVE  LET x == Extended(rx, f)
         IN  /\ x.assembling /\ x.buffer = Append(rx.buffer, f.part)
             /\ x.remaining = rx.remaining - 1 /\ x.left = NextAllowance(rx.left)
             /\ Len(x.buffer) = Len(rx.buffer) + 1
             /\ x.buffer[Len(rx.buffer) + 1] = f.part
             /\ \A i \in 1 .. Len(rx.buffer) : x.buffer[i] = rx.buffer[i]
<1>1. rx \in Assembling /\ rx.buffer \in Seq(Part) /\ Len(rx.buffer) \in Nat
  BY ReceiverTypes
<1>2. /\ Extended(rx, f).assembling = TRUE
      /\ Extended(rx, f).buffer = Append(rx.buffer, f.part)
      /\ Extended(rx, f).remaining = rx.remaining - 1
      /\ Extended(rx, f).left = NextAllowance(rx.left)
  BY <1>1 DEF Extended, Assembling
<1>3. f.part \in Part
  BY DEF Frame
<1> DEFINE longer == Append(rx.buffer, f.part)
<1>4. /\ Len(longer) = Len(rx.buffer) + 1 /\ longer[Len(rx.buffer) + 1] = f.part
      /\ \A i \in 1 .. Len(rx.buffer) : longer[i] = rx.buffer[i]
  BY <1>1, <1>3
<1>5. QED
  BY <1>2, <1>4

\* The part at the head of the queue goes behind those in the buffer.
LEMMA PartsGoOn ==
  ASSUME DeliveryInv, rx.assembling, NEW c, NEW q, Shape(c, q), q > 0,
         toReceiver # <<>>
  PROVE  LET f == toReceiver[1]
             x == Extended(rx, f)
         IN  /\ Receiving = c /\ c \in 1 .. Len(submitted)
             /\ SentOf(c) \in Nat /\ Len(rx.buffer) \in Nat /\ q \in Nat
             /\ x.buffer[1][1] = c /\ Len(x.buffer) = Len(rx.buffer) + 1
             /\ Len(rx.buffer) - 1 <= SentOf(c) - q
             /\ Len(rx.buffer) - 1 = SentOf(c) - q =>
                  \A i \in 1 .. Len(x.buffer) : x.buffer[i] = <<c, i - 1>>
             /\ Len(rx.buffer) + rx.remaining = submitted[c] + 1
<1> DEFINE f == toReceiver[1]
           x == Extended(rx, f)
<1>1. LinkInv
  BY DEF DeliveryInv
<1>2. /\ Receiving = c /\ c \in 1 .. Len(submitted) /\ Len(rx.buffer) > 0
      /\ Len(rx.buffer) + rx.remaining = submitted[c] + 1
  BY DEF Shape, ProgressShape
<1>3. SentOf(c) \in Nat /\ Len(rx.buffer) \in Nat /\ q \in Nat /\ f \in Frame
  <2>1. toReceiver \in Seq(Frame) /\ Len(toReceiver) \in Nat
    BY <1>1, LinkTypes
  <2>2. q \in 0 .. Len(toReceiver)
    BY DEF Shape, RunShape
  <2>3. QED
    BY <1>1, <1>2, <2>1, <2>2, SentOfType, ReceiverTypes
<1>4. /\ Len(x.buffer) = Len(rx.buffer) + 1 /\ x.buffer[Len(rx.buffer) + 1] = f.part
      /\ \A i \in 1 .. Len(rx.buffer) : x.buffer[i] = rx.buffer[i]
  BY <1>1, <1>3, OnePartMore
<1>5. f.part = <<c, SentOf(c) - q + 1>>
  <2>1. 1 \in 1 .. q
    BY <1>3
  <2>2. QED
    BY <2>1 DEF Shape, RunShape
<1>6. /\ Len(rx.buffer) - 1 <= SentOf(c) - q
      /\ Len(rx.buffer) - 1 = SentOf(c) - q =>
           \A i \in 1 .. Len(rx.buffer) : rx.buffer[i] = <<c, i - 1>>
  BY <1>2 DEF Shape, PartsShape
<1>7. x.buffer[1][1] = c
  <2>1. 1 \in 1 .. Len(rx.buffer)
    BY <1>2, <1>3
  <2>2. QED
    BY <1>2, <1>4, <2>1 DEF Receiving
<1> HIDE DEF x
<1>8. ASSUME Len(rx.buffer) - 1 = SentOf(c) - q, NEW i \in 1 .. Len(x.buffer)
      PROVE  x.buffer[i] = <<c, i - 1>>
  <2>1. CASE i = Len(rx.buffer) + 1
    <3>1. SentOf(c) - q + 1 = i - 1
      BY <1>3, <1>8, <2>1
    <3>2. QED
      BY <1>4, <1>5, <2>1, <3>1
  <2>2. CASE i # Len(rx.buffer) + 1
    <3>1. i \in 1 .. Len(rx.buffer)
      BY <1>3, <1>4, <2>2
    <3>2. QED
      BY <1>4, <1>6, <1>8, <3>1
  <2>3. QED
    BY <2>1, <2>2
<1>9. QED
  BY <1>2, <1>3, <1>4, <1>6, <1>7, <1>8 DEF x

\* Nothing is counted as sent that the message does not have.
LEMMA SentIsPartOfTheMessage ==
  ASSUME DeliveryInv, toReceiver # <<>>, NEW c \in 1 .. Len(submitted)
  PROVE  /\ SentOf(c) <= submitted[c]
         /\ SentOf(c) < submitted[c] => c = tx.id /\ tx.state \in InTransfer
<1>1. LinkInv /\ TransmitterShape
  BY DEF DeliveryInv
<1>2. submitted[c] \in Nat /\ tx.sent \in Nat /\ tx.size \in Nat
        /\ tx.state \in {"Complete"} \cup InTransfer
  BY <1>1, LinkTypes DEF TransmitterShape, TransmitState
<1>3. CASE c # tx.id
  BY <1>2, <1>3 DEF SentOf
<1>4. CASE c = tx.id
  <2>1. tx.size = submitted[c] /\ SentOf(c) = tx.sent
    BY <1>1, <1>2, <1>4 DEF TransmitterShape, SentOf, InTransfer
  <2>2. tx.state \in InTransfer => tx.sent < tx.size
    BY <1>1 DEF LinkInv, TransmitterInv
  <2>3. tx.state \notin InTransfer => tx.sent = tx.size
    BY <1>1, <1>2 DEF TransmitterShape
  <2>4. QED
    BY <1>2, <1>4, <2>1, <2>2, <2>3
<1>5. QED
  BY <1>3, <1>4

\* A consecutive frame comes from the run at the head of the queue.
LEMMA ReceiveOfTheRun ==
  ASSUME DeliveryInv, Receive, toReceiver[1].kind = "Consecutive",
         NEW c \in 0 .. Len(submitted), NEW q \in 0 .. Len(toReceiver), Shape(c, q)
  PROVE  /\ q > 0 /\ AfterHead(q) = q - 1
         /\ RunShape(c, q - 1)' /\ OpeningShape(c, q - 1)'
         /\ q - 1 \in 0 .. Len(toReceiver')
         /\ tx.state = "SendingBlock" => q - 1 = Len(toReceiver')
         /\ SentOf(c)' = SentOf(c)
         /\ \A i \in q .. Len(toReceiver') :
              i + 1 \in q + 1 .. Len(toReceiver) /\ toReceiver'[i] = toReceiver[i + 1]
<1>1. /\ LinkInv /\ toReceiver # <<>> /\ toReceiver' = Tail(toReceiver)
      /\ UNCHANGED <<tx, submitted>>
  BY DEF DeliveryInv, Receive
<1>2. Len(toReceiver) \in Nat \ {0}
  BY <1>1, LinkTypes
<1>3. q > 0
  <2>1. q = 0 => toReceiver[1].kind \in {"Single", "First"}
    <3>1. q = 0 => 1 \in q + 1 .. Len(toReceiver)
      BY <1>2
    <3>2. QED
      BY <3>1 DEF Shape, OpeningShape, Opens
  <2>2. QED
    BY <2>1
<1>4. AfterHead(q) = q - 1 /\ (q - 1) + 1 = q
  BY <1>3 DEF AfterHead
<1>5. /\ RunShape(c, AfterHead(q))' /\ OpeningShape(c, AfterHead(q))'
      /\ AfterHead(q) \in 0 .. Len(toReceiver')
      /\ tx.state = "SendingBlock" => AfterHead(q) = Len(toReceiver')
      /\ SentOf(c)' = SentOf(c)
      /\ \A i \in AfterHead(q) + 1 .. Len(toReceiver') :
           i + 1 \in q + 1 .. Len(toReceiver) /\ toReceiver'[i] = toReceiver[i + 1]
  BY <1>1, QueueTail DEF Shape
<1>6. QED
  BY <1>3, <1>4, <1>5

\* A consecutive frame that is not wanted, or not the one that is due, leaves
\* the receiver without a message.
LEMMA ReceiveUnwanted ==
  ASSUME DeliveryInv, Receive, toReceiver[1].kind = "Consecutive",
         ~rx.assembling \/ toReceiver[1].sn # rx.next
  PROVE  DeliversWhole /\ (LinkInv' => DeliveryInv')
<1>1. PICK c \in 0 .. Len(submitted), q \in 0 .. Len(toReceiver) : Shape(c, q)
  BY DEF DeliveryInv
<1> DEFINE f == toReceiver[1]
           live == OnFrame(rx, f)
<1>2. LinkInv /\ TransmitterShape /\ FlowShape
  BY DEF DeliveryInv
<1>3. /\ toReceiver' = Tail(toReceiver) /\ UNCHANGED <<tx, submitted>>
      /\ toSender = <<>> /\ rx' = live.pending
      /\ delivered' = IF live.outcome = "Completed" THEN live.pdu ELSE delivered
  BY <1>2, ReceiveEffects
<1>4. live = OnConsecutiveFrame(rx, f)
  BY Zenon DEF OnFrame
<1>5. ~live.pending.assembling /\ live.outcome \in {"Nothing", "Aborted"}
  <2>1. CASE ~rx.assembling
    <3>1. live = Ignored(rx)
      BY <1>4, <2>1, Zenon DEF OnConsecutiveFrame
    <3>2. QED
      BY <2>1, <3>1 DEF Ignored
  <2>2. CASE rx.assembling /\ f.sn # rx.next
    <3>1. live = Finished("Aborted")
      BY <1>4, <2>2, Zenon DEF OnConsecutiveFrame
    <3>2. QED
      BY <3>1 DEF Finished, NotAssembling
  <2>3. QED
    BY <2>1, <2>2
<1>6. ~rx'.assembling /\ delivered' = delivered
  BY <1>3, <1>5
<1>7. toSender' = <<>>
  BY <1>2, <1>5, ReceiveEffects, AnswersOfOutcomes
<1>8. /\ q > 0 /\ RunShape(c, q - 1)' /\ OpeningShape(c, q - 1)'
      /\ q - 1 \in 0 .. Len(toReceiver')
      /\ tx.state = "SendingBlock" => q - 1 = Len(toReceiver')
      /\ (q - 1) + 1 = q
      /\ \A i \in q .. Len(toReceiver') :
           i + 1 \in q + 1 .. Len(toReceiver) /\ toReceiver'[i] = toReceiver[i + 1]
  BY <1>1, ReceiveOfTheRun
<1>9. ~GoAhead' /\ Granted' = Granted
  BY <1>3, <1>7 DEF GoAhead, Granted
<1>10. TransmitterShape' /\ FlowShape'
  BY <1>2, <1>3, <1>7 DEF TransmitterShape, FlowShape
<1>11. ServiceShape(c, q - 1)'
  BY <1>1, <1>3, <1>8, <1>9 DEF Shape, ServiceShape
<1>12. delivered # <<>> =>
         /\ delivered[1][1] \in 1 .. Len(submitted)
         /\ \A i \in (q - 1) + 1 .. Len(toReceiver') : delivered[1][1] < IdOf(toReceiver'[i])
  BY <1>1, <1>8 DEF Shape, DeliveredShape
<1>13. Shape(c, q - 1)'
  BY <1>3, <1>6, <1>8, <1>11, <1>12, GivingUpKeepsShape
<1>14. DeliversWhole
  BY <1>6 DEF DeliversWhole
<1>15. c \in 0 .. Len(submitted')
  BY <1>1, <1>3
<1>16. QED
  BY <1>8, <1>10, <1>13, <1>14, <1>15 DEF DeliveryInv

\* The part that was missing last makes the message whole: the receiver has
\* counted as many as were sent, so it has every one of them.
LEMMA ReceiveLast ==
  ASSUME DeliveryInv, Receive, toReceiver[1].kind = "Consecutive",
         rx.assembling, toReceiver[1].sn = rx.next, rx.remaining = 1
  PROVE  DeliversWhole /\ (LinkInv' => DeliveryInv')
<1>1. PICK c \in 0 .. Len(submitted), q \in 0 .. Len(toReceiver) : Shape(c, q)
  BY DEF DeliveryInv
<1> DEFINE f == toReceiver[1]
           live == OnFrame(rx, f)
           x == Extended(rx, f)
<1>2. LinkInv /\ TransmitterShape /\ FlowShape
  BY DEF DeliveryInv
<1>3. /\ toReceiver # <<>> /\ toReceiver' = Tail(toReceiver) /\ UNCHANGED <<tx, submitted>>
      /\ toSender = <<>> /\ f \in Frame /\ rx' = live.pending
      /\ delivered' = IF live.outcome = "Completed" THEN live.pdu ELSE delivered
  BY <1>2, ReceiveEffects
<1>4. x.remaining = 0 /\ x.buffer = Append(rx.buffer, f.part)
  BY <1>2, <1>3, OnePartMore
<1>5. live = Completed(x.buffer)
  <2>1. live = OnConsecutiveFrame(rx, f)
    BY Zenon DEF OnFrame
  <2>2. live = TakeNext(rx, f)
    BY <2>1, Zenon DEF OnConsecutiveFrame
  <2>3. QED
    BY <1>4, <2>2, Zenon DEF TakeNext
<1>6. live.pending = NotAssembling /\ live.outcome = "Completed" /\ live.pdu = x.buffer
  BY <1>5 DEF Completed
<1>7. rx' = NotAssembling /\ delivered' = x.buffer /\ ~rx'.assembling
  BY <1>3, <1>6 DEF NotAssembling
<1>8. toSender' = <<>>
  BY <1>2, <1>6, ReceiveEffects, AnswersOfOutcomes
<1>9. /\ q > 0 /\ RunShape(c, q - 1)' /\ OpeningShape(c, q - 1)'
      /\ q - 1 \in 0 .. Len(toReceiver')
      /\ tx.state = "SendingBlock" => q - 1 = Len(toReceiver')
      /\ (q - 1) + 1 = q
      /\ \A i \in q .. Len(toReceiver') :
           i + 1 \in q + 1 .. Len(toReceiver) /\ toReceiver'[i] = toReceiver[i + 1]
  BY <1>1, ReceiveOfTheRun
<1>10. /\ Receiving = c /\ c \in 1 .. Len(submitted)
       /\ SentOf(c) \in Nat /\ Len(rx.buffer) \in Nat /\ q \in Nat
       /\ x.buffer[1][1] = c /\ Len(x.buffer) = Len(rx.buffer) + 1
       /\ Len(rx.buffer) - 1 <= SentOf(c) - q
       /\ Len(rx.buffer) - 1 = SentOf(c) - q =>
            \A i \in 1 .. Len(x.buffer) : x.buffer[i] = <<c, i - 1>>
       /\ Len(rx.buffer) + rx.remaining = submitted[c] + 1
  BY <1>1, <1>3, <1>9, PartsGoOn
<1>11. Len(rx.buffer) - 1 = SentOf(c) - q /\ Len(x.buffer) = submitted[c] + 1
         /\ submitted[c] \in Nat
  <2>1. SentOf(c) <= submitted[c] /\ submitted[c] \in Nat
    BY <1>2, <1>3, <1>10, SentIsPartOfTheMessage, LinkTypes
  <2> DEFINE held == Len(rx.buffer)
             sent == SentOf(c)
             size == submitted[c]
             longer == Len(x.buffer)
  <2>2. /\ held \in Nat /\ sent \in Nat /\ size \in Nat /\ q \in Nat /\ q > 0
        /\ held - 1 <= sent - q /\ sent <= size /\ longer = held + 1
        /\ held + rx.remaining = size + 1
    BY <1>9, <1>10, <2>1
  <2> HIDE DEF held, sent, size, longer
  <2>3. held = size
    BY <2>2
  <2>4. held - 1 = sent - q /\ longer = size + 1 /\ size \in Nat
    BY <2>2, <2>3
  <2>5. QED
    BY <2>4, Zenon DEF held, sent, size, longer
<1>12. DeliversWhole
  <2>1. x.buffer \in Seq(Part)
    <3>1. rx.buffer \in Seq(Part) /\ f.part \in Part
      BY <1>2, <1>3, ReceiverTypes DEF Frame
    <3>2. QED
      BY <1>4, <3>1
  <2>2. \A i \in 1 .. Len(x.buffer) : x.buffer[i] = <<c, i - 1>>
    BY <1>10, <1>11
  <2> DEFINE buffer == x.buffer
             size == submitted[c] + 1
  <2>3. x.buffer = [i \in 1 .. submitted[c] + 1 |-> <<c, i - 1>>]
    <3>1. buffer \in Seq(Part) /\ Len(buffer) = size
            /\ \A i \in 1 .. Len(buffer) : buffer[i] = <<c, i - 1>>
      BY <1>11, <2>1, <2>2
    <3> HIDE DEF buffer, size
    <3>2. buffer = [i \in 1 .. Len(buffer) |-> buffer[i]]
      BY <3>1
    <3>3. buffer = [i \in 1 .. size |-> <<c, i - 1>>]
      BY <3>1, <3>2
    <3>4. QED
      BY <3>3 DEF buffer, size
  <2>4. c \in Last + 1 .. Len(submitted)
    <3>1. delivered # <<>> => delivered[1][1] \in 1 .. Len(submitted) /\ delivered[1][1] < c
      BY <1>1, <1>10 DEF Shape, DeliveredShape
    <3>2. QED
      BY <1>10, <3>1 DEF Last
  <2>5. delivered' = [i \in 1 .. submitted[c] + 1 |-> <<c, i - 1>>]
    BY <1>7, <2>3
  <2>6. QED
    BY <2>4, <2>5, Zenon DEF DeliversWhole
<1>13. ~GoAhead' /\ Granted' = Granted
  BY <1>3, <1>8 DEF GoAhead, Granted
<1>14. TransmitterShape' /\ FlowShape'
  BY <1>2, <1>3, <1>8 DEF TransmitterShape, FlowShape
<1>15. ServiceShape(c, q - 1)'
  BY <1>1, <1>3, <1>9, <1>13 DEF Shape, ServiceShape
<1>16. DeliveredShape(q - 1)'
  <2>1. \A i \in q .. Len(toReceiver') : c < IdOf(toReceiver'[i])
    BY <1>1, <1>9, <1>10 DEF Shape, ProgressShape
  <2>2. delivered'[1][1] = c /\ c \in 1 .. Len(submitted')
    BY <1>3, <1>7, <1>10
  <2>3. QED
    BY <1>7, <1>9, <2>1, <2>2 DEF DeliveredShape
<1>17. Shape(c, q - 1)'
  BY <1>7, <1>9, <1>15, <1>16 DEF Shape, ProgressShape, PartsShape
<1>18. c \in 0 .. Len(submitted')
  BY <1>1, <1>3
<1>19. QED
  BY <1>9, <1>12, <1>14, <1>17, <1>18 DEF DeliveryInv

\* What one part more leaves of the shape, whatever the receiver answers.
LEMMA ShapeWithOnePartMore ==
  ASSUME DeliveryInv, Receive, toReceiver[1].kind = "Consecutive", rx.assembling,
         NEW c \in 0 .. Len(submitted), NEW q \in 0 .. Len(toReceiver), Shape(c, q),
         rx' = Extended(rx, toReceiver[1]), delivered' = delivered,
         ServiceShape(c, q - 1)',
         IF BlockSize = 0 THEN rx'.left = NoLimit ELSE rx'.left > 0,
         BlockSize > 0 => SentOf(c) + Granted' <= Len(rx.buffer) + rx'.left,
         BlockSize > 0 /\ GoAhead' => SentOf(c) + BlockSize <= Len(rx.buffer) + rx'.left
  PROVE  Shape(c, q - 1)'
<1> DEFINE f == toReceiver[1]
           x == Extended(rx, f)
           p == q - 1
<1>1. LinkInv /\ FlowShape
  BY DEF DeliveryInv
<1>2. toReceiver # <<>> /\ UNCHANGED <<tx, submitted>> /\ f \in Frame
  BY <1>1, ReceiveEffects
<1>3. /\ q > 0 /\ RunShape(c, p)' /\ OpeningShape(c, p)' /\ p + 1 = q
      /\ SentOf(c)' = SentOf(c)
      /\ \A i \in q .. Len(toReceiver') :
           i + 1 \in q + 1 .. Len(toReceiver) /\ toReceiver'[i] = toReceiver[i + 1]
  BY ReceiveOfTheRun
<1>4. /\ Receiving = c /\ c \in 1 .. Len(submitted)
      /\ SentOf(c) \in Nat /\ Len(rx.buffer) \in Nat /\ q \in Nat
      /\ x.buffer[1][1] = c /\ Len(x.buffer) = Len(rx.buffer) + 1
      /\ Len(rx.buffer) - 1 <= SentOf(c) - q
      /\ Len(rx.buffer) - 1 = SentOf(c) - q =>
           \A i \in 1 .. Len(x.buffer) : x.buffer[i] = <<c, i - 1>>
      /\ Len(rx.buffer) + rx.remaining = submitted[c] + 1
  BY <1>2, <1>3, PartsGoOn
<1>5. x.remaining = rx.remaining - 1 /\ rx.remaining \in Nat
  BY <1>1, <1>2, OnePartMore, ReceiverTypes
<1>6. /\ rx'.buffer = x.buffer /\ rx'.remaining = x.remaining /\ Receiving' = c
      /\ rx'.assembling
  <2>1. x.assembling
    BY <1>1, <1>2, OnePartMore
  <2>2. QED
    BY <1>4, <2>1 DEF Receiving
<1>7. \A i \in p + 1 .. Len(toReceiver') :
        /\ c < IdOf(toReceiver'[i])
        /\ delivered # <<>> => delivered[1][1] < IdOf(toReceiver'[i])
  BY <1>3, <1>4 DEF Shape, ProgressShape, DeliveredShape
<1>8. delivered # <<>> => delivered[1][1] \in 1 .. Len(submitted) /\ delivered[1][1] < c
  BY <1>4 DEF Shape, DeliveredShape
<1> DEFINE held == Len(rx.buffer)
           sent == SentOf(c)
<1>9. held + 1 = Len(rx'.buffer)
  BY <1>4, <1>6
<1> HIDE DEF x, p
<1>10. ProgressShape(c, p)'
  <2>1. Len(rx'.buffer) > 0 /\ Len(rx'.buffer) + rx'.remaining = submitted'[c] + 1
    <3>1. held \in Nat /\ held + rx.remaining = submitted[c] + 1
      BY <1>4
    <3>2. submitted[c] \in Nat
      BY <1>1, <1>4, LinkTypes
    <3>3. submitted'[c] = submitted[c] /\ rx'.remaining = rx.remaining - 1
      BY <1>2, <1>5, <1>6
    <3> DEFINE size == submitted[c]
               lacking == rx.remaining
    <3>4. /\ held \in Nat /\ size \in Nat /\ lacking \in Nat
          /\ held + lacking = size + 1
      BY <1>5, <3>1, <3>2
    <3> HIDE DEF held, size, lacking
    <3>5. (held + 1) + (lacking - 1) = size + 1 /\ held + 1 > 0
      BY <3>4
    <3>6. QED
      BY <1>9, <3>3, <3>5, Zenon DEF held, size, lacking
  <2>2. c \in 1 .. Len(submitted')
    BY <1>2, <1>4
  <2>3. QED
    BY <1>6, <1>7, <2>1, <2>2 DEF ProgressShape
<1>11. PartsShape(c, p)'
  <2>1. /\ held \in Nat /\ sent \in Nat /\ sent = SentOf(c)' /\ q \in Nat /\ p = q - 1
        /\ held - 1 <= sent - q
        /\ held - 1 = sent - q => \A i \in 1 .. Len(rx'.buffer) : rx'.buffer[i] = <<c, i - 1>>
        /\ BlockSize > 0 => sent + Granted' <= held + rx'.left
        /\ BlockSize > 0 /\ GoAhead' => sent + BlockSize <= held + rx'.left
    <3>1. held \in Nat /\ sent \in Nat /\ sent = SentOf(c)' /\ q \in Nat /\ p = q - 1
      BY <1>3, <1>4, Zenon DEF p
    <3>2. /\ held - 1 <= sent - q
          /\ held - 1 = sent - q => \A i \in 1 .. Len(rx'.buffer) : rx'.buffer[i] = <<c, i - 1>>
      BY <1>4, <1>6, Zenon DEF held, sent
    <3>3. QED
      BY <3>1, <3>2, Zenon
  <2> HIDE DEF held, sent
  <2>2. /\ Len(rx'.buffer) - 1 = held
        /\ Len(rx'.buffer) - 1 <= sent - p
        /\ Len(rx'.buffer) - 1 = sent - p => held - 1 = sent - q
    <3> DEFINE longer == Len(rx'.buffer)
    <3>1. /\ held \in Nat /\ sent \in Nat /\ q \in Nat /\ p = q - 1
          /\ held - 1 <= sent - q /\ held + 1 = longer
      BY <1>9, <2>1
    <3> HIDE DEF longer
    <3>2. longer - 1 = held /\ longer - 1 <= sent - p
            /\ (longer - 1 = sent - p => held - 1 = sent - q)
      BY <3>1
    <3>3. QED
      BY <3>2, Zenon DEF longer
  <2>3. /\ Len(rx'.buffer) - 1 <= SentOf(c)' - p
        /\ Len(rx'.buffer) - 1 = SentOf(c)' - p =>
             \A i \in 1 .. Len(rx'.buffer) : rx'.buffer[i] = <<c, i - 1>>
        /\ BlockSize > 0 => SentOf(c)' + Granted' <= Len(rx'.buffer) - 1 + rx'.left
        /\ BlockSize > 0 /\ GoAhead' => SentOf(c)' + BlockSize <= Len(rx'.buffer) - 1 + rx'.left
    BY <2>1, <2>2, Zenon
  <2>4. p' = p
    BY DEF p
  <2>5. QED
    BY <1>6, <2>3, <2>4, Zenon DEF PartsShape
<1>12. DeliveredShape(p)'
  BY <1>2, <1>6, <1>7, <1>8 DEF DeliveredShape, p
<1>13. QED
  BY <1>3, <1>10, <1>11, <1>12 DEF Shape, p

\* A part that is due, with more to come within the block.
LEMMA ReceiveWithinABlock ==
  ASSUME DeliveryInv, Receive, toReceiver[1].kind = "Consecutive",
         rx.assembling, toReceiver[1].sn = rx.next, rx.remaining # 1,
         rx.left \notin 0 .. 1
  PROVE  DeliversWhole /\ (LinkInv' => DeliveryInv')
<1>1. PICK c \in 0 .. Len(submitted), q \in 0 .. Len(toReceiver) : Shape(c, q)
  BY DEF DeliveryInv
<1> DEFINE f == toReceiver[1]
           live == OnFrame(rx, f)
           x == Extended(rx, f)
<1>2. LinkInv /\ TransmitterShape /\ FlowShape
  BY DEF DeliveryInv
<1>3. /\ toReceiver # <<>> /\ toReceiver' = Tail(toReceiver) /\ UNCHANGED <<tx, submitted>>
      /\ toSender = <<>> /\ f \in Frame /\ rx' = live.pending
      /\ delivered' = IF live.outcome = "Completed" THEN live.pdu ELSE delivered
  BY <1>2, ReceiveEffects
<1>4. rx.remaining \in Nat /\ rx.left \in Nat \cup {NoLimit} /\ Len(rx.buffer) \in Nat
  BY <1>2, ReceiverTypes
<1>5. x.remaining # 0 /\ x.left = NextAllowance(rx.left)
  <2>1. x.remaining = rx.remaining - 1 /\ x.left = NextAllowance(rx.left)
    BY <1>2, <1>3, OnePartMore
  <2>2. QED
    BY <1>4, <2>1
<1>6. live = Ignored(x)
  <2>1. live = OnConsecutiveFrame(rx, f)
    BY Zenon DEF OnFrame
  <2>2. live = TakeNext(rx, f)
    BY <2>1, Zenon DEF OnConsecutiveFrame
  <2>3. QED
    BY <1>5, <2>2, Zenon DEF TakeNext
<1>7. rx' = x /\ live.outcome = "Nothing" /\ delivered' = delivered
  BY <1>3, <1>6 DEF Ignored
<1>8. toSender' = <<>>
  BY <1>2, <1>7, ReceiveEffects, AnswersOfOutcomes
<1>9. ~GoAhead' /\ Granted' = Granted
  BY <1>3, <1>8 DEF GoAhead, Granted
<1>10. TransmitterShape' /\ FlowShape'
  BY <1>2, <1>3, <1>8 DEF TransmitterShape, FlowShape
<1>11. q > 0 /\ q - 1 \in 0 .. Len(toReceiver')
         /\ (tx.state = "SendingBlock" => q - 1 = Len(toReceiver'))
  BY <1>1, ReceiveOfTheRun
<1>12. ServiceShape(c, q - 1)'
  BY <1>1, <1>3, <1>9, <1>11 DEF Shape, ServiceShape
<1>13. Receiving = c /\ SentOf(c) \in Nat
  BY <1>1, <1>3, <1>11, PartsGoOn
<1>14. /\ IF BlockSize = 0 THEN rx.left = NoLimit ELSE rx.left > 0
       /\ BlockSize > 0 => SentOf(c) + Granted <= Len(rx.buffer) - 1 + rx.left
  BY <1>1, <1>13 DEF Shape, ProgressShape, PartsShape
<1>15. /\ BlockSize = 0 => rx'.left = NoLimit
       /\ BlockSize > 0 => rx'.left = rx.left - 1 /\ rx.left \in Nat
  <2>1. CASE rx.left = NoLimit
    <3>1. rx'.left = NoLimit
      BY <1>5, <1>7, <2>1, Zenon DEF NextAllowance
    <3>2. ~(NoLimit > 0)
      BY DEF NoLimit
    <3>3. ~(BlockSize > 0)
      BY <1>14, <2>1, <3>2
    <3>4. QED
      BY <3>1, <3>3
  <2>2. CASE rx.left # NoLimit
    <3>1. rx'.left = rx.left - 1
      BY <1>5, <1>7, <2>2, Zenon DEF NextAllowance
    <3>2. QED
      BY <1>4, <1>14, <2>2, <3>1
  <2>3. QED
    BY <2>1, <2>2
<1>16. BlockSize > 0 => rx.left \in Nat /\ rx.left > 1 /\ rx'.left > 0
  BY <1>15
<1>17. BlockSize \in Nat
  BY IsoTpAssumption
<1>18. IF BlockSize = 0 THEN rx'.left = NoLimit ELSE rx'.left > 0
  BY <1>15, <1>16, <1>17
<1>19. BlockSize > 0 => SentOf(c) + Granted' <= Len(rx.buffer) + rx'.left
  <2> SUFFICES ASSUME BlockSize > 0 PROVE SentOf(c) + Granted' <= Len(rx.buffer) + rx'.left
    OBVIOUS
  <2> DEFINE held == Len(rx.buffer)
             left == rx.left
  <2>1. held \in Nat /\ left \in Nat /\ rx'.left = left - 1
    BY <1>4, <1>15
  <2>2. SentOf(c) + Granted <= held - 1 + left
    BY <1>14
  <2> HIDE DEF held, left
  <2>3. held - 1 + left = held + (left - 1)
    BY <2>1
  <2>4. SentOf(c) + Granted <= held + rx'.left
    BY <2>1, <2>2, <2>3, Zenon
  <2>5. QED
    BY <1>9, <2>4, Zenon DEF held
<1>20. Shape(c, q - 1)'
  BY <1>1, <1>7, <1>9, <1>12, <1>18, <1>19, ShapeWithOnePartMore
<1>21. DeliversWhole
  BY <1>7 DEF DeliversWhole
<1>22. c \in 0 .. Len(submitted')
  BY <1>1, <1>3
<1>23. QED
  BY <1>10, <1>11, <1>20, <1>21, <1>22 DEF DeliveryInv

\* The part that uses a block up: the transmitter has sent all it was granted
\* and waits, nothing is under way, and the receiver asks for the next block.
LEMMA ReceiveEndOfBlock ==
  ASSUME DeliveryInv, Receive, toReceiver[1].kind = "Consecutive",
         rx.assembling, toReceiver[1].sn = rx.next, rx.remaining # 1,
         rx.left \in 0 .. 1
  PROVE  DeliversWhole /\ (LinkInv' => DeliveryInv')
<1>1. PICK c \in 0 .. Len(submitted), q \in 0 .. Len(toReceiver) : Shape(c, q)
  BY DEF DeliveryInv
<1> DEFINE f == toReceiver[1]
           live == OnFrame(rx, f)
           x == Extended(rx, f)
<1>2. LinkInv /\ TransmitterShape /\ FlowShape
  BY DEF DeliveryInv
<1>3. /\ toReceiver # <<>> /\ toReceiver' = Tail(toReceiver) /\ UNCHANGED <<tx, submitted>>
      /\ toSender = <<>> /\ f \in Frame /\ rx' = live.pending
      /\ delivered' = IF live.outcome = "Completed" THEN live.pdu ELSE delivered
  BY <1>2, ReceiveEffects
<1>4. /\ rx.remaining \in Nat /\ rx.remaining > 0 /\ Len(rx.buffer) \in Nat
      /\ BlockSize \in Nat
  BY <1>2, ReceiverTypes, LinkTypes
<1>5. x.remaining # 0 /\ x.left = NextAllowance(rx.left)
  <2>1. x.remaining = rx.remaining - 1 /\ x.left = NextAllowance(rx.left)
    BY <1>2, <1>3, OnePartMore
  <2>2. QED
    BY <1>4, <2>1
<1>6. live = Owing(x)
  <2>1. live = OnConsecutiveFrame(rx, f)
    BY Zenon DEF OnFrame
  <2>2. live = TakeNext(rx, f)
    BY <2>1, Zenon DEF OnConsecutiveFrame
  <2>3. QED
    BY <1>5, <2>2, Zenon DEF TakeNext
<1>7. rx' = x /\ live.outcome = "SendFlowControl" /\ delivered' = delivered
  BY <1>3, <1>6 DEF Owing
<1>8. PICK waits \in Nat : toSender' = Answers("SendFlowControl", waits)
  BY <1>2, <1>7, ReceiveEffects
<1>9. \A i \in 1 .. Len(toSender') : toSender'[i].status = "Continue" =>
        i = Len(toSender') /\ toSender'[i].block = BlockSize
  BY <1>8, AnswersOfOutcomes
<1>10. /\ q > 0 /\ q \in Nat /\ q - 1 \in 0 .. Len(toReceiver')
       /\ (tx.state = "SendingBlock" => q - 1 = Len(toReceiver'))
       /\ (q - 1) + 1 = q
       /\ \A i \in q .. Len(toReceiver') :
            i + 1 \in q + 1 .. Len(toReceiver) /\ toReceiver'[i] = toReceiver[i + 1]
  <2>1. Len(toReceiver) \in Nat
    BY <1>2, LinkTypes
  <2>2. QED
    BY <1>1, <2>1, ReceiveOfTheRun
<1>11. /\ Receiving = c /\ SentOf(c) \in Nat /\ c \in 1 .. Len(submitted)
       /\ Len(rx.buffer) - 1 <= SentOf(c) - q
       /\ Len(rx.buffer) + rx.remaining = submitted[c] + 1
  BY <1>1, <1>3, <1>10, PartsGoOn
<1>12. rx.left = 1 /\ BlockSize > 0
  <2>1. IF BlockSize = 0 THEN rx.left = NoLimit ELSE rx.left > 0
    BY <1>1, <1>11 DEF Shape, ProgressShape
  <2>2. QED
    BY <1>4, <2>1 DEF NoLimit
<1>13. Granted \in Nat
  <2>1. tx.state = "SendingBlock" => tx.left \in Nat
    BY <1>2, <1>12 DEF TransmitterShape
  <2>2. QED
    BY <2>1 DEF Granted
<1>14. SentOf(c) + Granted <= Len(rx.buffer) - 1 + rx.left
  BY <1>1, <1>11, <1>12 DEF Shape, PartsShape
<1>15. q = 1 /\ Granted = 0 /\ Len(rx.buffer) = SentOf(c) /\ SentOf(c) < submitted[c]
  <2> DEFINE held == Len(rx.buffer)
             sent == SentOf(c)
             size == submitted[c]
             lacking == rx.remaining
             granted == Granted
  <2>1. size \in Nat
    BY <1>2, <1>11, LinkTypes
  <2>2. /\ held \in Nat /\ sent \in Nat /\ lacking \in Nat /\ granted \in Nat
        /\ held - 1 <= sent - q /\ held + lacking = size + 1
        /\ sent + granted <= held - 1 + 1 /\ lacking > 0 /\ lacking # 1
    BY <1>4, <1>11, <1>12, <1>13, <1>14
  <2> HIDE DEF held, sent, size, lacking, granted
  <2>3. q = 1 /\ granted = 0 /\ held = sent /\ sent < size
    BY <1>10, <2>1, <2>2
  <2>4. QED
    BY <2>3, Zenon DEF held, sent, size, granted
<1>16. c = tx.id /\ tx.state \in InTransfer
  BY <1>3, <1>11, <1>15, SentIsPartOfTheMessage
\* No later message was handed over, so nothing is behind the frame.
<1>17. toReceiver' = <<>> /\ Len(toReceiver') = 0
  <2>1. tx.id = Len(submitted)
    BY <1>2, <1>16 DEF TransmitterShape, InTransfer
  <2>2. Len(toReceiver') \in Nat /\ toReceiver' \in Seq(Frame)
    <3>1. toReceiver \in Seq(Frame)
      BY <1>2, LinkTypes
    <3>2. QED
      BY <1>3, <3>1
  <2>3. Len(toReceiver') = 0
    <3> SUFFICES ASSUME Len(toReceiver') # 0 PROVE FALSE
      OBVIOUS
    <3>1. 1 \in q .. Len(toReceiver')
      BY <1>15, <2>2
    <3>2. 1 + 1 \in q + 1 .. Len(toReceiver)
      BY <1>10, <3>1
    <3>3. IdOf(toReceiver[1 + 1]) \in c + 1 .. Len(submitted)
      BY <1>1, <3>2 DEF Shape, OpeningShape, Opens
    <3>4. Len(submitted) \in Nat
      BY <1>2, LinkTypes
    <3>5. QED
      BY <1>16, <2>1, <3>3, <3>4
  <2>4. QED
    BY <2>2, <2>3
<1>18. Granted' = 0
  BY <1>3, <1>15 DEF Granted
<1>19. TransmitterShape' /\ FlowShape'
  BY <1>2, <1>3, <1>9, <1>17, <1>18 DEF TransmitterShape, FlowShape
<1>20. ServiceShape(c, q - 1)'
  BY <1>3, <1>15, <1>16, <1>17 DEF ServiceShape
<1>21. rx'.left = BlockSize
  <2>1. 1 # NoLimit /\ 1 \in 0 .. 1
    BY DEF NoLimit
  <2>2. NextAllowance(rx.left) = BlockAllowance
    BY <1>12, <2>1, Zenon DEF NextAllowance
  <2>3. BlockAllowance = BlockSize
    BY <1>4, <1>12 DEF BlockAllowance
  <2>4. QED
    BY <1>5, <1>7, <2>2, <2>3
<1>22. /\ SentOf(c) + Granted' <= Len(rx.buffer) + rx'.left
       /\ SentOf(c) + BlockSize <= Len(rx.buffer) + rx'.left
  BY <1>4, <1>11, <1>15, <1>18, <1>21
<1>23. Shape(c, q - 1)'
  BY <1>1, <1>4, <1>7, <1>12, <1>20, <1>21, <1>22, ShapeWithOnePartMore
<1>24. DeliversWhole
  BY <1>7 DEF DeliversWhole
<1>25. c \in 0 .. Len(submitted')
  BY <1>1, <1>3
<1>26. QED
  BY <1>10, <1>19, <1>23, <1>24, <1>25 DEF DeliveryInv

\* Whatever frame is received.
LEMMA ReceiveKeepsDelivery ==
  ASSUME DeliveryInv, LinkInv', Receive
  PROVE  DeliveryInv' /\ DeliversWhole
<1>1. toReceiver[1] \in Frame
  BY ReceiveEffects DEF DeliveryInv
<1>2. toReceiver[1].kind \in {"Single", "First", "Consecutive"}
  BY <1>1 DEF Frame
<1>3. CASE toReceiver[1].kind = "Single"
  BY <1>3, ReceiveSingle
<1>4. CASE toReceiver[1].kind = "First"
  BY <1>4, ReceiveFirst
<1>5. CASE toReceiver[1].kind = "Consecutive"
  BY <1>5, ReceiveUnwanted, ReceiveLast, ReceiveWithinABlock, ReceiveEndOfBlock
<1>6. QED
  BY <1>2, <1>3, <1>4, <1>5

\* A step of the link, and what it is to the transport.
LEMMA StepsKeepDelivery ==
  ASSUME DeliveryInv, LinkInv', [Next]_linkVars
  PROVE  DeliveryInv' /\ [Transport!Next]_(Transport!vars)
<1>1. ASSUME UNCHANGED <<delivered, submitted>>
      PROVE  [Transport!Next]_(Transport!vars)
  BY <1>1 DEF Transport!vars
<1>2. CASE Submit
  <2>1. DeliveryInv'
    BY <1>2, SubmitKeepsDelivery
  <2>2. Transport!Submit
    BY <1>2 DEF Submit, Transport!Submit
  <2>3. QED
    BY <2>1, <2>2 DEF Transport!Next
<1>3. CASE Receive
  <2>1. DeliveryInv' /\ DeliversWhole
    BY <1>3, ReceiveKeepsDelivery
  <2>2. UNCHANGED submitted
    BY <1>3 DEF Receive
  <2>3. CASE delivered' = delivered
    BY <1>1, <2>1, <2>2, <2>3
  <2>4. CASE \E k \in Last + 1 .. Len(submitted) :
               delivered' = [i \in 1 .. submitted[k] + 1 |-> <<k, i - 1>>]
    <3>1. PICK k \in Last + 1 .. Len(submitted) :
            delivered' = [i \in 1 .. submitted[k] + 1 |-> <<k, i - 1>>]
      BY <2>4
    <3>2. delivered' # <<>> /\ delivered'[1][1] = k
      <4>1. Last \in Nat /\ Len(submitted) \in Nat
        <5>1. LinkInv /\ \E c \in 0 .. Len(submitted), q \in 0 .. Len(toReceiver) : Shape(c, q)
          BY DEF DeliveryInv
        <5>2. delivered # <<>> => delivered[1][1] \in 1 .. Len(submitted)
          BY <5>1 DEF Shape, DeliveredShape
        <5>3. Len(submitted) \in Nat
          BY <5>1, LinkTypes
        <5>4. QED
          BY <5>2, <5>3 DEF Last
      <4>2. submitted[k] \in Nat
        BY <3>1, <4>1, LinkTypes DEF DeliveryInv
      <4>3. 1 \in 1 .. submitted[k] + 1
        BY <4>2
      <4>4. delivered'[1] = <<k, 1 - 1>> /\ 1 \in DOMAIN delivered'
        BY <3>1, <4>3
      <4>5. QED
        BY <4>4
    <3>3. Transport!Deliver
      BY <2>2, <3>1, <3>2, Zenon DEF Transport!Deliver, Transport!Whole, Last
    <3>4. QED
      BY <2>1, <3>3 DEF Transport!Next
  <2>5. QED
    BY <2>1, <2>3, <2>4 DEF DeliversWhole
<1>4. CASE SendConsecutive
  BY <1>1, <1>4, SendConsecutiveKeepsDelivery DEF SendConsecutive
<1>5. CASE FinishBlock
  BY <1>1, <1>5, FinishBlockKeepsDelivery DEF FinishBlock
<1>6. CASE TakeFlowControl \/ FlowControlTimeout \/ LoseFlowControl \/ PeerStalls
  BY <1>1, <1>6, FlowStepsKeepDelivery
     DEF TakeFlowControl, FlowControlTimeout, LoseFlowControl, PeerStalls
<1>7. CASE LoseFrame
  BY <1>1, <1>7, LoseFrameKeepsDelivery DEF LoseFrame
<1>8. CASE StrayArrives
  BY <1>1, <1>8, StrayKeepsDelivery DEF StrayArrives
<1>9. CASE UNCHANGED linkVars
  <2>1. UNCHANGED <<tx, rx, toReceiver, toSender, submitted, delivered>>
    BY <1>9 DEF linkVars
  <2>2. PICK c \in 0 .. Len(submitted), q \in 0 .. Len(toReceiver) : Shape(c, q)
    BY DEF DeliveryInv
  <2>3. RunShape(c, q)' /\ OpeningShape(c, q)'
    BY <2>1, <2>2 DEF Shape, RunShape, OpeningShape, Opens, SentOf, IdOf
  <2>4. ServiceShape(c, q)' /\ DeliveredShape(q)'
    BY <2>1, <2>2 DEF Shape, ServiceShape, DeliveredShape, GoAhead, Receiving, IdOf
  <2>5. ProgressShape(c, q)'
    BY <2>1, <2>2 DEF Shape, ProgressShape, GoAhead, Receiving, IdOf
  <2>6. PartsShape(c, q)'
    BY <2>1, <2>2 DEF Shape, PartsShape, SentOf, Granted, GoAhead, Receiving
  <2>7. TransmitterShape' /\ FlowShape'
    BY <2>1 DEF DeliveryInv, TransmitterShape, FlowShape, Granted
  <2>8. DeliveryInv'
    BY <2>1, <2>2, <2>3, <2>4, <2>5, <2>6, <2>7 DEF DeliveryInv, Shape
  <2>9. QED
    BY <1>1, <2>1, <2>8
<1>10. QED
  BY <1>2, <1>3, <1>4, <1>5, <1>6, <1>7, <1>8, <1>9 DEF Next

\* Of the messages handed to the transmitter some arrive, each whole, at most
\* once and in the order they were sent, whatever the link loses and whatever
\* malformed frames come in between: the receiver never hands over a message
\* with a hole, or one put together from two.
THEOREM TransportIsDelivered == Spec => TransportDelivers
<1>1. Init /\ LinkInv => DeliveryInv
  BY DeliveryBegins
<1>2. Init => Transport!Init
  BY DEF Init, Transport!Init
<1>3. DeliveryInv /\ LinkInv' /\ [Next]_linkVars =>
        DeliveryInv' /\ [Transport!Next]_(Transport!vars)
  BY StepsKeepDelivery
<1>4. QED
  BY <1>1, <1>2, <1>3, LinkInvariant, PTL DEF Spec, TransportDelivers, Transport!Spec

-----------------------------------------------------------------------------
(***************************************************************************)
(* Arrival.  While no fault befalls a message, the two ends agree on how   *)
(* far it is: the frames under way carry on where the receiver is and end  *)
(* where the transmitter is, and of the two one always has the turn.       *)
(***************************************************************************)
\* The message was handed over and its opening frame is the last under way;
\* what is before it belongs to earlier messages.
Opening ==
  /\ toReceiver # <<>> /\ toSender = <<>>
  /\ tx.sent = 0 /\ tx.sn = 1 /\ tx.waits = 0
  /\ tx.state = IF tx.size = 0 THEN "Complete" ELSE "AwaitingFlowControl"
  /\ toReceiver[Len(toReceiver)] = OpeningFrame([id |-> tx.id, size |-> tx.size])

\* The receiver asks to wait, and in the end answers so; the transmitter has
\* the patience for it.
AnswerIsComing(status) ==
  /\ toSender # <<>> /\ tx.waits + Len(toSender) <= MaxWaits + 1
  /\ \A i \in 1 .. Len(toSender) :
       toSender[i].status = IF i = Len(toSender) THEN status ELSE "Wait"

\* The message is longer than the receiver will hold, which it says.
Refusing ==
  /\ tx.size > BufferSize /\ toReceiver = <<>>
  /\ \/ tx.state = "AwaitingFlowControl" /\ AnswerIsComing("Overflow")
     \/ tx.state = "Aborted" /\ toSender = <<>>

\* The sequence number of the i-th frame under way, or of the one to be sent.
Number(i) == IF i <= Len(toReceiver) THEN toReceiver[i].sn ELSE tx.sn

\* The frames under way carry on from the one the receiver expects next.
NumbersMeet ==
  /\ rx.next = Number(1)
  /\ \A i \in 1 .. Len(toReceiver) :
       /\ toReceiver[i].kind = "Consecutive"
       /\ Number(i + 1) = (Number(i) + 1) % Modulus

\* Both ends count the same block.
BlocksMeet ==
  IF BlockSize = 0
  THEN /\ rx.left = NoLimit
       /\ tx.state = "SendingBlock" => tx.left = NoLimit
       /\ tx.state = "AwaitingFlowControl" => toSender # <<>>
  ELSE /\ rx.left > 0
       /\ tx.state \in InTransfer /\ toSender = <<>> => rx.left = Granted + Len(toReceiver)
       /\ toSender # <<>> => rx.left = BlockSize

\* The receiver has what is not under way and lacks the rest.
Running ==
  /\ tx.size <= BufferSize
  /\ rx.assembling /\ Len(rx.buffer) > 0 /\ Receiving = tx.id
  /\ rx.remaining = tx.size - tx.sent + Len(toReceiver)
  /\ NumbersMeet /\ BlocksMeet
  /\ tx.state \in InTransfer \cup {"Complete"}
  /\ tx.state = "Complete" => toReceiver # <<>> /\ toSender = <<>>
  /\ toSender = <<>> \/ AnswerIsComing("Continue")
  /\ toSender = <<>> => tx.waits = 0

\* The message is where it was sent to.
Arrived ==
  /\ tx.size <= BufferSize /\ tx.state = "Complete"
  /\ toReceiver = <<>> /\ toSender = <<>>
  /\ delivered # <<>> /\ delivered[1][1] = tx.id

ArrivalInv ==
  ~disturbed => tx.state = "Idle" \/ Opening \/ Refusing \/ Running \/ Arrived

\* A message that is handed over is opened.
LEMMA SubmitOpens ==
  ASSUME LinkInv, Submit
  PROVE  Opening'
<1>1. PICK size \in Sizes :
        LET m == [id |-> Len(submitted) + 1, size |-> size]
        IN  /\ tx' = Begin(tx, m)
            /\ toReceiver' = Append(toReceiver, OpeningFrame(m))
            /\ submitted' = Append(submitted, size)
  BY Zenon DEF Submit
<1> DEFINE id == Len(submitted) + 1
           f == OpeningFrame([id |-> id, size |-> size])
           state == IF size = 0 THEN "Complete" ELSE "AwaitingFlowControl"
<1>2. tx \in Transmitter /\ toReceiver \in Seq(Frame) /\ toSender' = <<>>
  BY DEF LinkInv, LinkTypeOK, Submit
<1>3. tx' = [tx EXCEPT !.id = id, !.size = size, !.sent = 0, !.sn = 1, !.waits = 0,
                       !.state = state]
  BY <1>1 DEF Begin
<1>4. toReceiver' = Append(toReceiver, f)
  BY <1>1
<1> HIDE DEF id, f, state
<1>5. tx'.id = id /\ tx'.size = size /\ tx'.sent = 0 /\ tx'.sn = 1 /\ tx'.waits = 0
        /\ tx'.state = state
  BY <1>2, <1>3 DEF Transmitter
<1>6. toReceiver' # <<>> /\ toReceiver'[Len(toReceiver')] = f
  BY <1>2, <1>4
<1>7. f = OpeningFrame([id |-> tx'.id, size |-> tx'.size])
  BY <1>5, Zenon DEF f
<1>8. tx'.state = IF tx'.size = 0 THEN "Complete" ELSE "AwaitingFlowControl"
  BY <1>5 DEF state
<1>9. QED
  BY <1>2, <1>5, <1>6, <1>7, <1>8, Zenon DEF Opening

\* The frame that is sent has the number after those under way.
LEMMA SendingGoesOn ==
  ASSUME DeliveryInv, Running, SendConsecutive
  PROVE  Running'
<1>1. /\ LinkInv /\ FlowShape /\ tx.state = "SendingBlock" /\ tx.left # 0
      /\ UNCHANGED <<toSender, rx>>
      /\ toReceiver' = Append(toReceiver, NextFrame(tx)) /\ tx' = AfterFrame(tx)
  BY DEF DeliveryInv, SendConsecutive, BlockIsUsedUp
<1>2. /\ tx \in Transmitter /\ tx.sent \in Nat /\ tx.size \in Nat
      /\ toReceiver \in Seq(Frame) /\ Len(toReceiver) \in Nat /\ tx.left \in Nat \cup {NoLimit}
      /\ BlockSize \in Nat
  BY <1>1, LinkTypes DEF LinkInv, LinkTypeOK
<1>3. toSender = <<>>
  BY <1>1 DEF FlowShape, Granted
<1>4. /\ tx'.id = tx.id /\ tx'.sent = tx.sent + 1 /\ tx'.size = tx.size /\ tx'.waits = tx.waits
      /\ tx'.left = IF tx.left = NoLimit THEN NoLimit ELSE tx.left - 1
      /\ tx'.state = IF tx.sent + 1 >= tx.size THEN "Complete" ELSE "SendingBlock"
      /\ tx'.sn = (tx.sn + 1) % Modulus
  <2> DEFINE number == NextNumber(tx)
             left == IF tx.left = NoLimit THEN NoLimit ELSE tx.left - 1
             state == IF tx.sent + 1 >= tx.size THEN "Complete" ELSE tx.state
  <2>1. tx' = [tx EXCEPT !.sent = tx.sent + 1, !.sn = number, !.left = left, !.state = state]
    BY <1>1, <1>2 DEF AfterFrame, Transmitter
  <2>2. number = (tx.sn + 1) % Modulus
    BY DEF NextNumber
  <2> HIDE DEF number, left, state
  <2>3. /\ tx'.id = tx.id /\ tx'.sent = tx.sent + 1 /\ tx'.size = tx.size
        /\ tx'.waits = tx.waits /\ tx'.left = left /\ tx'.state = state /\ tx'.sn = number
    BY <1>2, <2>1 DEF Transmitter
  <2>4. QED
    BY <1>1, <2>2, <2>3, Zenon DEF left, state
<1>q. PICK q \in Nat : q = Len(toReceiver)
  BY <1>2
<1> DEFINE f == NextFrame(tx)
<1>5. /\ Len(toReceiver') = q + 1 /\ toReceiver' # <<>>
      /\ \A i \in 1 .. q : toReceiver'[i] = toReceiver[i]
      /\ toReceiver'[q + 1] = f
  <2>1. toReceiver' = Append(toReceiver, f)
    BY <1>1
  <2> HIDE DEF f
  <2>2. QED
    BY <1>q, <1>2, <2>1
<1>6. f.kind = "Consecutive" /\ f.sn = tx.sn
  BY DEF NextFrame, ConsecutiveFrame
<1> HIDE DEF f
<1>7. \A i \in 1 .. q + 1 : Number(i)' = Number(i)
  <2>1. ASSUME NEW i \in 1 .. q PROVE Number(i)' = Number(i)
    BY <1>q, <1>5 DEF Number
  <2>2. Number(q + 1)' = tx.sn /\ Number(q + 1) = tx.sn
    <3>1. ~(q + 1 <= Len(toReceiver)) /\ q + 1 <= Len(toReceiver')
      BY <1>q, <1>5
    <3>2. QED
      BY <1>5, <1>6, <3>1, Zenon DEF Number
  <2>3. \A i \in 1 .. q + 1 : i \in 1 .. q \/ i = q + 1
    BY <1>q
  <2>4. QED
    BY <2>1, <2>2, <2>3
<1>8. NumbersMeet'
  <2>1. rx'.next = Number(1)'
    BY <1>1, <1>q, <1>7 DEF Running, NumbersMeet
  <2>2. ASSUME NEW i \in 1 .. q
        PROVE  toReceiver'[i].kind = "Consecutive" /\ Number(i + 1)' = (Number(i)' + 1) % Modulus
    <3>1. Number(i + 1)' = Number(i + 1) /\ Number(i)' = Number(i)
      BY <1>q, <1>7
    <3>2. QED
      BY <1>q, <1>5, <3>1 DEF Running, NumbersMeet
  <2>3. Number((q + 1) + 1)' = tx'.sn /\ Number(q + 1)' = tx.sn
    <3>1. ~((q + 1) + 1 <= Len(toReceiver')) /\ q + 1 <= Len(toReceiver')
      BY <1>q, <1>5
    <3>2. QED
      BY <1>5, <1>6, <3>1, Zenon DEF Number
  <2>4. Number((q + 1) + 1)' = (Number(q + 1)' + 1) % Modulus
    BY <1>4, <2>3
  <2>5. \A i \in 1 .. q + 1 : toReceiver'[i].kind = "Consecutive"
                               /\ Number(i + 1)' = (Number(i)' + 1) % Modulus
    <3>1. \A i \in 1 .. q + 1 : i \in 1 .. q \/ i = q + 1
      BY <1>q
    <3>2. QED
      BY <1>5, <1>6, <2>2, <2>4, <3>1
  <2>6. QED
    BY <1>5, <2>1, <2>5 DEF NumbersMeet
<1>9. BlocksMeet'
  <2>1. CASE BlockSize = 0
    BY <1>1, <1>4, <2>1 DEF Running, BlocksMeet
  <2>2. CASE BlockSize # 0
    <3>1. rx.left > 0 /\ rx.left = tx.left + q
      BY <1>1, <1>q, <1>3, <2>2 DEF Running, BlocksMeet, Granted, InTransfer
    <3>2. tx.left \in Nat
      BY <1>1, <1>2, <2>2 DEF DeliveryInv, TransmitterShape
    <3>3. tx'.left = tx.left - 1
      BY <1>4, <3>2 DEF NoLimit
    <3>4. tx'.state = "SendingBlock" => rx.left = Granted' + Len(toReceiver')
      BY <1>q, <1>5, <3>1, <3>2, <3>3 DEF Granted
    <3>5. tx'.state \in InTransfer => tx'.state = "SendingBlock"
      BY <1>4 DEF InTransfer
    <3>6. QED
      BY <1>1, <1>3, <2>2, <3>1, <3>4, <3>5 DEF BlocksMeet
  <2>3. QED
    BY <2>1, <2>2
<1>10. rx'.remaining = tx'.size - tx'.sent + Len(toReceiver')
  <2>1. rx.remaining = tx.size - tx.sent + q
    BY <1>q DEF Running
  <2>2. rx' = rx
    BY <1>1
  <2>3. tx.size - (tx.sent + 1) + (q + 1) = tx.size - tx.sent + q
    BY <1>2, <1>q
  <2>4. QED
    BY <1>4, <1>5, <2>1, <2>2, <2>3
<1>11. Receiving' = tx'.id
  BY <1>1, <1>4 DEF Running, Receiving
<1>12. QED
  BY <1>1, <1>3, <1>4, <1>5, <1>8, <1>9, <1>10, <1>11 DEF Running, InTransfer

\* The end of a block: the receiver has it, or is about to.
LEMMA BlockEnds ==
  ASSUME DeliveryInv, Running, FinishBlock
  PROVE  Running'
<1>1. /\ LinkInv /\ tx.state = "SendingBlock" /\ tx.left = 0 /\ tx \in Transmitter
      /\ UNCHANGED <<toSender, toReceiver, rx>>
      /\ tx' = [tx EXCEPT !.state = "AwaitingFlowControl"]
  BY DEF DeliveryInv, FinishBlock, BlockIsUsedUp, AwaitNextBlock, LinkInv, LinkTypeOK
<1>2. /\ tx'.state = "AwaitingFlowControl" /\ tx'.id = tx.id /\ tx'.sent = tx.sent
      /\ tx'.size = tx.size /\ tx'.sn = tx.sn /\ tx'.waits = tx.waits
  BY <1>1 DEF Transmitter
<1>3. NumbersMeet'
  BY <1>1, <1>2 DEF Running, NumbersMeet, Number
<1>4. BlocksMeet'
  <2>1. BlockSize # 0
    BY <1>1 DEF Running, BlocksMeet, NoLimit
  <2>2. Granted' = Granted
    BY <1>1, <1>2 DEF Granted
  <2>3. QED
    BY <1>1, <1>2, <2>1, <2>2 DEF Running, BlocksMeet, InTransfer
<1>5. toSender' = <<>> \/ AnswerIsComing("Continue")'
  BY <1>1, <1>2 DEF Running, AnswerIsComing
<1>6. Receiving' = tx'.id
  BY <1>1, <1>2 DEF Running, Receiving
<1>7. QED
  BY <1>1, <1>2, <1>3, <1>4, <1>5, <1>6 DEF Running, InTransfer

\* A request to wait within the transmitter's patience leaves it waiting.
LEMMA PatienceLasts ==
  ASSUME NEW t \in Transmitter, t.state = "AwaitingFlowControl", t.waits + 1 <= MaxWaits,
         NEW flow, flow.status = "Wait"
  PROVE  LET after == OnFlowControl(t, flow)
         IN  /\ after.state = t.state /\ after.id = t.id /\ after.size = t.size
             /\ after.sent = t.sent /\ after.sn = t.sn /\ after.left = t.left
             /\ after.waits = t.waits + 1
<1> DEFINE after == OnFlowControl(t, flow)
           waited == [t EXCEPT !.waits = @ + 1]
<1>1. after = OnWait(t)
  BY Zenon DEF OnFlowControl
<1>2. /\ waited.state = t.state /\ waited.id = t.id /\ waited.size = t.size
      /\ waited.sent = t.sent /\ waited.sn = t.sn /\ waited.left = t.left
      /\ waited.waits = t.waits + 1
  BY DEF Transmitter
<1>3. t.waits \in Int /\ MaxWaits \in Int
  BY IsoTpAssumption DEF Transmitter
<1>4. ~(waited.waits > MaxWaits)
  BY <1>2, <1>3
<1>5. after = waited
  BY <1>1, <1>4, Zenon DEF OnWait
<1>6. QED
  BY <1>2, <1>5, Zenon

\* While the answer comes, the transmitter takes it, or waits for it on.
LEMMA AnswerComesCloser ==
  ASSUME LinkInv, FlowShape, TakeFlowControl, tx.state = "AwaitingFlowControl",
         NEW CONSTANT status, status # "Wait", AnswerIsComing(status)
  PROVE  /\ UNCHANGED <<rx, toReceiver, delivered, disturbed>> /\ toReceiver = <<>>
         /\ \/ /\ toSender[1].status = status /\ toSender[1] \in Flow /\ toSender' = <<>>
               /\ tx' = OnFlowControl(tx, toSender[1])
               /\ status = "Continue" => toSender[1].block = BlockSize
            \/ /\ tx'.state = tx.state /\ tx'.id = tx.id /\ tx'.size = tx.size
               /\ tx'.sent = tx.sent /\ tx'.sn = tx.sn /\ tx'.left = tx.left
               /\ toSender' # <<>> /\ AnswerIsComing(status)'
<1>1. /\ toSender # <<>> /\ toSender' = Tail(toSender) /\ tx' = OnFlowControl(tx, Head(toSender))
      /\ UNCHANGED <<rx, toReceiver, delivered, disturbed>>
  BY DEF TakeFlowControl
<1>2. toReceiver = <<>>
  BY <1>1 DEF FlowShape
<1>3. /\ Len(toSender') = Len(toSender) - 1
      /\ \A i \in 1 .. Len(toSender') : toSender'[i] = toSender[i + 1]
      /\ Head(toSender) = toSender[1] /\ Head(toSender) \in Flow
      /\ toSender \in Seq(Flow)
  BY <1>1, TailOfFlow DEF LinkInv, LinkTypeOK
<1>n. PICK n \in Nat \ {0} : n = Len(toSender)
  BY <1>1, TailOfFlow
<1>4. /\ tx.waits + n <= MaxWaits + 1
      /\ \A i \in 1 .. n : toSender[i].status = IF i = n THEN status ELSE "Wait"
  BY <1>n DEF AnswerIsComing
<1>5. CASE n = 1
  <2>1. toSender' = <<>>
    BY <1>1, <1>3, <1>n, <1>5
  <2>2. toSender[1].status = status
    BY <1>4, <1>5
  <2>3. status = "Continue" => toSender[1].block = BlockSize
    BY <1>n, <1>5, <2>2 DEF FlowShape
  <2>4. QED
    BY <1>1, <1>2, <1>3, <2>1, <2>2, <2>3
<1>6. CASE n # 1
  <2>1. toSender[1].status = "Wait" /\ n \in 2 .. n
    BY <1>4, <1>6
  <2>2. tx \in Transmitter /\ tx.waits \in Int /\ MaxWaits \in Int
    BY IsoTpAssumption DEF LinkInv, LinkTypeOK, Transmitter
  <2>3. tx.waits + 1 <= MaxWaits
    BY <1>4, <2>1, <2>2
  <2>4. tx' = OnFlowControl(tx, toSender[1])
    BY <1>1, <1>3
  <2>5. /\ tx'.state = tx.state /\ tx'.id = tx.id /\ tx'.size = tx.size
        /\ tx'.sent = tx.sent /\ tx'.sn = tx.sn /\ tx'.left = tx.left
        /\ tx'.waits = tx.waits + 1
    BY <2>1, <2>2, <2>3, <2>4, PatienceLasts
  <2>6. Len(toSender') = n - 1 /\ toSender' # <<>>
    <3>1. Len(toSender') = n - 1 /\ n - 1 # 0
      BY <1>3, <1>n, <2>1
    <3>2. QED
      BY <3>1
  <2>7. tx'.waits + Len(toSender') <= MaxWaits + 1
    BY <1>4, <2>2, <2>5, <2>6
  <2>8. ASSUME NEW i \in 1 .. n - 1
        PROVE  toSender'[i].status = IF i = n - 1 THEN status ELSE "Wait"
    <3>1. i + 1 \in 1 .. n /\ (i = n - 1 <=> i + 1 = n)
      OBVIOUS
    <3>2. toSender'[i] = toSender[i + 1]
      BY <1>3, <2>6
    <3>3. QED
      BY <1>4, <3>1, <3>2
  <2>9. AnswerIsComing(status)'
    BY <2>6, <2>7, <2>8 DEF AnswerIsComing
  <2>10. QED
    BY <1>1, <1>2, <2>5, <2>6, <2>9
<1>7. QED
  BY <1>5, <1>6

\* Flow control is read: the next block is sent, or the refusal learnt.
LEMMA FlowControlGoesOn ==
  ASSUME DeliveryInv, Refusing \/ Running, TakeFlowControl
  PROVE  Refusing' \/ Running'
<1>1. /\ LinkInv /\ FlowShape /\ toSender # <<>> /\ tx.state # "SendingBlock"
      /\ tx \in Transmitter
  BY DEF DeliveryInv, TakeFlowControl, LinkInv, LinkTypeOK
<1>2. tx.state = "AwaitingFlowControl"
  BY <1>1 DEF Refusing, Running, InTransfer
<1>3. CASE Refusing
  <2>1. AnswerIsComing("Overflow") /\ tx.size > BufferSize
    BY <1>1, <1>3 DEF Refusing
  <2>2. /\ UNCHANGED <<rx, toReceiver, delivered, disturbed>> /\ toReceiver = <<>>
        /\ \/ /\ toSender[1].status = "Overflow" /\ toSender' = <<>>
              /\ tx' = OnFlowControl(tx, toSender[1])
           \/ /\ tx'.state = tx.state /\ tx'.size = tx.size
              /\ AnswerIsComing("Overflow")'
    BY <1>1, <1>2, <2>1, AnswerComesCloser
  <2>3. CASE AnswerIsComing("Overflow")' /\ tx'.state = tx.state /\ tx'.size = tx.size
    BY <1>2, <2>1, <2>2, <2>3 DEF Refusing
  <2>4. CASE /\ toSender[1].status = "Overflow" /\ toSender' = <<>>
             /\ tx' = OnFlowControl(tx, toSender[1])
    <3>1. tx' = Abort(tx)
      BY <1>2, <2>4, Zenon DEF OnFlowControl
    <3>2. tx'.state = "Aborted" /\ tx'.size = tx.size
      BY <1>1, <3>1 DEF Abort, Transmitter
    <3>3. QED
      BY <2>1, <2>2, <2>4, <3>2 DEF Refusing
  <2>5. QED
    BY <2>2, <2>3, <2>4
<1>4. CASE Running
  <2>1. AnswerIsComing("Continue")
    BY <1>1, <1>4 DEF Running
  <2>2. /\ UNCHANGED <<rx, toReceiver, delivered, disturbed>> /\ toReceiver = <<>>
        /\ \/ /\ toSender[1].status = "Continue" /\ toSender[1] \in Flow /\ toSender' = <<>>
              /\ tx' = OnFlowControl(tx, toSender[1]) /\ toSender[1].block = BlockSize
           \/ /\ tx'.state = tx.state /\ tx'.id = tx.id /\ tx'.size = tx.size
              /\ tx'.sent = tx.sent /\ tx'.sn = tx.sn /\ tx'.left = tx.left
              /\ toSender' # <<>> /\ AnswerIsComing("Continue")'
    BY <1>1, <1>2, <2>1, AnswerComesCloser
  <2>3. /\ tx.size <= BufferSize /\ rx.assembling /\ Len(rx.buffer) > 0 /\ Receiving = tx.id
        /\ rx.remaining = tx.size - tx.sent + Len(toReceiver)
        /\ NumbersMeet /\ BlocksMeet
    BY <1>4 DEF Running
  <2>4. CASE /\ tx'.state = tx.state /\ tx'.id = tx.id /\ tx'.size = tx.size
             /\ tx'.sent = tx.sent /\ tx'.sn = tx.sn /\ tx'.left = tx.left
             /\ toSender' # <<>> /\ AnswerIsComing("Continue")'
    <3>1. NumbersMeet'
      BY <2>2, <2>3, <2>4 DEF NumbersMeet, Number
    <3>2. BlocksMeet'
      BY <1>1, <1>2, <2>2, <2>3, <2>4 DEF BlocksMeet
    <3>3. Receiving' = tx'.id
      BY <2>2, <2>3, <2>4 DEF Receiving
    <3>4. QED
      BY <1>2, <2>2, <2>3, <2>4, <3>1, <3>2, <3>3 DEF Running, InTransfer
  <2>5. CASE /\ toSender[1].status = "Continue" /\ toSender[1] \in Flow /\ toSender' = <<>>
             /\ tx' = OnFlowControl(tx, toSender[1]) /\ toSender[1].block = BlockSize
    <3> DEFINE left == IF BlockSize = 0 THEN NoLimit ELSE BlockSize
    <3>1. tx' = OnContinueToSend(tx, BlockSize)
      BY <1>2, <2>5, Zenon DEF OnFlowControl
    <3>2. tx' = [tx EXCEPT !.waits = 0, !.state = "SendingBlock", !.left = left]
      BY <3>1, Zenon DEF OnContinueToSend
    <3> HIDE DEF left
    <3>3. /\ tx'.state = "SendingBlock" /\ tx'.id = tx.id /\ tx'.size = tx.size
          /\ tx'.sent = tx.sent /\ tx'.sn = tx.sn /\ tx'.left = left /\ tx'.waits = 0
      BY <1>1, <3>2 DEF Transmitter
    <3>4. NumbersMeet'
      BY <2>2, <2>3, <3>3 DEF NumbersMeet, Number
    <3>5. BlocksMeet'
      <4>1. BlockSize \in Nat /\ Len(toReceiver') = 0
        BY <2>2, IsoTpAssumption
      <4>2. CASE BlockSize = 0
        BY <2>2, <2>3, <2>5, <3>3, <4>2 DEF BlocksMeet, left
      <4>3. CASE BlockSize # 0
        <5>1. rx.left = BlockSize
          BY <1>1, <2>3, <4>3 DEF BlocksMeet
        <5>2. Granted' = BlockSize
          BY <3>3, <4>3 DEF Granted, left
        <5>3. QED
          BY <2>2, <2>5, <4>1, <4>3, <5>1, <5>2 DEF BlocksMeet
      <4>4. QED
        BY <4>2, <4>3
    <3>6. Receiving' = tx'.id
      BY <2>2, <2>3, <3>3 DEF Receiving
    <3>7. QED
      BY <2>2, <2>3, <2>5, <3>3, <3>4, <3>5, <3>6 DEF Running, InTransfer
  <2>6. QED
    BY <2>2, <2>4, <2>5
<1>5. QED
  BY <1>3, <1>4

\* Nothing times out: a frame or an answer is under way whenever the
\* transmitter waits.
LEMMA NothingTimesOut ==
  ASSUME LinkInv, Opening \/ Refusing \/ Running \/ Arrived
  PROVE  ~FlowControlTimeout
<1> SUFFICES ASSUME FlowControlTimeout PROVE FALSE
  OBVIOUS
<1>1. tx.state = "AwaitingFlowControl" /\ toReceiver = <<>> /\ toSender = <<>>
  BY DEF FlowControlTimeout, LinkIsQuiet
<1>2. CASE Running
  <2>1. BlockSize = 0 => toSender # <<>>
    BY <1>1, <1>2 DEF Running, BlocksMeet
  <2>2. BlockSize # 0 => rx.left > 0 /\ rx.left = 0 + 0
    <3>1. Len(toReceiver) = 0 /\ Granted = 0
      BY <1>1 DEF Granted
    <3>2. QED
      BY <1>1, <1>2, <3>1 DEF Running, BlocksMeet, InTransfer
  <2>3. QED
    BY <1>1, <2>1, <2>2
<1>3. QED
  BY <1>1, <1>2 DEF Opening, Refusing, Arrived, AnswerIsComing

\* What a receiver asks of a transmitter that nothing disturbs: patience it
\* has, and the answer last.
LEMMA AnswersInPatience ==
  ASSUME NEW waits \in 0 .. MaxWaits,
         NEW outcome \in {"SendFlowControl", "Refused"}
  PROVE  LET answers == Answers(outcome, waits)
             status == IF outcome = "Refused" THEN "Overflow" ELSE "Continue"
         IN  /\ answers # <<>> /\ Len(answers) = waits + 1 /\ waits + 1 <= MaxWaits + 1
             /\ \A i \in 1 .. waits + 1 :
                  answers[i].status = IF i = waits + 1 THEN status ELSE "Wait"
<1> DEFINE asked == [i \in 1 .. waits |-> FlowControl("Wait", 0)]
           status == IF outcome = "Refused" THEN "Overflow" ELSE "Continue"
           last == FlowControl(status, BlockSize)
<1>1. last.status = status /\ waits \in Nat /\ waits + 1 <= MaxWaits + 1
  BY IsoTpAssumption DEF FlowControl
<1>2. FlowControlFor(outcome) = <<last>>
  <2>1. CASE outcome = "SendFlowControl"
    <3>1. status = "Continue"
      BY <2>1
    <3>2. QED
      BY <2>1, <3>1, Zenon DEF FlowControlFor
  <2>2. CASE outcome = "Refused"
    <3>1. status = "Overflow" /\ "Refused" # "SendFlowControl"
      BY <2>2
    <3>2. QED
      BY <2>2, <3>1, Zenon DEF FlowControlFor
  <2>3. QED
    BY <2>1, <2>2
<1>3. /\ asked \in Seq({FlowControl("Wait", 0)}) /\ Len(asked) = waits
      /\ \A i \in 1 .. waits : asked[i].status = "Wait"
  <2>1. FlowControl("Wait", 0).status = "Wait"
    BY DEF FlowControl
  <2>2. QED
    BY <1>1, <2>1
<1> HIDE DEF asked, last
<1>4. Answers(outcome, waits) = asked \o <<last>>
  <2>1. <<last>> # <<>>
    OBVIOUS
  <2>2. QED
    BY <1>2, <2>1, Zenon DEF Answers, asked
<1>5. /\ asked \o <<last>> # <<>> /\ Len(asked \o <<last>>) = waits + 1
      /\ \A i \in 1 .. waits : (asked \o <<last>>)[i] = asked[i]
      /\ (asked \o <<last>>)[waits + 1] = last
  BY <1>1, <1>3
<1>6. \A i \in 1 .. waits + 1 :
        (asked \o <<last>>)[i].status = IF i = waits + 1 THEN status ELSE "Wait"
  <2>1. ASSUME NEW i \in 1 .. waits + 1
        PROVE  (asked \o <<last>>)[i].status = IF i = waits + 1 THEN status ELSE "Wait"
    <3>1. CASE i = waits + 1
      BY <1>1, <1>5, <3>1
    <3>2. CASE i # waits + 1
      <4>1. i \in 1 .. waits
        BY <1>1, <3>2
      <4>2. QED
        BY <1>3, <1>5, <3>2, <4>1
    <3>3. QED
      BY <3>1, <3>2
  <2>2. QED
    BY <2>1
<1>7. QED
  BY <1>1, <1>4, <1>5, <1>6, Zenon

\* A reception that disturbs nothing.
LEMMA UndisturbedReception ==
  ASSUME LinkInv, FlowShape, Receive, ~disturbed', tx.waits = 0
  PROVE  LET outcome == OnFrame(rx, toReceiver[1]).outcome
         IN  /\ ~disturbed
             /\ outcome = "SendFlowControl" => AnswerIsComing("Continue")'
             /\ outcome = "Refused" => AnswerIsComing("Overflow")'
<1> DEFINE f == Head(toReceiver)
           outcome == OnFrame(rx, f).outcome
<1>1. PICK waits \in PeerWaits : Take(f, waits) /\ disturbed' = (disturbed \/ waits > MaxWaits)
  BY Zenon DEF Receive
<1>2. toReceiver # <<>> /\ toReceiver \in Seq(Frame) /\ waits \in Nat /\ MaxWaits \in Nat
        /\ tx' = tx
  BY LinkAssumption, IsoTpAssumption DEF LinkInv, LinkTypeOK, Receive
<1>3. f = toReceiver[1] /\ toSender = <<>>
  BY <1>2, FramesKeepFlowAway
<1>4. ~disturbed /\ waits \in 0 .. MaxWaits
  <2>1. disturbed \in BOOLEAN
    BY DEF LinkInv, LinkTypeOK
  <2>2. ~disturbed /\ ~(waits > MaxWaits)
    BY <1>1, <2>1, Zenon
  <2>3. QED
    BY <1>2, <2>2
<1>5. toSender' = toSender \o Answers(outcome, waits)
  BY <1>1, Zenon DEF Take, Answers
<1>6. Answers(outcome, waits) \in Seq(Flow)
  BY <1>2, AnswersAreFlowControl DEF Answers
<1> HIDE DEF outcome
<1>7. toSender' = Answers(outcome, waits)
  BY <1>3, <1>5, <1>6
<1>8. ASSUME NEW status,
             /\ toSender' # <<>> /\ Len(toSender') = waits + 1 /\ waits + 1 <= MaxWaits + 1
             /\ \A i \in 1 .. waits + 1 :
                  toSender'[i].status = IF i = waits + 1 THEN status ELSE "Wait"
      PROVE  /\ toSender' # <<>> /\ tx'.waits + Len(toSender') <= MaxWaits + 1
             /\ \A i \in 1 .. Len(toSender') :
                  toSender'[i].status = IF i = Len(toSender') THEN status ELSE "Wait"
  BY <1>2, <1>8
<1>9. outcome = "SendFlowControl" => AnswerIsComing("Continue")'
  BY <1>4, <1>7, <1>8, AnswersInPatience DEF AnswerIsComing
<1>10. outcome = "Refused" => AnswerIsComing("Overflow")'
  BY <1>4, <1>7, <1>8, AnswersInPatience DEF AnswerIsComing
<1>11. QED
  BY <1>3, <1>4, <1>9, <1>10 DEF outcome

\* The opening frame reaches the receiver, or an earlier frame does.
LEMMA OpeningIsReceived ==
  ASSUME DeliveryInv, DeliveryInv', Opening, Receive, ~disturbed'
  PROVE  Opening' \/ Refusing' \/ Running' \/ Arrived'
<1> DEFINE f == toReceiver[1]
           live == OnFrame(rx, f)
<1>1. /\ LinkInv /\ FlowShape /\ FlowShape' /\ TransmitterShape
      /\ toReceiver # <<>> /\ toReceiver' = Tail(toReceiver) /\ UNCHANGED <<tx, submitted>>
      /\ rx' = live.pending
      /\ delivered' = IF live.outcome = "Completed" THEN live.pdu ELSE delivered
  BY ReceiveEffects DEF DeliveryInv
<1>2. toReceiver \in Seq(Frame) /\ tx.waits = 0 /\ tx.sent = 0 /\ tx.sn = 1
        /\ tx.size \in Nat /\ BufferSize \in Nat
  <2>1. BufferSize \in Nat
    BY IsoTpAssumption
  <2>2. QED
    BY <1>1, <2>1, LinkTypes DEF Opening
<1>n. PICK n \in Nat \ {0} : n = Len(toReceiver)
  BY <1>1, <1>2
<1>3. toReceiver[n] = OpeningFrame([id |-> tx.id, size |-> tx.size])
  BY <1>n DEF Opening
<1>t. tx' = tx /\ toReceiver' = Tail(toReceiver)
  BY <1>1
<1>e. n = 1 => toReceiver' = <<>> /\ Len(toReceiver') = 0
  <2>1. toReceiver # <<>>
    BY <1>1
  <2>2. toReceiver' \in Seq(Frame) /\ Len(toReceiver') = Len(toReceiver) - 1
    BY <1>2, <1>t, <2>1
  <2>3. QED
    BY <1>n, <2>2
<1>4. CASE n # 1
  <2>1. /\ Len(toReceiver') = n - 1 /\ n - 1 \in Nat \ {0} /\ toReceiver' # <<>>
        /\ toReceiver'[n - 1] = toReceiver[n]
    BY <1>1, <1>2, <1>n, <1>4
  <2>2. toSender' = <<>>
    BY <1>1, <2>1 DEF FlowShape
  <2>3. Opening'
    BY <1>1, <1>3, <2>1, <2>2, Zenon DEF Opening
  <2>4. QED
    BY <2>3
<1>5. CASE n = 1 /\ tx.size = 0
  <2>1. f = SingleFrame([id |-> tx.id, size |-> tx.size])
    BY <1>3, <1>5 DEF OpeningFrame
  <2>2. f.kind = "Single" /\ f.part = <<tx.id, 0>>
    BY <2>1 DEF SingleFrame
  <2>3. live = Completed(<<f.part>>)
    BY <2>2, Zenon DEF OnFrame
  <2>4. live.outcome = "Completed" /\ live.pdu = <<f.part>>
    BY <2>3 DEF Completed
  <2>5. delivered' # <<>> /\ delivered'[1][1] = tx'.id
    BY <1>1, <2>2, <2>4
  <2>6. toSender' = <<>>
    BY <1>1, <2>4, ReceiveEffects, AnswersOfOutcomes
  <2>7. toReceiver' = <<>>
    BY <1>e, <1>5
  <2>8. Arrived'
    BY <1>1, <1>2, <1>5, <2>5, <2>6, <2>7 DEF Opening, Arrived
  <2>9. QED
    BY <2>8
<1>6. CASE n = 1 /\ tx.size # 0
  <2>1. f = FirstFrame([id |-> tx.id, size |-> tx.size])
    BY <1>3, <1>6 DEF OpeningFrame
  <2>2. f.kind = "First" /\ f.part = <<tx.id, 0>> /\ f.size = tx.size
    BY <2>1 DEF FirstFrame
  <2>3. live = OnFirstFrame(rx, f)
    BY <2>2, Zenon DEF OnFrame
  <2>4. toReceiver' = <<>> /\ Len(toReceiver') = 0
    BY <1>e, <1>6
  <2>5. tx.state = "AwaitingFlowControl"
    BY <1>6 DEF Opening
  <2>6. CASE tx.size > BufferSize
    <3>1. live = Finished("Refused")
      BY <2>2, <2>3, <2>6, Zenon DEF OnFirstFrame
    <3>2. live.outcome = "Refused"
      BY <3>1 DEF Finished
    <3>3. AnswerIsComing("Overflow")'
      BY <1>1, <1>2, <3>2, UndisturbedReception
    <3>4. Refusing'
      BY <1>1, <2>4, <2>5, <2>6, <3>3 DEF Refusing
    <3>5. QED
      BY <3>4
  <2>7. CASE ~(tx.size > BufferSize)
    <3>1. live = Owing(Started(f))
      BY <2>2, <2>3, <2>7, Zenon DEF OnFirstFrame
    <3>2. live.outcome = "SendFlowControl" /\ live.pending = Started(f)
      BY <3>1 DEF Owing
    <3>3. AnswerIsComing("Continue")'
      BY <1>1, <1>2, <3>2, UndisturbedReception
    <3>4. /\ rx'.assembling /\ rx'.buffer = <<f.part>> /\ rx'.remaining = f.size
          /\ rx'.next = 1 /\ rx'.left = BlockAllowance
      BY <1>1, <3>2 DEF Started
    <3>5. Len(rx'.buffer) > 0 /\ Receiving' = tx'.id
      BY <1>1, <2>2, <3>4 DEF Receiving
    <3>6. NumbersMeet'
      <4>1. Number(1)' = tx'.sn
        BY <2>4 DEF Number
      <4>2. QED
        BY <1>2, <1>t, <2>4, <3>4, <4>1 DEF NumbersMeet
    <3>7. toSender' # <<>>
      BY <3>3 DEF AnswerIsComing
    <3>8. BlocksMeet'
      <4>1. BlockSize \in Nat
        BY IsoTpAssumption
      <4>2. QED
        BY <1>t, <2>5, <3>4, <3>7, <4>1 DEF BlocksMeet, BlockAllowance
    <3>9. rx'.remaining = tx'.size - tx'.sent + Len(toReceiver')
      <4>1. tx.size = tx.size - 0 + 0
        BY <1>2
      <4>2. rx'.remaining = tx.size
        BY <2>2, <3>4
      <4>3. QED
        BY <1>2, <1>t, <2>4, <4>1, <4>2
    <3>10. tx'.size <= BufferSize
      BY <1>1, <1>2, <2>7
    <3>11. Running'
      BY <1>1, <2>5, <3>3, <3>4, <3>5, <3>6, <3>7, <3>8, <3>9, <3>10 DEF Running, InTransfer
    <3>12. QED
      BY <3>11
  <2>8. QED
    BY <2>6, <2>7
<1>7. QED
  BY <1>4, <1>5, <1>6

\* The part that is received is the one that is due, and the next is due then.
LEMMA NumbersGoOn ==
  ASSUME LinkInv, FlowShape, Running, Receive, rx' = Extended(rx, toReceiver[1])
  PROVE  /\ rx'.assembling /\ Len(rx'.buffer) > 0 /\ Receiving' = tx'.id
         /\ rx'.remaining = tx'.size - tx'.sent + Len(toReceiver')
         /\ NumbersMeet'
<1> DEFINE f == toReceiver[1]
<1>1. /\ toReceiver # <<>> /\ toReceiver' = Tail(toReceiver) /\ UNCHANGED tx /\ f \in Frame
      /\ rx.assembling
  BY ReceiveEffects DEF Running
<1>2. /\ toReceiver \in Seq(Frame) /\ rx \in Assembling /\ Len(rx.buffer) \in Nat
      /\ tx.size \in Nat /\ tx.sent \in Nat
  BY <1>1, LinkTypes, ReceiverTypes
<1>n. PICK n \in Nat \ {0} : n = Len(toReceiver)
  BY <1>1, <1>2
<1>3. /\ Len(toReceiver') = n - 1
      /\ \A i \in 1 .. n - 1 : toReceiver'[i] = toReceiver[i + 1]
  BY <1>1, <1>2, <1>n
<1>4. /\ rx'.assembling /\ rx'.remaining = rx.remaining - 1
      /\ Len(rx'.buffer) = Len(rx.buffer) + 1
      /\ \A i \in 1 .. Len(rx.buffer) : rx'.buffer[i] = rx.buffer[i]
  BY <1>1, OnePartMore
<1>5. rx'.next = (rx.next + 1) % Modulus
  BY <1>2 DEF Extended, Assembling
<1>6. Len(rx'.buffer) > 0 /\ Receiving' = tx'.id
  <2>1. Len(rx.buffer) > 0 /\ Receiving = tx.id
    BY DEF Running
  <2>2. 1 \in 1 .. Len(rx.buffer) /\ Len(rx.buffer) + 1 > 0
    BY <1>2, <2>1
  <2>3. rx'.buffer[1] = rx.buffer[1]
    BY <1>4, <2>2
  <2>4. QED
    BY <1>1, <1>4, <2>1, <2>2, <2>3 DEF Receiving
<1>7. rx'.remaining = tx'.size - tx'.sent + Len(toReceiver')
  <2>1. rx.remaining = tx.size - tx.sent + n
    BY <1>n DEF Running
  <2>2. (tx.size - tx.sent + n) - 1 = tx.size - tx.sent + (n - 1)
    BY <1>2
  <2>3. tx' = tx /\ rx'.remaining = (tx.size - tx.sent + n) - 1
    <3>1. rx'.remaining = rx.remaining - 1
      BY <1>4
    <3>2. rx'.remaining = (tx.size - tx.sent + n) - 1
      BY <2>1, <3>1, Zenon
    <3>3. QED
      BY <1>1, <3>2
  <2>4. QED
    BY <1>3, <2>2, <2>3
<1>8. \A i \in 1 .. n : Number(i)' = Number(i + 1)
  <2>1. ASSUME NEW i \in 1 .. n - 1 PROVE Number(i)' = Number(i + 1)
    <3>1. i <= Len(toReceiver') /\ i + 1 <= Len(toReceiver)
      BY <1>n, <1>3
    <3>2. QED
      BY <1>3, <3>1, Zenon DEF Number
  <2>2. Number(n)' = tx.sn /\ Number(n + 1) = tx.sn
    <3>1. ~(n <= Len(toReceiver')) /\ ~(n + 1 <= Len(toReceiver))
      BY <1>n, <1>3
    <3>2. QED
      BY <1>1, <3>1, Zenon DEF Number
  <2>3. \A i \in 1 .. n : i \in 1 .. n - 1 \/ i = n
    OBVIOUS
  <2>4. QED
    BY <2>1, <2>2, <2>3
<1>9. /\ rx.next = Number(1)
      /\ \A i \in 1 .. n : /\ toReceiver[i].kind = "Consecutive"
                           /\ Number(i + 1) = (Number(i) + 1) % Modulus
  BY <1>n DEF Running, NumbersMeet
<1>10. rx'.next = Number(1)'
  <2>1. 1 \in 1 .. n
    OBVIOUS
  <2>2. Number(1)' = Number(1 + 1) /\ Number(1 + 1) = (Number(1) + 1) % Modulus
    BY <1>8, <1>9, <2>1
  <2>3. QED
    BY <1>5, <1>9, <2>2
<1>11. \A i \in 1 .. n - 1 : /\ toReceiver'[i].kind = "Consecutive"
                             /\ Number(i + 1)' = (Number(i)' + 1) % Modulus
  <2>1. ASSUME NEW i \in 1 .. n - 1
        PROVE  /\ toReceiver'[i].kind = "Consecutive"
               /\ Number(i + 1)' = (Number(i)' + 1) % Modulus
    <3>1. i \in 1 .. n /\ i + 1 \in 1 .. n
      OBVIOUS
    <3>2. Number(i)' = Number(i + 1) /\ Number(i + 1)' = Number((i + 1) + 1)
      BY <1>8, <3>1
    <3>3. Number((i + 1) + 1) = (Number(i + 1) + 1) % Modulus
            /\ toReceiver[i + 1].kind = "Consecutive"
      BY <1>9, <3>1
    <3>4. QED
      BY <1>3, <3>2, <3>3
  <2>2. QED
    BY <2>1
<1>12. NumbersMeet'
  BY <1>3, <1>10, <1>11 DEF NumbersMeet
<1>13. QED
  BY <1>4, <1>6, <1>7, <1>12

\* A consecutive frame reaches the receiver: the message arrives, or goes on
\* within the block or with the next.
LEMMA RunningIsReceived ==
  ASSUME DeliveryInv, DeliveryInv', Running, Receive, ~disturbed'
  PROVE  Running' \/ Arrived'
<1> DEFINE f == toReceiver[1]
           live == OnFrame(rx, f)
           x == Extended(rx, f)
<1>1. /\ LinkInv /\ FlowShape /\ FlowShape' /\ TransmitterShape
      /\ toReceiver # <<>> /\ toReceiver' = Tail(toReceiver) /\ f \in Frame
      /\ rx' = live.pending
      /\ delivered' = IF live.outcome = "Completed" THEN live.pdu ELSE delivered
  BY ReceiveEffects DEF DeliveryInv
<1>2. tx' = tx /\ toSender = <<>> /\ Granted' = Granted
  BY <1>1, ReceiveEffects DEF Granted
<1>3. /\ tx.size \in Nat /\ tx.sent \in Nat /\ tx.waits = 0
      /\ toReceiver \in Seq(Frame) /\ BlockSize \in Nat
      /\ rx.assembling /\ rx.remaining \in Nat /\ rx.remaining > 0
      /\ rx.left \in Nat \cup {NoLimit} /\ Len(rx.buffer) \in Nat /\ Len(rx.buffer) > 0
      /\ rx.buffer[1][1] = tx.id
  BY <1>1, <1>2, LinkTypes, ReceiverTypes DEF Running, Receiving
<1>n. PICK n \in Nat \ {0} : n = Len(toReceiver)
  BY <1>1, <1>3
<1>4. toReceiver' \in Seq(Frame) /\ Len(toReceiver') = n - 1
  BY <1>1, <1>3, <1>n
<1>5. f.kind = "Consecutive" /\ f.sn = rx.next
  <2>1. 1 \in 1 .. Len(toReceiver) /\ 1 <= Len(toReceiver)
    BY <1>n
  <2>2. Number(1) = f.sn
    BY <2>1, Zenon DEF Number
  <2>3. QED
    BY <2>1, <2>2 DEF Running, NumbersMeet
<1>6. live = TakeNext(rx, f)
  <2>1. live = OnConsecutiveFrame(rx, f)
    BY <1>5, Zenon DEF OnFrame
  <2>2. QED
    BY <1>3, <1>5, <2>1, Zenon DEF OnConsecutiveFrame
<1>7. /\ x.buffer = Append(rx.buffer, f.part) /\ x.remaining = rx.remaining - 1
      /\ x.left = NextAllowance(rx.left) /\ x.buffer[1] = rx.buffer[1]
      /\ Len(x.buffer) = Len(rx.buffer) + 1
  <2>1. 1 \in 1 .. Len(rx.buffer)
    BY <1>3
  <2>2. QED
    BY <1>1, <1>3, <2>1, OnePartMore
<1>8. rx.remaining = tx.size - tx.sent + n /\ tx.size <= BufferSize
      /\ tx.state \in InTransfer \cup {"Complete"}
  BY <1>n DEF Running
<1>9. /\ tx.state \in InTransfer => tx.sent < tx.size
      /\ tx.state = "Complete" => tx.sent = tx.size
  BY <1>1 DEF LinkInv, TransmitterInv, TransmitterShape
<1> HIDE DEF live, x
<1>10. CASE rx.remaining = 1
  <2>1. tx.state = "Complete" /\ n = 1
    <3>1. tx.state \notin InTransfer
      BY <1>3, <1>8, <1>9, <1>10
    <3>2. tx.state = "Complete"
      BY <1>8, <3>1
    <3>3. n = 1
      BY <1>3, <1>8, <1>9, <1>10, <3>2
    <3>4. QED
      BY <3>2, <3>3
  <2>2. toReceiver' = <<>>
    BY <1>4, <2>1
  <2>3. x.remaining = 0
    BY <1>7, <1>10
  <2>4. live = Completed(x.buffer)
    BY <1>6, <2>3, Zenon DEF TakeNext, x
  <2>5. live.outcome = "Completed" /\ live.pdu = x.buffer
    BY <2>4 DEF Completed
  <2>6. toSender' = <<>>
    BY <1>1, <2>5, ReceiveEffects, AnswersOfOutcomes DEF live
  <2>7. delivered' = x.buffer /\ x.buffer # <<>> /\ x.buffer[1][1] = tx.id
    <3>1. Len(x.buffer) # 0
      BY <1>3, <1>7
    <3>2. QED
      BY <1>1, <1>3, <1>7, <2>5, <3>1
  <2>8. Arrived'
    BY <1>2, <1>8, <2>1, <2>2, <2>6, <2>7 DEF Arrived
  <2>9. QED
    BY <2>8
<1>11. CASE rx.remaining # 1
  <2>1. x.remaining # 0
    BY <1>3, <1>7, <1>11
  <2>2. tx.state = "Complete" => n - 1 # 0
    BY <1>3, <1>8, <1>9, <1>11
  <2>3. CASE rx.left \notin 0 .. 1
    <3>1. live = Ignored(x)
      BY <1>6, <2>1, <2>3, Zenon DEF TakeNext, x
    <3>2. live.outcome = "Nothing" /\ rx' = x
      BY <1>1, <3>1 DEF Ignored
    <3>3. toSender' = <<>>
      BY <1>1, <3>2, ReceiveEffects, AnswersOfOutcomes DEF live
    <3>4. /\ rx'.assembling /\ Len(rx'.buffer) > 0 /\ Receiving' = tx'.id
          /\ rx'.remaining = tx'.size - tx'.sent + Len(toReceiver') /\ NumbersMeet'
      BY <1>1, <3>2, NumbersGoOn DEF x
    <3>5. BlocksMeet'
      <4>1. CASE BlockSize = 0
        <5>1. rx.left = NoLimit /\ tx.state # "AwaitingFlowControl"
                /\ (tx.state = "SendingBlock" => tx.left = NoLimit)
          BY <1>2, <4>1 DEF Running, BlocksMeet
        <5>2. rx'.left = NoLimit
          <6>1. NextAllowance(NoLimit) = NoLimit
            BY DEF NextAllowance, NoLimit
          <6>2. QED
            BY <1>7, <3>2, <5>1, <6>1
        <5>3. QED
          BY <1>2, <4>1, <5>1, <5>2 DEF BlocksMeet
      <4>2. CASE BlockSize # 0
        <5>1. /\ rx.left > 0
              /\ tx.state \in InTransfer => rx.left = Granted + n
          BY <1>2, <1>n, <4>2 DEF Running, BlocksMeet
        <5>2. rx.left \in Nat /\ rx.left > 1 /\ rx.left # NoLimit
          BY <1>3, <2>3, <5>1 DEF NoLimit
        <5>3. rx'.left = rx.left - 1
          BY <1>7, <2>3, <3>2, <5>2, Zenon DEF NextAllowance
        <5>4. tx'.state \in InTransfer => rx'.left = Granted' + Len(toReceiver')
          <6> SUFFICES ASSUME tx.state \in InTransfer
                       PROVE  rx'.left = Granted' + Len(toReceiver')
            BY <1>2
          <6>1. Granted \in Nat
            BY <1>1, <1>3, <4>2 DEF Granted, TransmitterShape
          <6>2. rx'.left = (Granted + n) - 1
            BY <5>1, <5>3
          <6>3. (Granted + n) - 1 = Granted + (n - 1)
            BY <6>1
          <6>4. QED
            BY <1>2, <1>4, <6>2, <6>3
        <5>5. rx'.left > 0
          BY <5>2, <5>3
        <5>6. QED
          BY <3>3, <4>2, <5>4, <5>5 DEF BlocksMeet
      <4>3. QED
        BY <4>1, <4>2
    <3>6. tx'.state = "Complete" => toReceiver' # <<>>
      BY <1>2, <1>4, <2>2
    <3>7. Running'
      BY <1>2, <1>3, <1>8, <3>3, <3>4, <3>5, <3>6 DEF Running
    <3>8. QED
      BY <3>7
  <2>4. CASE rx.left \in 0 .. 1
    <3>1. live = Owing(x)
      BY <1>6, <2>1, <2>4, Zenon DEF TakeNext, x
    <3>2. live.outcome = "SendFlowControl" /\ rx' = x
      BY <1>1, <3>1 DEF Owing
    <3>3. AnswerIsComing("Continue")'
      BY <1>1, <1>3, <3>2, UndisturbedReception DEF live
    <3>4. toSender' # <<>>
      BY <3>3 DEF AnswerIsComing
    <3>5. toReceiver' = <<>>
      BY <1>1, <3>4 DEF FlowShape
    <3>6. tx'.state # "Complete"
      BY <1>2, <1>4, <2>2, <3>5
    <3>7. /\ rx'.assembling /\ Len(rx'.buffer) > 0 /\ Receiving' = tx'.id
          /\ rx'.remaining = tx'.size - tx'.sent + Len(toReceiver') /\ NumbersMeet'
      BY <1>1, <3>2, NumbersGoOn DEF x
    <3>8. BlocksMeet'
      <4>1. BlockSize # 0
        BY <2>4 DEF Running, BlocksMeet, NoLimit
      <4>2. rx.left # NoLimit
        BY <2>4 DEF NoLimit
      <4>3. rx'.left = BlockAllowance
        BY <1>7, <2>4, <3>2, <4>2, Zenon DEF NextAllowance
      <4>4. rx'.left = BlockSize /\ BlockSize > 0
        BY <1>3, <4>1, <4>3 DEF BlockAllowance
      <4>5. QED
        BY <3>4, <4>1, <4>4 DEF BlocksMeet
    <3>9. Running'
      BY <1>2, <1>8, <3>3, <3>4, <3>6, <3>7, <3>8 DEF Running
    <3>10. QED
      BY <3>9
  <2>5. QED
    BY <2>3, <2>4
<1>12. QED
  BY <1>10, <1>11

\* A step that no fault is keeps the two ends in agreement.
LEMMA StepsKeepArrival ==
  ASSUME DeliveryInv, DeliveryInv', ArrivalInv, [Next]_linkVars
  PROVE  ArrivalInv'
<1> SUFFICES ASSUME ~disturbed'
             PROVE  tx'.state = "Idle" \/ Opening' \/ Refusing' \/ Running' \/ Arrived'
  BY DEF ArrivalInv
<1>1. LinkInv /\ TransmitterShape /\ FlowShape /\ disturbed \in BOOLEAN
  BY DEF DeliveryInv, LinkInv, LinkTypeOK
<1>2. CASE Submit
  BY <1>1, <1>2, SubmitOpens
<1>3. SUFFICES ASSUME ~Submit
               PROVE  tx'.state = "Idle" \/ Opening' \/ Refusing' \/ Running' \/ Arrived'
  BY <1>2
<1>4. ~disturbed
  <2>1. CASE Receive
    <3>1. PICK waits \in PeerWaits : disturbed' = (disturbed \/ waits > MaxWaits)
      BY <2>1, Zenon DEF Receive
    <3>2. QED
      BY <1>1, <3>1, Zenon
  <2>2. CASE SendConsecutive \/ FinishBlock \/ TakeFlowControl \/ FlowControlTimeout
    BY <2>2 DEF SendConsecutive, FinishBlock, TakeFlowControl, FlowControlTimeout
  <2>3. CASE LoseFrame \/ LoseFlowControl \/ PeerStalls \/ StrayArrives
    BY <2>3 DEF LoseFrame, LoseFlowControl, PeerStalls, StrayArrives
  <2>4. CASE UNCHANGED linkVars
    BY <2>4 DEF linkVars
  <2>5. QED
    BY <1>3, <2>1, <2>2, <2>3, <2>4 DEF Next
<1>5. tx.state = "Idle" \/ Opening \/ Refusing \/ Running \/ Arrived
  BY <1>4 DEF ArrivalInv
<1>6. tx.state = "Idle" => toReceiver = <<>>
  BY <1>1 DEF TransmitterShape
<1>7. CASE SendConsecutive
  <2>1. tx.state = "SendingBlock"
    BY <1>7 DEF SendConsecutive
  <2>2. Running
    BY <1>5, <2>1 DEF Opening, Refusing, Arrived
  <2>3. QED
    BY <1>7, <2>2, SendingGoesOn
<1>8. CASE FinishBlock
  <2>1. tx.state = "SendingBlock"
    BY <1>8 DEF FinishBlock
  <2>2. Running
    BY <1>5, <2>1 DEF Opening, Refusing, Arrived
  <2>3. QED
    BY <1>8, <2>2, BlockEnds
<1>9. CASE TakeFlowControl
  <2>1. toSender # <<>>
    BY <1>9 DEF TakeFlowControl
  <2>2. CASE tx.state = "Idle"
    <3>1. tx' = tx
      BY <1>9, <2>2, Zenon DEF TakeFlowControl, OnFlowControl
    <3>2. QED
      BY <2>2, <3>1
  <2>3. CASE tx.state # "Idle"
    <3>1. Refusing \/ Running
      BY <1>5, <2>1, <2>3 DEF Opening, Arrived
    <3>2. QED
      BY <1>9, <3>1, FlowControlGoesOn
  <2>4. QED
    BY <2>2, <2>3
<1>10. CASE FlowControlTimeout
  <2>1. tx.state # "Idle"
    BY <1>10 DEF FlowControlTimeout
  <2>2. QED
    BY <1>1, <1>5, <1>10, <2>1, NothingTimesOut
<1>11. CASE Receive
  <2>1. toReceiver # <<>>
    BY <1>11 DEF Receive
  <2>2. Opening \/ Running
    BY <1>5, <1>6, <2>1 DEF Refusing, Arrived
  <2>3. QED
    BY <1>11, <2>2, OpeningIsReceived, RunningIsReceived
<1>12. CASE LoseFrame \/ LoseFlowControl \/ PeerStalls \/ StrayArrives
  BY <1>12 DEF LoseFrame, LoseFlowControl, PeerStalls, StrayArrives
<1>13. CASE UNCHANGED linkVars
  <2>1. UNCHANGED <<tx, rx, toReceiver, toSender, delivered>>
    BY <1>13 DEF linkVars
  <2>2. Opening => Opening'
    BY <2>1 DEF Opening
  <2>3. Refusing => Refusing'
    BY <2>1 DEF Refusing, AnswerIsComing
  <2>4. Running => Running'
    <3>1. NumbersMeet => NumbersMeet'
      BY <2>1 DEF NumbersMeet, Number
    <3>2. BlocksMeet => BlocksMeet'
      BY <2>1 DEF BlocksMeet, Granted
    <3>3. QED
      BY <2>1, <3>1, <3>2 DEF Running, Receiving, AnswerIsComing
  <2>5. Arrived => Arrived'
    BY <2>1 DEF Arrived
  <2>6. QED
    BY <1>5, <2>1, <2>2, <2>3, <2>4, <2>5
<1>14. QED
  BY <1>2, <1>7, <1>8, <1>9, <1>10, <1>11, <1>12, <1>13 DEF Next

\* The invariants of delivery and of arrival hold together.
LEMMA DeliveryInvariant == Spec => []DeliveryInv
<1>1. Init /\ LinkInv => DeliveryInv
  BY DeliveryBegins
<1>2. DeliveryInv /\ LinkInv' /\ [Next]_linkVars => DeliveryInv'
  BY StepsKeepDelivery
<1>3. QED
  BY <1>1, <1>2, LinkInvariant, PTL DEF Spec

\* A transfer nothing interfered with ends with the message delivered, or with
\* a refusal if the receiver has no room for it, for every size, block size,
\* modulus and number of messages: both ends count blocks and sequence numbers
\* alike, and neither waits for the other.
THEOREM UndisturbedMessagesArrive == Spec => []UndisturbedArrives
<1>1. Init => ArrivalInv
  BY DEF Init, NewTransmitter, ArrivalInv
<1>2. DeliveryInv /\ DeliveryInv' /\ ArrivalInv /\ [Next]_linkVars => ArrivalInv'
  BY StepsKeepArrival
<1>3. ArrivalInv /\ LinkInv => UndisturbedArrives
  <2> SUFFICES ASSUME ArrivalInv, LinkInv, ~disturbed, toReceiver = <<>>,
                      tx.state \notin InTransfer \cup {"Idle"}
               PROVE  IF tx.size > BufferSize THEN tx.state = "Aborted"
                      ELSE tx.state = "Complete" /\ delivered # <<>> /\ delivered[1][1] = tx.id
    BY DEF UndisturbedArrives
  <2>1. Refusing \/ Arrived
    BY DEF ArrivalInv, Opening, Running
  <2>2. tx.size \in Nat /\ BufferSize \in Nat
    BY LinkTypes, IsoTpAssumption
  <2>3. QED
    BY <2>1, <2>2 DEF Refusing, Arrived, InTransfer
<1>4. DeliveryInv => LinkInv
  BY DEF DeliveryInv
<1>5. QED
  BY <1>1, <1>2, <1>3, <1>4, DeliveryInvariant, PTL DEF Spec

=============================================================================
