-------------------------------- MODULE IsoTp --------------------------------
(***************************************************************************)
(* ISO-TP as crates/isotp implements it: the transmitter (tx.rs), the live *)
(* receiver (rx.rs) and the offline reassembler (lib.rs), as functions of  *)
(* their state and one frame.                                              *)
(*                                                                         *)
(* A message is an identity and its size: the number of consecutive frames *)
(* it takes after its first frame, none if it fits a single frame.  Part 0 *)
(* of it travels in the first (or single) frame, part k in the k-th        *)
(* consecutive frame, so bytes, padding and separation times are left out. *)
(***************************************************************************)
EXTENDS Integers, Sequences

CONSTANTS
  Ids,          \* identities of messages
  MaxSize,      \* the longest message a first frame can announce (4095 bytes)
  Modulus,      \* sequence numbers wrap here: 16
  MaxWaits,     \* c_u8MaxWaitFrames: 10
  BlockSize,    \* consecutive frames the receiver takes per flow control
  BufferSize    \* the longest message the receiver will hold

ASSUME IsoTpAssumption ==
  /\ MaxSize \in Nat \ {0}
  /\ Modulus \in Nat \ {0, 1}
  /\ MaxWaits \in Nat
  /\ BlockSize \in Nat
  /\ BufferSize \in 0 .. MaxSize

NoLimit == -1           \* None of m_optU8RemainingInBlock
Message == [id : Ids, size : Nat]
Part == Ids \X (0 .. MaxSize)

FlowStatus == {"Continue", "Wait", "Overflow", "Reserved"}
Strays == {"ShortFirst", "FdEscape", "Unknown"}

SingleFrame(m) == [kind |-> "Single", part |-> <<m.id, 0>>]
FirstFrame(m) == [kind |-> "First", part |-> <<m.id, 0>>, size |-> m.size]
ConsecutiveFrame(id, k, sn) == [kind |-> "Consecutive", part |-> <<id, k>>, sn |-> sn]
FlowControl(status, block) == [kind |-> "FlowControl", status |-> status, block |-> block]

\* Frames that are no part of a message: a first frame for what would fit a
\* single frame, a single frame with the escape of CAN FD, a reserved type.
StrayFrame(kind) == [kind |-> kind]

Frame ==
  [kind : {"Single"}, part : Part]
    \cup [kind : {"First"}, part : Part, size : 1 .. MaxSize]
    \cup [kind : {"Consecutive"}, part : Part, sn : 0 .. Modulus - 1]
Flow == [kind : {"FlowControl"}, status : FlowStatus, block : Nat]

-----------------------------------------------------------------------------
(***************************************************************************)
(* The transmitter                                                         *)
(***************************************************************************)
InTransfer == {"AwaitingFlowControl", "SendingBlock"}
TransmitState == {"Idle", "Complete", "Aborted"} \cup InTransfer

Transmitter ==
  [state : TransmitState, id : Ids, size : 0 .. MaxSize, sent : 0 .. MaxSize,
   sn : 0 .. Modulus - 1, left : Nat \cup {NoLimit}, waits : 0 .. MaxWaits + 1]

NewTransmitter(id) ==
  [state |-> "Idle", id |-> id, size |-> 0, sent |-> 0, sn |-> 1,
   left |-> NoLimit, waits |-> 0]

CanBegin(m) == m.size <= MaxSize

Begin(tx, m) ==
  [tx EXCEPT !.id = m.id, !.size = m.size, !.sent = 0, !.sn = 1, !.waits = 0,
             !.state = IF m.size = 0 THEN "Complete" ELSE "AwaitingFlowControl"]

OpeningFrame(m) == IF m.size = 0 THEN SingleFrame(m) ELSE FirstFrame(m)

Abort(tx) == [tx EXCEPT !.state = "Aborted"]

OnContinueToSend(tx, block) ==
  [tx EXCEPT !.waits = 0, !.state = "SendingBlock",
             !.left = IF block = 0 THEN NoLimit ELSE block]

\* Mutated form of OnWait: nobody counts how often the peer asked.
OnWaitUncounted(tx) == tx

OnWait(tx) ==
  LET waited == [tx EXCEPT !.waits = @ + 1]
  IN  IF waited.waits > MaxWaits THEN Abort(waited) ELSE waited

OnFlowControl(tx, flow) ==
  IF tx.state # "AwaitingFlowControl" THEN tx
  ELSE CASE flow.status = "Continue" -> OnContinueToSend(tx, flow.block)
         [] flow.status = "Wait" -> OnWait(tx)
         [] OTHER -> Abort(tx)

\* NextConsecutiveFrame: a block that is used up is noticed by the call after
\* its last frame, the end of the message by the call that sends it.
BlockIsUsedUp(tx) == tx.left = 0
AwaitNextBlock(tx) == [tx EXCEPT !.state = "AwaitingFlowControl"]

NextFrame(tx) == ConsecutiveFrame(tx.id, tx.sent + 1, tx.sn)

\* Mutated form of NextNumber: sequence numbers start anew with every block.
NextNumberInBlock(tx) == IF tx.left = 1 THEN 1 ELSE (tx.sn + 1) % Modulus

NextNumber(tx) == (tx.sn + 1) % Modulus

AfterFrame(tx) ==
  [tx EXCEPT !.sent = @ + 1, !.sn = NextNumber(tx),
             !.left = IF @ = NoLimit THEN NoLimit ELSE @ - 1,
             !.state = IF tx.sent + 1 >= tx.size THEN "Complete" ELSE @]

-----------------------------------------------------------------------------
(***************************************************************************)
(* The live receiver: its message in progress, and what one frame makes of *)
(* it.  Every handler returns the message in progress after the frame, and *)
(* the outcome.                                                            *)
(***************************************************************************)
NotAssembling == [assembling |-> FALSE]
Assembling ==
  [assembling : {TRUE}, buffer : Seq(Part), remaining : 0 .. MaxSize,
   next : 0 .. Modulus - 1, left : Nat \cup {NoLimit}]
Pending == {NotAssembling} \cup Assembling

BlockAllowance == IF BlockSize = 0 THEN NoLimit ELSE BlockSize

Ignored(pending) == [pending |-> pending, outcome |-> "Nothing"]
Finished(outcome) == [pending |-> NotAssembling, outcome |-> outcome]
Completed(buffer) ==
  [pending |-> NotAssembling, outcome |-> "Completed", pdu |-> buffer]
Owing(pending) == [pending |-> pending, outcome |-> "SendFlowControl"]

Started(f) ==
  [assembling |-> TRUE, buffer |-> <<f.part>>, remaining |-> f.size,
   next |-> 1, left |-> BlockAllowance]

\* Mutated form of OnFirstFrame: a message in progress goes on.
OnFirstFrameWhenIdle(pending, f) ==
  IF f.size > BufferSize THEN Finished("Refused")
  ELSE IF pending.assembling THEN Owing(pending)
  ELSE Owing(Started(f))

OnFirstFrame(pending, f) ==
  IF f.size > BufferSize THEN Finished("Refused") ELSE Owing(Started(f))

NextAllowance(left) ==
  CASE left = NoLimit -> NoLimit
    [] left \in 0 .. 1 -> BlockAllowance
    [] OTHER -> left - 1

Extended(pending, f) ==
  [pending EXCEPT !.buffer = Append(@, f.part), !.remaining = @ - 1,
                  !.next = (@ + 1) % Modulus, !.left = NextAllowance(@)]

TakeNext(pending, f) ==
  LET extended == Extended(pending, f)
  IN  CASE extended.remaining = 0 -> Completed(extended.buffer)
        [] extended.remaining # 0 /\ pending.left \in 0 .. 1 -> Owing(extended)
        [] OTHER -> Ignored(extended)

\* Mutated form of OnConsecutiveFrame: sequence numbers are not compared.
OnAnyConsecutiveFrame(pending, f) ==
  IF pending.assembling THEN TakeNext(pending, f) ELSE Ignored(pending)

OnConsecutiveFrame(pending, f) ==
  CASE ~pending.assembling -> Ignored(pending)
    [] pending.assembling /\ f.sn # pending.next -> Finished("Aborted")
    [] OTHER -> TakeNext(pending, f)

\* OnFrame of a physical receiver.  A malformed single frame abandons what is
\* in progress, a malformed first frame and an unknown type do not.
OnFrame(pending, f) ==
  CASE f.kind = "Single" -> Completed(<<f.part>>)
    [] f.kind = "First" -> OnFirstFrame(pending, f)
    [] f.kind = "Consecutive" -> OnConsecutiveFrame(pending, f)
    [] f.kind = "FdEscape" -> Ignored(NotAssembling)
    [] OTHER -> Ignored(pending)

\* A functional receiver takes single frames only and never flow-controls.
OnBroadcastFrame(pending, f) ==
  IF f.kind = "First" THEN Ignored(pending) ELSE OnFrame(pending, f)

\* The flow control a frame calls for, if any.
FlowControlFor(outcome) ==
  CASE outcome = "SendFlowControl" -> <<FlowControl("Continue", BlockSize)>>
    [] outcome = "Refused" -> <<FlowControl("Overflow", BlockSize)>>
    [] OTHER -> <<>>

-----------------------------------------------------------------------------
(***************************************************************************)
(* The offline reassembler, ReassembleStream, frame by frame.  It knows no *)
(* blocks and no limit, takes any first frame, decodes the escape, and     *)
(* gives a message up over a frame of unknown type.                        *)
(***************************************************************************)
StrayPart == <<>>

ReassembleConsecutive(pending, f) ==
  IF ~pending.assembling \/ f.sn # pending.next THEN Ignored(NotAssembling)
  ELSE LET extended == [Extended(pending, f) EXCEPT !.left = NoLimit]
       IN  IF extended.remaining = 0 THEN Completed(extended.buffer)
           ELSE Ignored(extended)

ReassembleStream(pending, f) ==
  CASE f.kind = "Single" -> Completed(<<f.part>>)
    [] f.kind = "First" -> Ignored([Started(f) EXCEPT !.left = NoLimit])
    [] f.kind = "Consecutive" -> ReassembleConsecutive(pending, f)
    [] f.kind = "FdEscape" -> Completed(<<StrayPart>>)
    [] f.kind = "FlowControl" -> Ignored(pending)
    [] f.kind = "ShortFirst" ->
         Ignored([Started([part |-> StrayPart, size |-> 1]) EXCEPT !.left = NoLimit])
    [] OTHER -> Ignored(NotAssembling)
=============================================================================
