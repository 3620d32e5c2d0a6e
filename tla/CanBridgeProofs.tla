--------------------------- MODULE CanBridgeProofs ---------------------------
(***************************************************************************)
(* What the CAN bridge's task never loses, and that whatever its transfers  *)
(* set aside stays in order, for any ECUs, plans and testers.              *)
(***************************************************************************)
EXTENDS CanBridge, SequenceTheorems, TLAPS

\* A bridge that polls is done with everything before: no frame it took off
\* the bus is left, none it set aside, no step of a plan it waits for and no
\* answer it still has to send.
NothingIsOwedWhilePolling ==
  pc = "Polling" => queue = <<>> /\ deferred = <<>> /\ timeline = <<>> /\ due = <<>>

\* What the point the task is at says about what it holds.  Frames are aside
\* only inside a transfer, and answers are owed only from the first step of a
\* plan to the last transfer.
TaskInv ==
  /\ pc \in {"Polling", "Handling", "Executing", "Transmitting", "Awaiting", "Sending"}
  /\ pc \notin {"Awaiting", "Sending"} => deferred = <<>>
  /\ pc = "Polling" => queue = <<>>
  /\ pc = "Handling" => queue # <<>>
  /\ pc \in {"Polling", "Handling"} => due = <<>>
  /\ pc = "Executing" <=> timeline # <<>>

\* Where the task goes on after a frame depends on the frames left.
LEMMA ResumeIsRight ==
  ASSUME NEW frames
  PROVE  /\ Resume(frames) \in {"Polling", "Handling"}
         /\ Resume(frames) = "Polling" <=> frames = <<>>
BY DEF Resume

\* After the end of a transfer nothing is aside, and the next answer is sent or
\* the next frame looked at.
LEMMA EndTransferIsClean ==
  ASSUME TaskInv, NEW frames, pc \in {"Transmitting", "Awaiting", "Sending"},
         EndTransfer(frames), UNCHANGED timeline
  PROVE  TaskInv'
<1>1. deferred' = <<>> /\ timeline' = <<>>
  BY DEF EndTransfer, TaskInv
<1>2. CASE due' # <<>>
  BY <1>1, <1>2 DEF EndTransfer, TaskInv
<1>3. CASE due' = <<>>
  <2>1. pc' = Resume(queue')
    BY <1>3 DEF EndTransfer
  <2>2. QED
    BY <1>1, <1>3, <2>1, ResumeIsRight DEF TaskInv
<1>4. QED
  BY <1>2, <1>3

\* Taking frames, feeding endpoints and dropping frames leave nothing but the
\* queue changed of what the task holds.
LEMMA FramesKeepTheTask ==
  ASSUME TaskInv, Poll \/ DropWhenStopped \/ FeedEndpoint
  PROVE  TaskInv'
<1>1. /\ pc \in {"Polling", "Handling"}
      /\ pc' = Resume(queue')
      /\ UNCHANGED <<deferred, timeline, due>>
  BY DEF Poll, DropWhenStopped, FeedEndpoint
<1>2. pc' \in {"Polling", "Handling"} /\ (pc' = "Polling" <=> queue' = <<>>)
  BY <1>1, ResumeIsRight
<1>3. QED
  BY <1>1, <1>2 DEF TaskInv

\* A request leads to the execution of its plans, or to the next frame.
LEMMA RequestsKeepTheTask ==
  ASSUME TaskInv, AnswerRequest
  PROVE  TaskInv'
<1>1. /\ pc = "Handling"
      /\ pc' = IF timeline' = <<>> THEN Resume(queue') ELSE "Executing"
      /\ UNCHANGED <<deferred, due>>
  BY DEF AnswerRequest
<1>2. deferred' = <<>> /\ due' = <<>>
  BY <1>1 DEF TaskInv
<1>3. CASE timeline' = <<>>
  BY <1>1, <1>2, <1>3, ResumeIsRight DEF TaskInv
<1>4. CASE timeline' # <<>>
  BY <1>1, <1>2, <1>4 DEF TaskInv
<1>5. QED
  BY <1>3, <1>4

\* A step that comes due is collected, and the last one begins the sending.
LEMMA StepsKeepTheTask ==
  ASSUME TaskInv, StepComesDue
  PROVE  TaskInv'
<1>1. /\ pc = "Executing"
      /\ pc' = IF timeline' = <<>> THEN "Transmitting" ELSE "Executing"
      /\ UNCHANGED deferred
  BY DEF StepComesDue
<1>2. QED
  BY <1>1 DEF TaskInv

\* An answer too long to send is skipped.
LEMMA SkippingKeepsTheTask ==
  ASSUME TaskInv, SkipTooLong
  PROVE  TaskInv'
<1>1. /\ pc = "Transmitting"
      /\ pc' = IF due' # <<>> THEN "Transmitting" ELSE Resume(queue)
      /\ UNCHANGED <<queue, deferred, timeline>>
  BY DEF SkipTooLong
<1>2. CASE due' # <<>>
  BY <1>1, <1>2 DEF TaskInv
<1>3. CASE due' = <<>>
  BY <1>1, <1>3, ResumeIsRight DEF TaskInv
<1>4. QED
  BY <1>2, <1>3

\* The steps of a transfer: each goes on with it or ends it.
LEMMA TransfersKeepTheTask ==
  ASSUME TaskInv,
         \/ BeginPdu \/ FlowControlTimeout \/ TakeFlowControl
         \/ TakeOtherFrame \/ SendConsecutive \/ FinishBlock
  PROVE  TaskInv'
<1>1. pc \in {"Transmitting", "Awaiting", "Sending"} /\ UNCHANGED timeline
  BY DEF BeginPdu, FlowControlTimeout, TakeFlowControl, TakeOtherFrame, SendConsecutive,
         FinishBlock
<1>2. CASE \E frames : EndTransfer(frames)
  BY <1>1, <1>2, EndTransferIsClean
<1>3. CASE pc' \in {"Awaiting", "Sending"}
  BY <1>1, <1>3 DEF TaskInv
<1>4. BeginPdu => pc' \in {"Awaiting", "Sending"} \/ \E frames : EndTransfer(frames)
  BY DEF BeginPdu
<1>5. FlowControlTimeout => \E frames : EndTransfer(frames)
  BY DEF FlowControlTimeout
<1>6. TakeFlowControl => pc' \in {"Awaiting", "Sending"} \/ \E frames : EndTransfer(frames)
  BY DEF TakeFlowControl
<1>7. TakeOtherFrame => pc' = "Awaiting"
  BY DEF TakeOtherFrame
<1>8. SendConsecutive => pc' = "Sending" \/ \E frames : EndTransfer(frames)
  BY DEF SendConsecutive
<1>9. FinishBlock => pc' = "Awaiting"
  BY DEF FinishBlock
<1>10. QED
  BY <1>2, <1>3, <1>4, <1>5, <1>6, <1>7, <1>8, <1>9

\* Neither the operator nor a tester touches what the task holds.
LEMMA OthersKeepTheTask ==
  ASSUME TaskInv, Operate \/ TesterStep \/ UNCHANGED vars
  PROVE  TaskInv'
<1>1. UNCHANGED bridgeVars
  BY DEF Operate, TesterStep, SendRequest, ContinueRequest, GiveUpRequest, ClearToSend, vars
<1>2. QED
  BY <1>1 DEF bridgeVars, TaskInv

\* The invariant of the bridge's task.
THEOREM BridgeInvariant == Spec => []TaskInv
<1>1. Init => TaskInv
  BY DEF Init, TaskInv
<1>2. TaskInv /\ [Next]_vars => TaskInv'
  BY FramesKeepTheTask, RequestsKeepTheTask, StepsKeepTheTask, SkippingKeepsTheTask,
     TransfersKeepTheTask, OthersKeepTheTask
     DEF Next, BridgeStep
<1>3. QED
  BY <1>1, <1>2, PTL DEF Spec

\* However a transfer ended, what was set aside during it is back before the
\* bridge looks at another frame.
THEOREM NothingStaysAside == Spec => []NothingIsLeftAside
<1>1. TaskInv => NothingIsLeftAside
  BY DEF TaskInv, NothingIsLeftAside
<1>2. QED
  BY <1>1, BridgeInvariant, PTL

\* A bridge that polls owes nothing: every frame it took was looked at, every
\* step of every plan was sent, skipped or given up.
THEOREM PollingBridgeOwesNothing == Spec => []NothingIsOwedWhilePolling
<1>1. TaskInv => NothingIsOwedWhilePolling
  BY DEF TaskInv, NothingIsOwedWhilePolling
<1>2. QED
  BY <1>1, BridgeInvariant, PTL

-----------------------------------------------------------------------------
(***************************************************************************)
(* The order of frames.  Whatever a transfer sets aside and puts back, the *)
(* frames the bridge has yet to look at are in the order they were sent,   *)
(* and for every identifier their sequence numbers carry on from what its  *)
(* endpoint expects to what its tester will send.                          *)
(***************************************************************************)
\* The frames on their way to an endpoint: set aside, taken off the bus, on it.
Path == deferred \o queue \o bus

\* A frame of a message on the identifier i.
IsData(f, i) == f.on = i /\ f.frame.kind # "FlowControl"

\* Positions of a path: the first and the last frame of a message on i, and
\* two that follow each other.
NoData(p, i) == \A a \in 1 .. Len(p) : ~IsData(p[a], i)
IsFirstData(p, i, b) ==
  b \in 1 .. Len(p) /\ IsData(p[b], i) /\ \A a \in 1 .. b - 1 : ~IsData(p[a], i)
IsLastData(p, i, a) ==
  a \in 1 .. Len(p) /\ IsData(p[a], i) /\ \A c \in a + 1 .. Len(p) : ~IsData(p[c], i)
AreNeighbours(p, i, a, b) ==
  /\ a \in 1 .. Len(p) /\ b \in 1 .. Len(p) /\ a < b
  /\ IsData(p[a], i) /\ IsData(p[b], i)
  /\ \A c \in a + 1 .. b - 1 : ~IsData(p[c], i)

\* The sequence number that comes after a frame that has one to come.
NumberAfter(f) == IF f.kind = "First" THEN 1 ELSE (f.sn + 1) % Modulus
Follows(f, g) ==
  f.kind # "Single" /\ g.kind = "Consecutive" => g.sn = NumberAfter(f)
SenderFollows(t, f) ==
  f.kind # "Single" /\ t.state \in InTransfer => t.sn = NumberAfter(f)

\* An endpoint relies on the next number when it assembles a message of which
\* the bridge dropped no frame.
Relies(x, d) == x.assembling /\ ~d

\* The frames of i's messages on a path carry on from each other, the first
\* from what the endpoint expects, and what the transmitter sends from the last.
InOrder(p, i, t, x, d) ==
  /\ \A a, b \in 1 .. Len(p) : AreNeighbours(p, i, a, b) => Follows(p[a].frame, p[b].frame)
  /\ \A a \in 1 .. Len(p) : IsLastData(p, i, a) => SenderFollows(t, p[a].frame)
  /\ \A b \in 1 .. Len(p) :
       IsFirstData(p, i, b) /\ Relies(x, d) /\ p[b].frame.kind = "Consecutive" =>
         p[b].frame.sn = x.next
  /\ NoData(p, i) /\ Relies(x, d) /\ t.state \in InTransfer => t.sn = x.next

FramesInOrder == \A i \in Ids : InOrder(Path, i, sender[i], rx[i], dropped[i])

\* A transfer sets aside no frame on the identifier it answers.
AsideAreOthers ==
  pc \in {"Awaiting", "Sending"} => \A k \in 1 .. Len(deferred) : deferred[k].on # request

-----------------------------------------------------------------------------
(***************************************************************************)
(* Paths: what is left of positions when one frame goes or one comes       *)
(***************************************************************************)
\* The path q is p without its r-th frame; the path q is p and one more frame.
Without(p, q, r) ==
  /\ Len(p) \in Nat /\ Len(q) = Len(p) - 1 /\ r \in 1 .. Len(p)
  /\ \A j \in 1 .. r - 1 : q[j] = p[j]
  /\ \A j \in r .. Len(q) : q[j] = p[j + 1]
Lengthened(p, q, f) ==
  /\ Len(p) \in Nat /\ Len(q) = Len(p) + 1 /\ q[Len(p) + 1] = f
  /\ \A j \in 1 .. Len(p) : q[j] = p[j]

\* A frame may go without leaving a hole for i if it is none of i's messages
\* or the first of their frames.
MayGo(p, i, r) == IsData(p[r], i) => IsFirstData(p, i, r)

\* Where a position was before the r-th frame went.
Was(r, j) == IF j < r THEN j ELSE j + 1

LEMMA WasThere ==
  ASSUME NEW p, NEW q, NEW r, Without(p, q, r), NEW j \in 1 .. Len(q)
  PROVE  Was(r, j) \in 1 .. Len(p) /\ Was(r, j) # r /\ q[j] = p[Was(r, j)]
BY DEF Without, Was

\* Two that are neighbours now were neighbours before.
LEMMA NeighboursWereNeighbours ==
  ASSUME NEW p, NEW q, NEW r, Without(p, q, r), NEW i, MayGo(p, i, r),
         NEW a, NEW b, AreNeighbours(q, i, a, b)
  PROVE  AreNeighbours(p, i, Was(r, a), Was(r, b))
           /\ q[a] = p[Was(r, a)] /\ q[b] = p[Was(r, b)]
<1>1. /\ a \in 1 .. Len(q) /\ b \in 1 .. Len(q) /\ a < b /\ IsData(q[a], i) /\ IsData(q[b], i)
      /\ \A c \in a + 1 .. b - 1 : ~IsData(q[c], i)
  BY DEF AreNeighbours
<1>2. /\ Was(r, a) \in 1 .. Len(p) /\ Was(r, b) \in 1 .. Len(p) /\ Was(r, b) # r
      /\ q[a] = p[Was(r, a)] /\ q[b] = p[Was(r, b)]
  BY <1>1, WasThere
<1>3. Len(p) \in Nat /\ r \in 1 .. Len(p) /\ Len(q) = Len(p) - 1
  BY DEF Without
<1>4. Was(r, a) < Was(r, b)
  BY <1>1, <1>3 DEF Was
<1>5. ASSUME NEW c \in Was(r, a) + 1 .. Was(r, b) - 1
      PROVE  ~IsData(p[c], i)
  <2>1. CASE c = r
    <3>1. Was(r, a) \in 1 .. r - 1
      BY <1>2, <1>3, <1>5, <2>1
    <3>2. IsData(p[Was(r, a)], i)
      BY <1>1, <1>2
    <3>3. ~IsFirstData(p, i, r)
      BY <3>1, <3>2 DEF IsFirstData
    <3>4. QED
      BY <2>1, <3>3 DEF MayGo
  <2>2. CASE c < r
    <3>1. c \in a + 1 .. b - 1 /\ c \in 1 .. Len(q) /\ Was(r, c) = c
      BY <1>1, <1>2, <1>3, <1>5, <2>2 DEF Was
    <3>2. q[c] = p[c]
      BY <3>1, WasThere
    <3>3. QED
      BY <1>1, <3>1, <3>2
  <2>3. CASE c > r
    <3>1. c - 1 \in a + 1 .. b - 1 /\ c - 1 \in 1 .. Len(q) /\ Was(r, c - 1) = c
      BY <1>1, <1>2, <1>3, <1>5, <2>3 DEF Was
    <3>2. q[c - 1] = p[c]
      BY <3>1, WasThere
    <3>3. QED
      BY <1>1, <3>1, <3>2
  <2>4. QED
    BY <1>2, <1>3, <1>5, <2>1, <2>2, <2>3
<1>6. IsData(p[Was(r, a)], i) /\ IsData(p[Was(r, b)], i)
  BY <1>1, <1>2
<1>7. QED
  BY <1>2, <1>4, <1>5, <1>6 DEF AreNeighbours

\* What is last now was last before.
LEMMA LastWasLast ==
  ASSUME NEW p, NEW q, NEW r, Without(p, q, r), NEW i, MayGo(p, i, r),
         NEW a, IsLastData(q, i, a)
  PROVE  IsLastData(p, i, Was(r, a)) /\ q[a] = p[Was(r, a)]
<1>1. a \in 1 .. Len(q) /\ IsData(q[a], i) /\ \A c \in a + 1 .. Len(q) : ~IsData(q[c], i)
  BY DEF IsLastData
<1>2. Was(r, a) \in 1 .. Len(p) /\ q[a] = p[Was(r, a)]
  BY <1>1, WasThere
<1>3. Len(p) \in Nat /\ r \in 1 .. Len(p) /\ Len(q) = Len(p) - 1
  BY DEF Without
<1>4. ASSUME NEW c \in Was(r, a) + 1 .. Len(p)
      PROVE  ~IsData(p[c], i)
  <2>1. CASE c = r
    <3>1. Was(r, a) \in 1 .. r - 1
      BY <1>2, <1>3, <1>4, <2>1
    <3>2. IsData(p[Was(r, a)], i)
      BY <1>1, <1>2
    <3>3. ~IsFirstData(p, i, r)
      BY <3>1, <3>2 DEF IsFirstData
    <3>4. QED
      BY <2>1, <3>3 DEF MayGo
  <2>2. CASE c < r
    <3>1. c \in a + 1 .. Len(q) /\ c \in 1 .. Len(q) /\ Was(r, c) = c
      BY <1>1, <1>2, <1>3, <1>4, <2>2 DEF Was
    <3>2. q[c] = p[c]
      BY <3>1, WasThere
    <3>3. QED
      BY <1>1, <3>1, <3>2
  <2>3. CASE c > r
    <3>1. c - 1 \in a + 1 .. Len(q) /\ c - 1 \in 1 .. Len(q) /\ Was(r, c - 1) = c
      BY <1>1, <1>2, <1>3, <1>4, <2>3 DEF Was
    <3>2. q[c - 1] = p[c]
      BY <3>1, WasThere
    <3>3. QED
      BY <1>1, <3>1, <3>2
  <2>4. QED
    BY <1>2, <1>3, <1>4, <2>1, <2>2, <2>3
<1>5. IsData(p[Was(r, a)], i)
  BY <1>1, <1>2
<1>6. QED
  BY <1>2, <1>4, <1>5 DEF IsLastData

\* What is first now was first before, or came after the one that went.
LEMMA FirstWasNext ==
  ASSUME NEW p, NEW q, NEW r, Without(p, q, r), NEW i, MayGo(p, i, r),
         NEW b, IsFirstData(q, i, b)
  PROVE  /\ q[b] = p[Was(r, b)]
         /\ ~IsData(p[r], i) => IsFirstData(p, i, Was(r, b))
         /\ IsData(p[r], i) => AreNeighbours(p, i, r, Was(r, b))
<1>1. b \in 1 .. Len(q) /\ IsData(q[b], i) /\ \A a \in 1 .. b - 1 : ~IsData(q[a], i)
  BY DEF IsFirstData
<1>2. Was(r, b) \in 1 .. Len(p) /\ q[b] = p[Was(r, b)] /\ Was(r, b) # r
  BY <1>1, WasThere
<1>3. Len(p) \in Nat /\ r \in 1 .. Len(p) /\ Len(q) = Len(p) - 1
  BY DEF Without
<1>4. ASSUME NEW c \in 1 .. Was(r, b) - 1, c # r
      PROVE  ~IsData(p[c], i)
  <2>1. CASE c < r
    <3>1. c \in 1 .. b - 1 /\ c \in 1 .. Len(q) /\ Was(r, c) = c
      BY <1>1, <1>2, <1>3, <1>4, <2>1 DEF Was
    <3>2. q[c] = p[c]
      BY <3>1, WasThere
    <3>3. QED
      BY <1>1, <3>1, <3>2
  <2>2. CASE c > r
    <3>1. c - 1 \in 1 .. b - 1 /\ c - 1 \in 1 .. Len(q) /\ Was(r, c - 1) = c
      BY <1>1, <1>2, <1>3, <1>4, <2>2 DEF Was
    <3>2. q[c - 1] = p[c]
      BY <3>1, WasThere
    <3>3. QED
      BY <1>1, <3>1, <3>2
  <2>3. QED
    BY <1>2, <1>3, <1>4, <2>1, <2>2
<1>5. IsData(p[Was(r, b)], i)
  BY <1>1, <1>2
<1>6. CASE ~IsData(p[r], i)
  <2>1. \A c \in 1 .. Was(r, b) - 1 : ~IsData(p[c], i)
    BY <1>4, <1>6
  <2>2. QED
    BY <1>2, <1>5, <1>6, <2>1 DEF IsFirstData
<1>7. CASE IsData(p[r], i)
  <2>1. IsFirstData(p, i, r)
    BY <1>7 DEF MayGo
  <2>2. r < Was(r, b)
    <3>1. ~(Was(r, b) \in 1 .. r - 1)
      BY <1>5, <2>1 DEF IsFirstData
    <3>2. QED
      BY <1>2, <1>3, <3>1
  <2>3. \A c \in r + 1 .. Was(r, b) - 1 : ~IsData(p[c], i)
    <3>1. ASSUME NEW c \in r + 1 .. Was(r, b) - 1 PROVE ~IsData(p[c], i)
      <4>1. c \in 1 .. Was(r, b) - 1 /\ c # r
        BY <1>3, <3>1
      <4>2. QED
        BY <1>4, <4>1
    <3>2. QED
      BY <3>1
  <2>4. QED
    BY <1>2, <1>3, <1>5, <1>7, <2>2, <2>3 DEF AreNeighbours
<1>8. QED
  BY <1>2, <1>6, <1>7

\* A path without frames of i had none before, or the one that went.
LEMMA NoneWasAtMostOne ==
  ASSUME NEW p, NEW q, NEW r, Without(p, q, r), NEW i, NoData(q, i)
  PROVE  /\ ~IsData(p[r], i) => NoData(p, i)
         /\ IsData(p[r], i) => IsLastData(p, i, r)
<1>1. Len(p) \in Nat /\ r \in 1 .. Len(p) /\ Len(q) = Len(p) - 1
  BY DEF Without
<1>2. ASSUME NEW c \in 1 .. Len(p), c # r PROVE ~IsData(p[c], i)
  <2>1. CASE c < r
    <3>1. c \in 1 .. Len(q) /\ Was(r, c) = c
      BY <1>1, <1>2, <2>1 DEF Was
    <3>2. q[c] = p[c]
      BY <3>1, WasThere
    <3>3. QED
      BY <3>1, <3>2 DEF NoData
  <2>2. CASE c > r
    <3>1. c - 1 \in 1 .. Len(q) /\ Was(r, c - 1) = c
      BY <1>1, <1>2, <2>2 DEF Was
    <3>2. q[c - 1] = p[c]
      BY <3>1, WasThere
    <3>3. QED
      BY <3>1, <3>2 DEF NoData
  <2>3. QED
    BY <1>1, <1>2, <2>1, <2>2
<1>3. ~IsData(p[r], i) => NoData(p, i)
  BY <1>2 DEF NoData
<1>4. IsData(p[r], i) => IsLastData(p, i, r)
  <2>1. \A c \in r + 1 .. Len(p) : c \in 1 .. Len(p) /\ c # r
    BY <1>1
  <2>2. QED
    BY <1>1, <1>2, <2>1 DEF IsLastData
<1>5. QED
  BY <1>3, <1>4

\* One frame more at the end of a path.
LEMMA OneFrameMore ==
  ASSUME NEW p, NEW q, NEW f, Lengthened(p, q, f), NEW i
  PROVE  /\ NoData(q, i) => NoData(p, i) /\ ~IsData(f, i)
         /\ \A b : IsFirstData(q, i, b) =>
              \/ IsFirstData(p, i, b) /\ q[b] = p[b]
              \/ NoData(p, i) /\ IsData(f, i) /\ q[b] = f
         /\ \A a : IsLastData(q, i, a) =>
              \/ IsLastData(p, i, a) /\ ~IsData(f, i) /\ q[a] = p[a]
              \/ IsData(f, i) /\ q[a] = f
         /\ \A a, b : AreNeighbours(q, i, a, b) =>
              \/ AreNeighbours(p, i, a, b) /\ q[a] = p[a] /\ q[b] = p[b]
              \/ IsLastData(p, i, a) /\ IsData(f, i) /\ q[a] = p[a] /\ q[b] = f
<1> DEFINE n == Len(p)
<1>1. /\ n \in Nat /\ Len(q) = n + 1 /\ q[n + 1] = f
      /\ \A j \in 1 .. n : q[j] = p[j]
  BY DEF Lengthened
<1> HIDE DEF n
<1>2. NoData(q, i) => NoData(p, i) /\ ~IsData(f, i)
  <2> SUFFICES ASSUME NoData(q, i) PROVE NoData(p, i) /\ ~IsData(f, i)
    OBVIOUS
  <2>1. n + 1 \in 1 .. Len(q) /\ \A j \in 1 .. n : j \in 1 .. Len(q)
    BY <1>1
  <2>2. QED
    BY <1>1, <2>1 DEF NoData, n
<1>3. ASSUME NEW b, IsFirstData(q, i, b)
      PROVE  \/ IsFirstData(p, i, b) /\ q[b] = p[b]
             \/ NoData(p, i) /\ IsData(f, i) /\ q[b] = f
  <2>1. b \in 1 .. n + 1 /\ IsData(q[b], i) /\ \A a \in 1 .. b - 1 : ~IsData(q[a], i)
    BY <1>1, <1>3 DEF IsFirstData
  <2>2. CASE b = n + 1
    <3>1. \A j \in 1 .. n : j \in 1 .. b - 1
      BY <1>1, <2>2
    <3>2. QED
      BY <1>1, <2>1, <2>2, <3>1 DEF NoData, n
  <2>3. CASE b # n + 1
    <3>1. b \in 1 .. n /\ \A a \in 1 .. b - 1 : a \in 1 .. n
      BY <1>1, <2>1, <2>3
    <3>2. QED
      BY <1>1, <2>1, <3>1 DEF IsFirstData, n
  <2>4. QED
    BY <2>2, <2>3
<1>4. ASSUME NEW a, IsLastData(q, i, a)
      PROVE  \/ IsLastData(p, i, a) /\ ~IsData(f, i) /\ q[a] = p[a]
             \/ IsData(f, i) /\ q[a] = f
  <2>1. a \in 1 .. n + 1 /\ IsData(q[a], i) /\ \A c \in a + 1 .. n + 1 : ~IsData(q[c], i)
    BY <1>1, <1>4 DEF IsLastData
  <2>2. CASE a = n + 1
    BY <1>1, <2>1, <2>2
  <2>3. CASE a # n + 1
    <3>1. a \in 1 .. n /\ n + 1 \in a + 1 .. n + 1
            /\ \A c \in a + 1 .. n : c \in a + 1 .. n + 1 /\ c \in 1 .. n
      BY <1>1, <2>1, <2>3
    <3>2. QED
      BY <1>1, <2>1, <3>1 DEF IsLastData, n
  <2>4. QED
    BY <2>2, <2>3
<1>5. ASSUME NEW a, NEW b, AreNeighbours(q, i, a, b)
      PROVE  \/ AreNeighbours(p, i, a, b) /\ q[a] = p[a] /\ q[b] = p[b]
             \/ IsLastData(p, i, a) /\ IsData(f, i) /\ q[a] = p[a] /\ q[b] = f
  <2>1. /\ a \in 1 .. n + 1 /\ b \in 1 .. n + 1 /\ a < b /\ IsData(q[a], i) /\ IsData(q[b], i)
        /\ \A c \in a + 1 .. b - 1 : ~IsData(q[c], i)
    BY <1>1, <1>5 DEF AreNeighbours
  <2>2. a \in 1 .. n /\ q[a] = p[a]
    BY <1>1, <2>1
  <2>3. CASE b = n + 1
    <3>1. \A c \in a + 1 .. n : c \in a + 1 .. b - 1 /\ c \in 1 .. n
      BY <1>1, <2>2, <2>3
    <3>2. QED
      BY <1>1, <2>1, <2>2, <2>3, <3>1 DEF IsLastData, n
  <2>4. CASE b # n + 1
    <3>1. b \in 1 .. n /\ \A c \in a + 1 .. b - 1 : c \in 1 .. n
      BY <1>1, <2>1, <2>2, <2>4
    <3>2. QED
      BY <1>1, <2>1, <2>2, <3>1 DEF AreNeighbours, n
  <2>5. QED
    BY <2>3, <2>4
<1>6. QED
  BY <1>2, <1>3, <1>4, <1>5

-----------------------------------------------------------------------------
(***************************************************************************)
(* What keeps the frames of one identifier in order                        *)
(***************************************************************************)
\* A transmitter that keeps still sends no other number than before, and an
\* endpoint that keeps still expects no other.
TransmitterIsCalm(t, u) ==
  u.state \in InTransfer => t.state \in InTransfer /\ u.sn = t.sn
EndpointIsCalm(x, d, y, e) ==
  Relies(y, e) => Relies(x, d) /\ y.next = x.next

\* Nothing happens to the frames.
LEMMA StillInOrder ==
  ASSUME NEW p, NEW i, NEW t, NEW x, NEW d, InOrder(p, i, t, x, d),
         NEW u, TransmitterIsCalm(t, u), NEW y, NEW e, EndpointIsCalm(x, d, y, e)
  PROVE  InOrder(p, i, u, y, e)
BY DEF InOrder, TransmitterIsCalm, EndpointIsCalm, SenderFollows

\* A frame goes that belongs to no message of i.
LEMMA InOrderWithoutAnother ==
  ASSUME NEW p, NEW q, NEW r, Without(p, q, r), NEW i, ~IsData(p[r], i),
         NEW t, NEW x, NEW d, InOrder(p, i, t, x, d),
         NEW u, TransmitterIsCalm(t, u), NEW y, NEW e, EndpointIsCalm(x, d, y, e)
  PROVE  InOrder(q, i, u, y, e)
<1>1. InOrder(p, i, u, y, e)
  BY StillInOrder
<1>2. MayGo(p, i, r)
  BY DEF MayGo
<1>3. ASSUME NEW a \in 1 .. Len(q), NEW b \in 1 .. Len(q), AreNeighbours(q, i, a, b)
      PROVE  Follows(q[a].frame, q[b].frame)
  <2>1. AreNeighbours(p, i, Was(r, a), Was(r, b)) /\ q[a] = p[Was(r, a)] /\ q[b] = p[Was(r, b)]
    BY <1>2, <1>3, NeighboursWereNeighbours
  <2>2. Was(r, a) \in 1 .. Len(p) /\ Was(r, b) \in 1 .. Len(p)
    BY <2>1 DEF AreNeighbours
  <2>3. QED
    BY <1>1, <2>1, <2>2 DEF InOrder
<1>4. ASSUME NEW a \in 1 .. Len(q), IsLastData(q, i, a)
      PROVE  SenderFollows(u, q[a].frame)
  <2>1. IsLastData(p, i, Was(r, a)) /\ q[a] = p[Was(r, a)]
    BY <1>2, <1>4, LastWasLast
  <2>2. Was(r, a) \in 1 .. Len(p)
    BY <2>1 DEF IsLastData
  <2>3. QED
    BY <1>1, <2>1, <2>2 DEF InOrder
<1>5. ASSUME NEW b \in 1 .. Len(q), IsFirstData(q, i, b), Relies(y, e),
             q[b].frame.kind = "Consecutive"
      PROVE  q[b].frame.sn = y.next
  <2>1. IsFirstData(p, i, Was(r, b)) /\ q[b] = p[Was(r, b)]
    BY <1>2, <1>5, FirstWasNext
  <2>2. Was(r, b) \in 1 .. Len(p)
    BY <2>1 DEF IsFirstData
  <2>3. QED
    BY <1>1, <1>5, <2>1, <2>2 DEF InOrder
<1>6. ASSUME NoData(q, i), Relies(y, e), u.state \in InTransfer PROVE u.sn = y.next
  <2>1. NoData(p, i)
    BY <1>6, NoneWasAtMostOne
  <2>2. QED
    BY <1>1, <1>6, <2>1 DEF InOrder
<1>7. QED
  BY <1>3, <1>4, <1>5, <1>6 DEF InOrder

\* The first frame of i's messages goes: to an endpoint that then expects the
\* number after it, or to nobody, and then nobody relies on the next.
LEMMA InOrderWithoutTheFirst ==
  ASSUME NEW p, NEW q, NEW r, Without(p, q, r), NEW i, IsFirstData(p, i, r),
         NEW t, NEW x, NEW d, InOrder(p, i, t, x, d),
         NEW u, TransmitterIsCalm(t, u), NEW y, NEW e,
         Relies(y, e) => p[r].frame.kind # "Single" /\ y.next = NumberAfter(p[r].frame)
  PROVE  InOrder(q, i, u, y, e)
<1>1. MayGo(p, i, r) /\ IsData(p[r], i) /\ r \in 1 .. Len(p)
  BY DEF MayGo, IsFirstData
<1>2. \A a \in 1 .. Len(p) : IsLastData(p, i, a) => SenderFollows(u, p[a].frame)
  BY DEF InOrder, TransmitterIsCalm, SenderFollows
<1>3. ASSUME NEW a \in 1 .. Len(q), NEW b \in 1 .. Len(q), AreNeighbours(q, i, a, b)
      PROVE  Follows(q[a].frame, q[b].frame)
  <2>1. AreNeighbours(p, i, Was(r, a), Was(r, b)) /\ q[a] = p[Was(r, a)] /\ q[b] = p[Was(r, b)]
    BY <1>1, <1>3, NeighboursWereNeighbours
  <2>2. Was(r, a) \in 1 .. Len(p) /\ Was(r, b) \in 1 .. Len(p)
    BY <2>1 DEF AreNeighbours
  <2>3. QED
    BY <2>1, <2>2 DEF InOrder
<1>4. ASSUME NEW a \in 1 .. Len(q), IsLastData(q, i, a)
      PROVE  SenderFollows(u, q[a].frame)
  <2>1. IsLastData(p, i, Was(r, a)) /\ q[a] = p[Was(r, a)]
    BY <1>1, <1>4, LastWasLast
  <2>2. Was(r, a) \in 1 .. Len(p)
    BY <2>1 DEF IsLastData
  <2>3. QED
    BY <1>2, <2>1, <2>2
<1>5. ASSUME NEW b \in 1 .. Len(q), IsFirstData(q, i, b), Relies(y, e),
             q[b].frame.kind = "Consecutive"
      PROVE  q[b].frame.sn = y.next
  <2>1. AreNeighbours(p, i, r, Was(r, b)) /\ q[b] = p[Was(r, b)]
    BY <1>1, <1>5, FirstWasNext
  <2>2. Was(r, b) \in 1 .. Len(p)
    BY <2>1 DEF AreNeighbours
  <2>3. Follows(p[r].frame, q[b].frame)
    BY <1>1, <2>1, <2>2 DEF InOrder
  <2>4. QED
    BY <1>5, <2>3 DEF Follows
<1>6. ASSUME NoData(q, i), Relies(y, e), u.state \in InTransfer PROVE u.sn = y.next
  <2>1. IsLastData(p, i, r)
    BY <1>1, <1>6, NoneWasAtMostOne
  <2>2. SenderFollows(u, p[r].frame)
    BY <1>1, <1>2, <2>1
  <2>3. QED
    BY <1>6, <2>2 DEF SenderFollows
<1>7. QED
  BY <1>3, <1>4, <1>5, <1>6 DEF InOrder

\* A frame comes that belongs to no message of i.
LEMMA InOrderWithAnother ==
  ASSUME NEW p, NEW q, NEW f, Lengthened(p, q, f), NEW i, ~IsData(f, i),
         NEW t, NEW x, NEW d, InOrder(p, i, t, x, d),
         NEW u, TransmitterIsCalm(t, u)
  PROVE  InOrder(q, i, u, x, d)
<1>1. InOrder(p, i, u, x, d)
  BY StillInOrder DEF EndpointIsCalm
<1>2. ASSUME NEW a \in 1 .. Len(q), NEW b \in 1 .. Len(q), AreNeighbours(q, i, a, b)
      PROVE  Follows(q[a].frame, q[b].frame)
  <2>1. AreNeighbours(p, i, a, b) /\ q[a] = p[a] /\ q[b] = p[b]
    BY <1>2, OneFrameMore
  <2>2. a \in 1 .. Len(p) /\ b \in 1 .. Len(p)
    BY <2>1 DEF AreNeighbours
  <2>3. QED
    BY <1>1, <2>1, <2>2 DEF InOrder
<1>3. ASSUME NEW a \in 1 .. Len(q), IsLastData(q, i, a)
      PROVE  SenderFollows(u, q[a].frame)
  <2>1. IsLastData(p, i, a) /\ q[a] = p[a]
    BY <1>3, OneFrameMore
  <2>2. a \in 1 .. Len(p)
    BY <2>1 DEF IsLastData
  <2>3. QED
    BY <1>1, <2>1, <2>2 DEF InOrder
<1>4. ASSUME NEW b \in 1 .. Len(q), IsFirstData(q, i, b), Relies(x, d),
             q[b].frame.kind = "Consecutive"
      PROVE  q[b].frame.sn = x.next
  <2>1. IsFirstData(p, i, b) /\ q[b] = p[b]
    BY <1>4, OneFrameMore
  <2>2. b \in 1 .. Len(p)
    BY <2>1 DEF IsFirstData
  <2>3. QED
    BY <1>1, <1>4, <2>1, <2>2 DEF InOrder
<1>5. ASSUME NoData(q, i), Relies(x, d), u.state \in InTransfer PROVE u.sn = x.next
  BY <1>1, <1>5, OneFrameMore DEF InOrder
<1>6. QED
  BY <1>2, <1>3, <1>4, <1>5 DEF InOrder

\* A frame of i's messages comes, with the number its transmitter had next.
LEMMA InOrderWithTheNext ==
  ASSUME NEW p, NEW q, NEW f, Lengthened(p, q, f), NEW i, IsData(f, i),
         NEW t, NEW x, NEW d, InOrder(p, i, t, x, d),
         f.frame.kind = "Consecutive" => t.state \in InTransfer /\ f.frame.sn = t.sn,
         NEW u, SenderFollows(u, f.frame)
  PROVE  InOrder(q, i, u, x, d)
<1>1. ASSUME NEW a \in 1 .. Len(q), NEW b \in 1 .. Len(q), AreNeighbours(q, i, a, b)
      PROVE  Follows(q[a].frame, q[b].frame)
  <2>1. CASE AreNeighbours(p, i, a, b) /\ q[a] = p[a] /\ q[b] = p[b]
    <3>1. a \in 1 .. Len(p) /\ b \in 1 .. Len(p)
      BY <2>1 DEF AreNeighbours
    <3>2. QED
      BY <2>1, <3>1 DEF InOrder
  <2>2. CASE IsLastData(p, i, a) /\ q[a] = p[a] /\ q[b] = f
    <3>1. a \in 1 .. Len(p)
      BY <2>2 DEF IsLastData
    <3>2. SenderFollows(t, p[a].frame)
      BY <2>2, <3>1 DEF InOrder
    <3>3. QED
      BY <2>2, <3>2 DEF SenderFollows, Follows
  <2>3. QED
    BY <1>1, <2>1, <2>2, OneFrameMore
<1>2. ASSUME NEW a \in 1 .. Len(q), IsLastData(q, i, a)
      PROVE  SenderFollows(u, q[a].frame)
  <2>1. q[a] = f
    BY <1>2, OneFrameMore
  <2>2. QED
    BY <2>1
<1>3. ASSUME NEW b \in 1 .. Len(q), IsFirstData(q, i, b), Relies(x, d),
             q[b].frame.kind = "Consecutive"
      PROVE  q[b].frame.sn = x.next
  <2>1. CASE IsFirstData(p, i, b) /\ q[b] = p[b]
    <3>1. b \in 1 .. Len(p)
      BY <2>1 DEF IsFirstData
    <3>2. QED
      BY <1>3, <2>1, <3>1 DEF InOrder
  <2>2. CASE NoData(p, i) /\ q[b] = f
    BY <1>3, <2>2 DEF InOrder
  <2>3. QED
    BY <1>3, <2>1, <2>2, OneFrameMore
<1>4. ~NoData(q, i)
  BY OneFrameMore
<1>5. QED
  BY <1>1, <1>2, <1>3, <1>4 DEF InOrder

-----------------------------------------------------------------------------
(***************************************************************************)
(* What the steps of the bridge and the testers do to the path             *)
(***************************************************************************)
\* A concatenation begins with its first part, and the rest follows.
LEMMA FramesTaken ==
  ASSUME NEW S, NEW D \in Seq(S), NEW Q \in Seq(S), NEW B \in Seq(S)
  PROVE  /\ (D \o Q) \o B \in Seq(S)
         /\ (D \o (Q \o B)) \o <<>> = (D \o Q) \o B
         /\ (<<>> \o (D \o Q)) \o B = (D \o Q) \o B
<1>1. D \o Q \in Seq(S) /\ Q \o B \in Seq(S)
  BY ConcatProperties
<1>2. (D \o Q) \o B \in Seq(S) /\ D \o (Q \o B) \in Seq(S)
  BY <1>1, ConcatProperties
<1>3. (D \o Q) \o B = D \o (Q \o B)
  BY ConcatAssociative
<1>4. (D \o (Q \o B)) \o <<>> = D \o (Q \o B)
  BY <1>2, ConcatEmptySeq
<1>5. <<>> \o (D \o Q) = D \o Q
  BY <1>1, ConcatEmptySeq
<1>6. QED
  BY <1>2, <1>3, <1>4, <1>5

\* Setting the next frame aside leaves it where it is on the path.
LEMMA FrameSetAside ==
  ASSUME NEW S, NEW D \in Seq(S), NEW F \in Seq(S), F # <<>>
  PROVE  (Append(D, Head(F)) \o Tail(F)) \o <<>> = D \o F
<1>1. /\ Head(F) \in S /\ Tail(F) \in Seq(S) /\ Len(Tail(F)) = Len(F) - 1
      /\ \A j \in 1 .. Len(Tail(F)) : Tail(F)[j] = F[j + 1]
  BY HeadTailProperties
<1>2. Len(F) \in Nat \ {0} /\ Len(D) \in Nat /\ Head(F) = F[1]
  BY LenProperties, EmptySeq
<1>3. /\ Append(D, Head(F)) \in Seq(S)
      /\ Len(Append(D, Head(F))) = Len(D) + 1
      /\ \A j \in 1 .. Len(D) : Append(D, Head(F))[j] = D[j]
      /\ Append(D, Head(F))[Len(D) + 1] = Head(F)
  BY <1>1, <1>2, AppendProperties
<1> DEFINE A == Append(D, Head(F))
           T == Tail(F)
           m == Len(D)
           n == Len(F)
<1>4. /\ A \o T \in Seq(S) /\ Len(A \o T) = m + n
      /\ \A j \in 1 .. m + n : (A \o T)[j] = IF j <= m + 1 THEN A[j] ELSE T[j - (m + 1)]
  <2>1. A \in Seq(S) /\ T \in Seq(S) /\ Len(A) = m + 1 /\ Len(T) = n - 1
    BY <1>1, <1>3
  <2>2. /\ A \o T \in Seq(S) /\ Len(A \o T) = Len(A) + Len(T)
        /\ \A j \in 1 .. Len(A) + Len(T) :
             (A \o T)[j] = IF j <= Len(A) THEN A[j] ELSE T[j - Len(A)]
    BY <2>1, ConcatProperties
  <2>3. (m + 1) + (n - 1) = m + n
    BY <1>2
  <2>4. QED
    BY <2>1, <2>2, <2>3
<1>5. /\ D \o F \in Seq(S) /\ Len(D \o F) = m + n
      /\ \A j \in 1 .. m + n : (D \o F)[j] = IF j <= m THEN D[j] ELSE F[j - m]
  BY ConcatProperties
<1>6. ASSUME NEW j \in 1 .. m + n
      PROVE  (A \o T)[j] = (D \o F)[j]
  <2>1. CASE j <= m
    <3>1. j \in 1 .. Len(D) /\ j <= m + 1
      BY <1>2, <1>6, <2>1
    <3>2. QED
      BY <1>3, <1>4, <1>5, <2>1, <3>1
  <2>2. CASE j = m + 1
    <3>1. ~(j <= m) /\ j <= m + 1 /\ j - m = 1
      BY <1>2, <1>6, <2>2
    <3>2. QED
      BY <1>2, <1>3, <1>4, <1>5, <2>2, <3>1
  <2>3. CASE j > m + 1
    <3>1. ~(j <= m) /\ ~(j <= m + 1) /\ j - (m + 1) \in 1 .. Len(T) /\ (j - (m + 1)) + 1 = j - m
      BY <1>1, <1>2, <1>6, <2>3
    <3>2. T[j - (m + 1)] = F[j - m]
      BY <1>1, <3>1
    <3>3. QED
      BY <1>4, <1>5, <3>1, <3>2
  <2>4. QED
    BY <1>2, <1>6, <2>1, <2>2, <2>3
<1>7. A \o T = D \o F
  BY <1>4, <1>5, <1>6, SeqEqual
<1>8. QED
  BY <1>4, <1>7, ConcatEmptySeq

\* Taking the next frame removes it from behind what is aside.
LEMMA FrameRemoved ==
  ASSUME NEW S, NEW D \in Seq(S), NEW F \in Seq(S), F # <<>>
  PROVE  /\ Without(D \o F, D \o Tail(F), Len(D) + 1)
         /\ (D \o F)[Len(D) + 1] = Head(F)
         /\ \A j \in 1 .. Len(D) : (D \o F)[j] = D[j]
<1>1. /\ Tail(F) \in Seq(S) /\ Len(Tail(F)) = Len(F) - 1
      /\ \A j \in 1 .. Len(Tail(F)) : Tail(F)[j] = F[j + 1]
  BY HeadTailProperties
<1>2. Len(F) \in Nat \ {0} /\ Len(D) \in Nat /\ Head(F) = F[1]
  BY LenProperties, EmptySeq
<1> DEFINE T == Tail(F)
           m == Len(D)
           n == Len(F)
           p == D \o F
           q == D \o T
<1>3. /\ p \in Seq(S) /\ Len(p) = m + n
      /\ \A j \in 1 .. m + n : p[j] = IF j <= m THEN D[j] ELSE F[j - m]
  BY ConcatProperties
<1>4. /\ Len(q) = (m + n) - 1
      /\ \A j \in 1 .. (m + n) - 1 : q[j] = IF j <= m THEN D[j] ELSE T[j - m]
  <2>1. /\ Len(q) = Len(D) + Len(T)
        /\ \A j \in 1 .. Len(D) + Len(T) : q[j] = IF j <= Len(D) THEN D[j] ELSE T[j - Len(D)]
    BY <1>1, ConcatProperties
  <2>2. Len(D) + Len(T) = (m + n) - 1
    BY <1>1, <1>2
  <2>3. QED
    BY <2>1, <2>2
<1>5. /\ m \in Nat /\ n \in Nat \ {0} /\ Head(F) = F[1] /\ Len(T) = n - 1
      /\ \A j \in 1 .. Len(T) : T[j] = F[j + 1]
  BY <1>1, <1>2
<1> HIDE DEF m, n, p, q, T
<1>6. p[m + 1] = Head(F)
  <2>1. m + 1 \in 1 .. m + n /\ ~(m + 1 <= m) /\ (m + 1) - m = 1
    BY <1>5
  <2>2. QED
    BY <1>3, <1>5, <2>1
<1>7. \A j \in 1 .. m : p[j] = D[j] /\ q[j] = D[j]
  <2>1. ASSUME NEW j \in 1 .. m PROVE p[j] = D[j] /\ q[j] = D[j]
    <3>1. j \in 1 .. m + n /\ j \in 1 .. (m + n) - 1 /\ j <= m
      BY <1>5
    <3>2. QED
      BY <1>3, <1>4, <3>1
  <2>2. QED
    BY <2>1
<1>8. ASSUME NEW j \in m + 1 .. Len(q)
      PROVE  q[j] = p[j + 1]
  <2>1. /\ j \in 1 .. (m + n) - 1 /\ ~(j <= m) /\ j + 1 \in 1 .. m + n /\ ~(j + 1 <= m)
        /\ j - m \in 1 .. Len(T) /\ (j - m) + 1 = (j + 1) - m
    BY <1>4, <1>5
  <2>2. T[j - m] = F[(j + 1) - m]
    BY <1>5, <2>1
  <2>3. QED
    BY <1>3, <1>4, <2>1, <2>2
<1>9. /\ Len(p) \in Nat /\ Len(q) = Len(p) - 1 /\ m + 1 \in 1 .. Len(p)
      /\ \A j \in 1 .. (m + 1) - 1 : j \in 1 .. m
  BY <1>3, <1>4, <1>5
<1>10. Without(p, q, m + 1)
  BY <1>7, <1>8, <1>9 DEF Without
<1>11. QED
  BY <1>6, <1>7, <1>10 DEF p, q, m, T

\* A frame sent comes after all others.
LEMMA FrameSent ==
  ASSUME NEW S, NEW P \in Seq(S), NEW B \in Seq(S), NEW f \in S
  PROVE  Lengthened(P \o B, P \o Append(B, f), f)
<1>1. /\ Append(B, f) \in Seq(S) /\ Len(Append(B, f)) = Len(B) + 1
      /\ \A j \in 1 .. Len(B) : Append(B, f)[j] = B[j]
      /\ Append(B, f)[Len(B) + 1] = f
  BY AppendProperties
<1>2. Len(P) \in Nat /\ Len(B) \in Nat
  BY LenProperties
<1> DEFINE A == Append(B, f)
           m == Len(P)
           n == Len(B)
           p == P \o B
           q == P \o A
<1>3. /\ Len(p) = m + n
      /\ \A j \in 1 .. m + n : p[j] = IF j <= m THEN P[j] ELSE B[j - m]
  BY ConcatProperties
<1>4. /\ Len(q) = (m + n) + 1
      /\ \A j \in 1 .. (m + n) + 1 : q[j] = IF j <= m THEN P[j] ELSE A[j - m]
  <2>1. /\ Len(q) = Len(P) + Len(A)
        /\ \A j \in 1 .. Len(P) + Len(A) : q[j] = IF j <= Len(P) THEN P[j] ELSE A[j - Len(P)]
    BY <1>1, ConcatProperties
  <2>2. Len(P) + Len(A) = (m + n) + 1
    BY <1>1, <1>2
  <2>3. QED
    BY <2>1, <2>2
<1>5. m \in Nat /\ n \in Nat /\ A[n + 1] = f /\ \A j \in 1 .. n : A[j] = B[j]
  BY <1>1, <1>2
<1> HIDE DEF m, n, p, q, A
<1>6. q[(m + n) + 1] = f
  <2>1. (m + n) + 1 \in 1 .. (m + n) + 1 /\ ~((m + n) + 1 <= m) /\ ((m + n) + 1) - m = n + 1
    BY <1>5
  <2>2. QED
    BY <1>4, <1>5, <2>1
<1>7. ASSUME NEW j \in 1 .. m + n PROVE q[j] = p[j]
  <2>1. j \in 1 .. (m + n) + 1 /\ (~(j <= m) => j - m \in 1 .. n)
    BY <1>5
  <2>2. QED
    BY <1>3, <1>4, <1>5, <2>1
<1>8. Lengthened(p, q, f)
  BY <1>3, <1>4, <1>5, <1>6, <1>7 DEF Lengthened
<1>9. QED
  BY <1>8 DEF p, q, A

-----------------------------------------------------------------------------
(***************************************************************************)
(* The ends: what the frames are, and what a tester's transmitter and an   *)
(* endpoint of the bridge make of them                                     *)
(***************************************************************************)
DataFrame ==
  [kind : {"Single"}, part : Ids \X Nat]
    \cup [kind : {"First"}, part : Ids \X Nat, size : Nat]
    \cup [kind : {"Consecutive"}, part : Ids \X Nat, sn : Nat]
BusFrame == [on : Ids, frame : DataFrame \cup Flow]

Sending ==
  [state : TransmitState, id : Ids, size : Nat, sent : Nat, sn : Nat, left : Int, waits : Nat]
InProgress ==
  [assembling : {TRUE}, buffer : Seq(Ids \X Nat), remaining : Int, next : Nat, left : Int]
Endpoint == {NotAssembling} \cup InProgress

\* The types of what the order of frames is about.
BridgeTypes ==
  /\ bus \in Seq(BusFrame) /\ queue \in Seq(BusFrame) /\ deferred \in Seq(BusFrame)
  /\ rx \in [Ids -> Endpoint] /\ rx[Functional] = NotAssembling
  /\ sender \in [Ids -> Sending]
  /\ dropped \in [Ids -> BOOLEAN]
  /\ request \in Ids

\* A flow control lets a transmitter go on where it was, or ends its transfer.
LEMMA FlowControlKeepsTheNumber ==
  ASSUME NEW t \in Sending, NEW flow \in Flow
  PROVE  OnFlowControl(t, flow) \in Sending /\ TransmitterIsCalm(t, OnFlowControl(t, flow))
<1>1. CASE t.state # "AwaitingFlowControl"
  <2>1. OnFlowControl(t, flow) = t
    BY <1>1, Zenon DEF OnFlowControl
  <2>2. QED
    BY <2>1 DEF TransmitterIsCalm
<1>2. CASE t.state = "AwaitingFlowControl"
  <2>1. OnFlowControl(t, flow) \in {OnContinueToSend(t, flow.block), OnWait(t), Abort(t)}
    <3>1. CASE flow.status = "Continue"
      BY <1>2, <3>1, Zenon DEF OnFlowControl
    <3>2. CASE flow.status = "Wait"
      BY <1>2, <3>2, Zenon DEF OnFlowControl
    <3>3. CASE flow.status # "Continue" /\ flow.status # "Wait"
      BY <1>2, <3>3, Zenon DEF OnFlowControl
    <3>4. QED
      BY <3>1, <3>2, <3>3
  <2>2. t.state \in InTransfer
    BY <1>2 DEF InTransfer
  <2>3. OnContinueToSend(t, flow.block) \in Sending /\ OnContinueToSend(t, flow.block).sn = t.sn
    <3> DEFINE left == IF flow.block = 0 THEN NoLimit ELSE flow.block
    <3>1. left \in Int
      BY DEF Flow, NoLimit
    <3>2. OnContinueToSend(t, flow.block)
            = [t EXCEPT !.waits = 0, !.state = "SendingBlock", !.left = left]
      BY Zenon DEF OnContinueToSend
    <3> HIDE DEF left
    <3>3. "SendingBlock" \in TransmitState
      BY DEF TransmitState, InTransfer
    <3> DEFINE after == OnContinueToSend(t, flow.block)
    <3>4. after \in Sending
      <4>1. t \in Sending /\ 0 \in Nat
        OBVIOUS
      <4> HIDE DEF after
      <4>2. after = [t EXCEPT !.waits = 0, !.state = "SendingBlock", !.left = left]
        BY <3>2 DEF after
      <4>3. QED
        BY <3>1, <3>3, <4>1, <4>2 DEF Sending
    <3>5. after.sn = t.sn
      BY <3>2 DEF Sending
    <3>6. QED
      BY <3>4, <3>5
  <2>4. Abort(t) \in Sending /\ Abort(t).sn = t.sn
    BY DEF Abort, Sending, TransmitState
  <2>5. OnWait(t) \in Sending /\ OnWait(t).sn = t.sn
    <3> DEFINE waited == [t EXCEPT !.waits = @ + 1]
    <3>1. waited \in Sending /\ waited.sn = t.sn
      BY DEF Sending
    <3>2. OnWait(t) = IF waited.waits > MaxWaits THEN Abort(waited) ELSE waited
      BY DEF OnWait
    <3> HIDE DEF waited
    <3>3. Abort(waited) \in Sending /\ Abort(waited).sn = t.sn
      BY <3>1 DEF Abort, Sending, TransmitState
    <3>4. OnWait(t) = waited \/ OnWait(t) = Abort(waited)
      BY <3>2
    <3>5. QED
      BY <3>1, <3>3, <3>4
  <2>6. QED
    BY <2>1, <2>2, <2>3, <2>4, <2>5 DEF TransmitterIsCalm
<1>3. QED
  BY <1>1, <1>2

\* The flow control an endpoint calls for is one.
LEMMA FlowControlsAreFlow ==
  ASSUME NEW outcome, FlowControlFor(outcome) # <<>>
  PROVE  FlowControlFor(outcome)[1] \in Flow
<1>1. FlowControl("Continue", BlockSize) \in Flow /\ FlowControl("Overflow", BlockSize) \in Flow
  BY IsoTpAssumption DEF FlowControl, Flow, FlowStatus
<1>2. CASE outcome = "SendFlowControl"
  <2>1. FlowControlFor(outcome) = <<FlowControl("Continue", BlockSize)>>
    BY <1>2, Zenon DEF FlowControlFor
  <2>2. QED
    BY <1>1, <2>1
<1>3. CASE outcome = "Refused"
  <2>1. FlowControlFor(outcome) = <<FlowControl("Overflow", BlockSize)>>
    BY <1>3, Zenon DEF FlowControlFor
  <2>2. QED
    BY <1>1, <2>1
<1>4. CASE outcome # "SendFlowControl" /\ outcome # "Refused"
  BY <1>4, Zenon DEF FlowControlFor
<1>5. QED
  BY <1>2, <1>3, <1>4

\* A message begins with a frame that is not consecutive; what is sent next
\* carries on from it.
LEMMA MessagesBeginAnew ==
  ASSUME NEW t \in Sending, NEW i \in Ids, NEW size \in Nat
  PROVE  LET m == [id |-> i, size |-> size]
         IN  /\ Begin(t, m) \in Sending
             /\ OpeningFrame(m) \in DataFrame
             /\ OpeningFrame(m).kind \in {"Single", "First"}
             /\ SenderFollows(Begin(t, m), OpeningFrame(m))
<1> DEFINE m == [id |-> i, size |-> size]
<1>1. m.id = i /\ m.size = size
  OBVIOUS
<1> HIDE DEF m
<1>2. Begin(t, m) \in Sending /\ Begin(t, m).sn = 1
  BY <1>1 DEF Begin, Sending, TransmitState, InTransfer
<1>3. <<i, 0>> \in Ids \X Nat
  OBVIOUS
<1>4. CASE size = 0
  <2>1. OpeningFrame(m) = [kind |-> "Single", part |-> <<i, 0>>]
    BY <1>1, <1>4 DEF OpeningFrame, SingleFrame
  <2>2. OpeningFrame(m) \in [kind : {"Single"}, part : Ids \X Nat]
    BY <1>3, <2>1
  <2>3. OpeningFrame(m) \in DataFrame
    BY <2>2, Zenon DEF DataFrame
  <2>4. OpeningFrame(m).kind = "Single"
    BY <2>1
  <2>5. QED
    BY <1>2, <2>3, <2>4 DEF m, SenderFollows
<1>5. CASE size # 0
  <2>1. OpeningFrame(m) = [kind |-> "First", part |-> <<i, 0>>, size |-> size]
    BY <1>1, <1>5 DEF OpeningFrame, FirstFrame
  <2>2. OpeningFrame(m) \in [kind : {"First"}, part : Ids \X Nat, size : Nat]
    BY <1>3, <2>1
  <2>3. OpeningFrame(m) \in DataFrame
    BY <2>2, Zenon DEF DataFrame
  <2>4. OpeningFrame(m).kind = "First"
    BY <2>1
  <2>5. SenderFollows(Begin(t, m), OpeningFrame(m))
    BY <1>2, <2>4 DEF SenderFollows, NumberAfter
  <2>6. QED
    BY <1>2, <2>3, <2>4, <2>5 DEF m
<1>6. QED
  BY <1>4, <1>5

\* A consecutive frame has the number its transmitter has, which then has the next.
LEMMA MessagesCarryOn ==
  ASSUME NEW t \in Sending, t.state = "SendingBlock"
  PROVE  /\ AfterFrame(t) \in Sending
         /\ NextFrame(t) \in DataFrame
         /\ NextFrame(t).kind = "Consecutive" /\ NextFrame(t).sn = t.sn
         /\ SenderFollows(AfterFrame(t), NextFrame(t))
<1>1. /\ t.sn \in Nat /\ t.sent \in Nat /\ t.left \in Int /\ t.id \in Ids /\ t.sent + 1 \in Nat
      /\ t.sent \in Int /\ t.size \in Nat
  BY DEF Sending
<1>2. NextNumber(t) \in Nat
  BY <1>1, IsoTpAssumption DEF NextNumber
<1> DEFINE number == NextNumber(t)
           left == IF t.left = NoLimit THEN NoLimit ELSE t.left - 1
           state == IF t.sent + 1 >= t.size THEN "Complete" ELSE t.state
<1>3. left \in Int /\ state \in TransmitState
  BY <1>1 DEF NoLimit, TransmitState, InTransfer
<1>4. AfterFrame(t) = [t EXCEPT !.sent = t.sent + 1, !.sn = number, !.left = left, !.state = state]
  BY DEF AfterFrame, Sending
<1>5. number \in Nat /\ number = (t.sn + 1) % Modulus
  BY <1>2 DEF NextNumber
<1> HIDE DEF number, left, state
<1>6. AfterFrame(t) \in Sending /\ AfterFrame(t).sn = number
  BY <1>1, <1>3, <1>4, <1>5 DEF Sending
<1>7. NextFrame(t) = [kind |-> "Consecutive", part |-> <<t.id, t.sent + 1>>, sn |-> t.sn]
  BY DEF NextFrame, ConsecutiveFrame
<1>8. NextFrame(t) \in [kind : {"Consecutive"}, part : Ids \X Nat, sn : Nat]
  BY <1>1, <1>7
<1>9. NextFrame(t) \in DataFrame
  BY <1>8, Zenon DEF DataFrame
<1>10. NextFrame(t).kind = "Consecutive" /\ NextFrame(t).sn = t.sn
  BY <1>7
<1>11. SenderFollows(AfterFrame(t), NextFrame(t))
  BY <1>5, <1>6, <1>10 DEF SenderFollows, NumberAfter
<1>12. QED
  BY <1>6, <1>9, <1>10, <1>11

\* A transmitter that waits for the next block, or gives up, sends nothing else.
LEMMA PausesAreCalm ==
  ASSUME NEW t \in Sending
  PROVE  /\ Abort(t) \in Sending /\ TransmitterIsCalm(t, Abort(t))
         /\ t.state = "SendingBlock" =>
              AwaitNextBlock(t) \in Sending /\ TransmitterIsCalm(t, AwaitNextBlock(t))
<1>1. Abort(t) \in Sending /\ Abort(t).state = "Aborted"
  BY DEF Abort, Sending, TransmitState
<1>2. AwaitNextBlock(t) \in Sending /\ AwaitNextBlock(t).sn = t.sn
  BY DEF AwaitNextBlock, Sending, TransmitState, InTransfer
<1>3. QED
  BY <1>1, <1>2 DEF TransmitterIsCalm, InTransfer

\* The message in progress after its next part.
LEMMA TakingExpectsTheNumberAfter ==
  ASSUME NEW x \in InProgress, NEW f, f.part \in Ids \X Nat
  PROVE  /\ TakeNext(x, f).pending \in Endpoint
         /\ TakeNext(x, f).outcome = "Completed" => TakeNext(x, f).pending = NotAssembling
         /\ TakeNext(x, f).outcome # "Completed" =>
              TakeNext(x, f).pending.next = (x.next + 1) % Modulus
<1> DEFINE extended == Extended(x, f)
           buffer == Append(x.buffer, f.part)
           remaining == x.remaining - 1
           next == (x.next + 1) % Modulus
           left == NextAllowance(x.left)
<1>1. /\ x.buffer \in Seq(Ids \X Nat) /\ x.remaining \in Int /\ x.next \in Nat /\ x.left \in Int
  BY DEF InProgress
<1>2. left \in Int
  <2>1. BlockAllowance \in Int /\ NoLimit \in Int
    BY IsoTpAssumption DEF BlockAllowance, NoLimit
  <2>2. left \in {NoLimit, BlockAllowance, x.left - 1}
    <3>1. CASE x.left = NoLimit
      BY <3>1, Zenon DEF NextAllowance
    <3>2. CASE x.left \in 0 .. 1 /\ x.left # NoLimit
      BY <3>2, Zenon DEF NextAllowance
    <3>3. CASE x.left \notin 0 .. 1 /\ x.left # NoLimit
      BY <3>3, Zenon DEF NextAllowance
    <3>4. QED
      BY <3>1, <3>2, <3>3
  <2>3. x.left - 1 \in Int
    BY <1>1
  <2> HIDE DEF left
  <2>4. QED
    BY <2>1, <2>2, <2>3
<1>3. buffer \in Seq(Ids \X Nat) /\ remaining \in Int
  BY <1>1
<1>4. next \in Nat
  BY <1>1, IsoTpAssumption
<1>5. extended = [x EXCEPT !.buffer = buffer, !.remaining = remaining, !.next = next, !.left = left]
  BY DEF Extended
<1> HIDE DEF buffer, remaining, next, left, extended
<1>6. extended = [assembling |-> TRUE, buffer |-> buffer, remaining |-> remaining,
                  next |-> next, left |-> left]
  BY <1>5 DEF InProgress
<1>7. extended \in InProgress /\ extended.next = next
  BY <1>2, <1>3, <1>4, <1>6 DEF InProgress
<1>8. extended \in Endpoint
  BY <1>7, Zenon DEF Endpoint
<1>9. CASE extended.remaining = 0
  <2>1. TakeNext(x, f) = Completed(extended.buffer)
    BY <1>9, Zenon DEF TakeNext, extended
  <2>2. TakeNext(x, f).pending = NotAssembling /\ TakeNext(x, f).outcome = "Completed"
    BY <2>1 DEF Completed
  <2>3. QED
    BY <2>2 DEF Endpoint
<1>10. CASE extended.remaining # 0
  <2>1. TakeNext(x, f) = Owing(extended) \/ TakeNext(x, f) = Ignored(extended)
    <3>1. CASE x.left \in 0 .. 1
      BY <1>10, <3>1, Zenon DEF TakeNext, extended
    <3>2. CASE x.left \notin 0 .. 1
      BY <1>10, <3>2, Zenon DEF TakeNext, extended
    <3>3. QED
      BY <3>1, <3>2
  <2>2. TakeNext(x, f).pending = extended /\ TakeNext(x, f).outcome # "Completed"
    BY <2>1 DEF Owing, Ignored
  <2>3. QED
    BY <1>7, <1>8, <2>2 DEF next
<1>11. QED
  BY <1>9, <1>10

\* What an endpoint makes of a frame of a message: it is done, or expects the
\* number after it.
Expects(taken, f) ==
  /\ taken.pending \in Endpoint
  /\ taken.outcome = "Completed" => ~taken.pending.assembling
  /\ taken.pending.assembling => f.kind # "Single" /\ taken.pending.next = NumberAfter(f)

\* A frame that an endpoint takes no further.
LEMMA DoneExpectsNothing ==
  ASSUME NEW taken, NEW f, taken.pending = NotAssembling
  PROVE  Expects(taken, f)
<1>1. NotAssembling.assembling = FALSE /\ NotAssembling \in Endpoint
  BY DEF NotAssembling, Endpoint
<1>2. ~taken.pending.assembling
  BY <1>1, Zenon
<1>3. QED
  BY <1>1, <1>2, Zenon DEF Expects

LEMMA FrameIsTakenOrDone ==
  ASSUME NEW x \in Endpoint, NEW f \in DataFrame
  PROVE  Expects(OnFrame(x, f), f)
<1> DEFINE taken == OnFrame(x, f)
<1>1. CASE f.kind = "Single"
  <2>1. taken = Completed(<<f.part>>)
    BY <1>1, Zenon DEF OnFrame
  <2>2. taken.pending = NotAssembling
    BY <2>1 DEF Completed
  <2>3. QED
    BY <2>2, DoneExpectsNothing
<1>2. CASE f.kind = "First"
  <2>1. taken = OnFirstFrame(x, f)
    BY <1>2, Zenon DEF OnFrame
  <2>2. CASE f.size > BufferSize
    <3>1. taken = Finished("Refused")
      BY <2>1, <2>2, Zenon DEF OnFirstFrame
    <3>2. taken.pending = NotAssembling
      BY <3>1 DEF Finished
    <3>3. QED
      BY <3>2, DoneExpectsNothing
  <2>3. CASE ~(f.size > BufferSize)
    <3>1. taken = Owing(Started(f))
      BY <2>1, <2>3, Zenon DEF OnFirstFrame
    <3>2. taken.pending = Started(f) /\ taken.outcome # "Completed"
      BY <3>1 DEF Owing
    <3>3. f.part \in Ids \X Nat /\ f.size \in Nat
      BY <1>2 DEF DataFrame
    <3>4. BlockAllowance \in Int
      BY IsoTpAssumption DEF BlockAllowance, NoLimit
    <3>5. <<f.part>> \in Seq(Ids \X Nat)
      BY <3>3
    <3>6. Started(f) \in InProgress /\ Started(f).next = 1
      BY <3>3, <3>4, <3>5 DEF Started, InProgress
    <3>7. Started(f) \in Endpoint
      BY <3>6, Zenon DEF Endpoint
    <3>8. f.kind # "Single" /\ NumberAfter(f) = 1
      BY <1>2 DEF NumberAfter
    <3>9. QED
      BY <3>2, <3>6, <3>7, <3>8 DEF Expects
  <2>4. QED
    BY <2>2, <2>3
<1>3. CASE f.kind = "Consecutive"
  <2>1. taken = OnConsecutiveFrame(x, f)
    BY <1>3, Zenon DEF OnFrame
  <2>2. CASE x = NotAssembling
    <3>1. ~x.assembling
      BY <2>2 DEF NotAssembling
    <3>2. taken = Ignored(x)
      BY <2>1, <3>1, Zenon DEF OnConsecutiveFrame
    <3>3. taken.pending = NotAssembling
      BY <2>2, <3>2 DEF Ignored
    <3>4. QED
      BY <3>3, DoneExpectsNothing
  <2>3. CASE x \in InProgress
    <3>1. x.assembling
      BY <2>3 DEF InProgress
    <3>2. CASE f.sn # x.next
      <4>1. taken = Finished("Aborted")
        BY <2>1, <3>1, <3>2, Zenon DEF OnConsecutiveFrame
      <4>2. taken.pending = NotAssembling
        BY <4>1 DEF Finished
      <4>3. QED
        BY <4>2, DoneExpectsNothing
    <3>3. CASE f.sn = x.next
      <4>1. taken = TakeNext(x, f)
        BY <2>1, <3>1, <3>3, Zenon DEF OnConsecutiveFrame
      <4>2. f.part \in Ids \X Nat
        BY <1>3 DEF DataFrame
      <4>3. f.kind # "Single" /\ NumberAfter(f) = (x.next + 1) % Modulus
        BY <1>3, <3>3 DEF NumberAfter
      <4> HIDE DEF taken
      <4>4. /\ taken.pending \in Endpoint
            /\ taken.outcome = "Completed" => taken.pending = NotAssembling
            /\ taken.outcome # "Completed" => taken.pending.next = NumberAfter(f)
        BY <2>3, <4>1, <4>2, <4>3, TakingExpectsTheNumberAfter
      <4>5. CASE taken.outcome = "Completed"
        BY <4>4, <4>5, DoneExpectsNothing DEF taken
      <4>6. CASE taken.outcome # "Completed"
        BY <4>3, <4>4, <4>6, Zenon DEF Expects, taken
      <4>7. QED
        BY <4>5, <4>6
    <3>4. QED
      BY <3>2, <3>3
  <2>4. QED
    BY <2>2, <2>3 DEF Endpoint
<1>4. f.kind \in {"Single", "First", "Consecutive"}
  BY DEF DataFrame
<1>5. QED
  BY <1>1, <1>2, <1>3, <1>4

\* A flow control is nothing to an endpoint, and neither a frame of a message
\* that takes more than one is to that of broadcasts.
LEMMA FlowIsIgnored ==
  ASSUME NEW x, NEW f \in Flow
  PROVE  OnFrame(x, f) = Ignored(x) /\ OnBroadcastFrame(x, f) = Ignored(x)
<1>1. f.kind = "FlowControl"
  BY DEF Flow
<1>2. OnFrame(x, f) = Ignored(x)
  BY <1>1, Zenon DEF OnFrame
<1>3. QED
  BY <1>1, <1>2, Zenon DEF OnBroadcastFrame

LEMMA BroadcastsAreNotAssembled ==
  ASSUME NEW f \in DataFrame
  PROVE  OnBroadcastFrame(NotAssembling, f).pending = NotAssembling
<1>1. NotAssembling.assembling = FALSE
  BY DEF NotAssembling
<1>2. CASE f.kind = "First"
  <2>1. OnBroadcastFrame(NotAssembling, f) = Ignored(NotAssembling)
    BY <1>2, Zenon DEF OnBroadcastFrame
  <2>2. QED
    BY <2>1 DEF Ignored
<1>3. CASE f.kind = "Single"
  <2>1. OnBroadcastFrame(NotAssembling, f) = Completed(<<f.part>>)
    BY <1>3, Zenon DEF OnBroadcastFrame, OnFrame
  <2>2. QED
    BY <2>1 DEF Completed
<1>4. CASE f.kind = "Consecutive"
  <2>1. OnBroadcastFrame(NotAssembling, f) = OnConsecutiveFrame(NotAssembling, f)
    BY <1>4, Zenon DEF OnBroadcastFrame, OnFrame
  <2>2. OnConsecutiveFrame(NotAssembling, f) = Ignored(NotAssembling)
    BY <1>1, Zenon DEF OnConsecutiveFrame
  <2>3. QED
    BY <2>1, <2>2 DEF Ignored
<1>5. f.kind \in {"Single", "First", "Consecutive"}
  BY DEF DataFrame
<1>6. QED
  BY <1>2, <1>3, <1>4, <1>5

-----------------------------------------------------------------------------
(***************************************************************************)
(* What a step may do to the frames under way                              *)
(***************************************************************************)
\* No transmitter goes on by itself.
TransmittersAreCalm == \A i \in Ids : TransmitterIsCalm(sender[i], sender'[i])
EndpointsAreCalm == \A i \in Ids : EndpointIsCalm(rx[i], dropped[i], rx'[i], dropped'[i])

LEMMA FramesStay ==
  ASSUME FramesInOrder, Path' = Path, TransmittersAreCalm, EndpointsAreCalm
  PROVE  FramesInOrder'
<1> SUFFICES ASSUME NEW i \in Ids
             PROVE  InOrder(Path', i, sender'[i], rx'[i], dropped'[i])
  BY DEF FramesInOrder
<1>1. InOrder(Path, i, sender[i], rx[i], dropped[i])
  BY DEF FramesInOrder
<1>2. /\ TransmitterIsCalm(sender[i], sender'[i])
      /\ EndpointIsCalm(rx[i], dropped[i], rx'[i], dropped'[i])
  BY DEF TransmittersAreCalm, EndpointsAreCalm
<1>3. InOrder(Path, i, sender'[i], rx'[i], dropped'[i])
  BY <1>1, <1>2, StillInOrder
<1>4. QED
  BY <1>3

\* A frame is taken off the path: for the endpoint it belongs to it is the
\* first, and what is relied on after it is the number after it.
LEMMA FrameGoes ==
  ASSUME FramesInOrder, TransmittersAreCalm, NEW r, Without(Path, Path', r),
         \A i \in Ids :
           IF IsData(Path[r], i)
           THEN /\ IsFirstData(Path, i, r)
                /\ Relies(rx'[i], dropped'[i]) =>
                     /\ Path[r].frame.kind # "Single"
                     /\ rx'[i].next = NumberAfter(Path[r].frame)
           ELSE EndpointIsCalm(rx[i], dropped[i], rx'[i], dropped'[i])
  PROVE  FramesInOrder'
<1> SUFFICES ASSUME NEW i \in Ids
             PROVE  InOrder(Path', i, sender'[i], rx'[i], dropped'[i])
  BY DEF FramesInOrder
<1>1. InOrder(Path, i, sender[i], rx[i], dropped[i]) /\ TransmitterIsCalm(sender[i], sender'[i])
  BY DEF FramesInOrder, TransmittersAreCalm
<1>2. CASE IsData(Path[r], i)
  <2>1. /\ IsFirstData(Path, i, r)
        /\ Relies(rx'[i], dropped'[i]) =>
             /\ Path[r].frame.kind # "Single"
             /\ rx'[i].next = NumberAfter(Path[r].frame)
    BY <1>2
  <2>2. QED
    BY <1>1, <2>1, InOrderWithoutTheFirst
<1>3. CASE ~IsData(Path[r], i)
  <2>1. EndpointIsCalm(rx[i], dropped[i], rx'[i], dropped'[i])
    BY <1>3
  <2>2. QED
    BY <1>1, <1>3, <2>1, InOrderWithoutAnother
<1>4. QED
  BY <1>2, <1>3

\* A frame is sent: by the transmitter whose turn it is, with its number.
LEMMA FrameComes ==
  ASSUME FramesInOrder, UNCHANGED <<rx, dropped>>, NEW f, Lengthened(Path, Path', f),
         \A i \in Ids :
           IF IsData(f, i)
           THEN /\ f.frame.kind = "Consecutive" =>
                     sender[i].state \in InTransfer /\ f.frame.sn = sender[i].sn
                /\ SenderFollows(sender'[i], f.frame)
           ELSE TransmitterIsCalm(sender[i], sender'[i])
  PROVE  FramesInOrder'
<1> SUFFICES ASSUME NEW i \in Ids
             PROVE  InOrder(Path', i, sender'[i], rx[i], dropped[i])
  BY DEF FramesInOrder
<1>1. InOrder(Path, i, sender[i], rx[i], dropped[i])
  BY DEF FramesInOrder
<1>2. CASE IsData(f, i)
  <2>1. /\ f.frame.kind = "Consecutive" =>
             sender[i].state \in InTransfer /\ f.frame.sn = sender[i].sn
        /\ SenderFollows(sender'[i], f.frame)
    BY <1>2
  <2>2. QED
    BY <1>1, <1>2, <2>1, InOrderWithTheNext
<1>3. CASE ~IsData(f, i)
  <2>1. TransmitterIsCalm(sender[i], sender'[i])
    BY <1>3
  <2>2. QED
    BY <1>1, <1>3, <2>1, InOrderWithAnother
<1>4. QED
  BY <1>2, <1>3

\* Ends that are left alone are calm.
LEMMA LeftAloneIsCalm ==
  /\ UNCHANGED sender => TransmittersAreCalm
  /\ UNCHANGED <<rx, dropped>> => EndpointsAreCalm
BY DEF TransmittersAreCalm, EndpointsAreCalm, TransmitterIsCalm, EndpointIsCalm

-----------------------------------------------------------------------------
(***************************************************************************)
(* Polling, and the frames the bridge looks at                             *)
(***************************************************************************)
LEMMA PollKeepsTheOrder ==
  ASSUME TaskInv, BridgeTypes, FramesInOrder, Poll
  PROVE  BridgeTypes' /\ FramesInOrder'
<1>1. /\ queue' = queue \o bus /\ bus' = <<>> /\ UNCHANGED <<deferred, request, dropped, sender>>
      /\ rx' = IF stale THEN [i \in Ids |-> NotAssembling] ELSE rx
  BY DEF Poll, FillInbound, RebuildEndpointsIfStale, testerVars
<1>2. bus \in Seq(BusFrame) /\ queue \in Seq(BusFrame) /\ deferred \in Seq(BusFrame)
  BY DEF BridgeTypes
<1>3. queue' \in Seq(BusFrame) /\ bus' \in Seq(BusFrame)
  BY <1>1, <1>2, ConcatProperties, EmptySeq
<1>4. Functional \in Ids /\ NotAssembling \in Endpoint /\ NotAssembling.assembling = FALSE
  BY BridgeAssumption DEF Endpoint, NotAssembling
<1>5. rx' \in [Ids -> Endpoint] /\ rx'[Functional] = NotAssembling
  <2>1. rx \in [Ids -> Endpoint] /\ rx[Functional] = NotAssembling
    BY DEF BridgeTypes
  <2>2. QED
    BY <1>1, <1>4, <2>1
<1>6. BridgeTypes'
  BY <1>1, <1>3, <1>5 DEF BridgeTypes
<1>7. Path' = Path
  BY <1>1, <1>2, FramesTaken DEF Path
<1>8. EndpointsAreCalm
  <2>1. CASE rx' = rx
    BY <1>1, <2>1, LeftAloneIsCalm
  <2>2. CASE rx' = [i \in Ids |-> NotAssembling]
    <3>1. \A i \in Ids : rx'[i].assembling = FALSE
      BY <1>4, <2>2
    <3>2. \A i \in Ids : ~Relies(rx'[i], dropped'[i])
      BY <3>1, Zenon DEF Relies
    <3>3. QED
      BY <3>2 DEF EndpointsAreCalm, EndpointIsCalm
  <2>3. QED
    BY <1>1, <2>1, <2>2
<1>9. FramesInOrder'
  BY <1>1, <1>7, <1>8, LeftAloneIsCalm, FramesStay
<1>10. QED
  BY <1>6, <1>9

\* The frame the bridge looks at next is the first of the path.
LEMMA HeadIsFirst ==
  ASSUME TaskInv, BridgeTypes, pc = "Handling", queue' = Tail(queue), UNCHANGED <<deferred, bus>>
  PROVE  /\ queue' \in Seq(BusFrame) /\ Head(queue) \in BusFrame
         /\ Without(Path, Path', 1) /\ Path[1] = Head(queue)
         /\ \A i \in Ids : IsData(Head(queue), i) => IsFirstData(Path, i, 1)
<1>1. deferred = <<>> /\ queue # <<>> /\ queue \in Seq(BusFrame) /\ bus \in Seq(BusFrame)
  BY DEF TaskInv, BridgeTypes
<1>2. Tail(queue) \in Seq(BusFrame) /\ Head(queue) \in BusFrame /\ Len(Tail(queue)) = Len(queue) - 1
      /\ \A j \in 1 .. Len(Tail(queue)) : Tail(queue)[j] = queue[j + 1]
  BY <1>1, HeadTailProperties
<1>3. Path = queue \o bus /\ Path' = Tail(queue) \o bus
  BY <1>1, <1>2, ConcatEmptySeq DEF Path
<1> DEFINE m == Len(queue)
           n == Len(bus)
           T == Tail(queue)
<1>4. m \in Nat \ {0} /\ n \in Nat /\ Head(queue) = queue[1]
  BY <1>1, LenProperties, EmptySeq
<1>5. /\ Len(Path) = m + n
      /\ \A j \in 1 .. m + n : Path[j] = IF j <= m THEN queue[j] ELSE bus[j - m]
  BY <1>1, <1>3, ConcatProperties
<1>6. /\ Len(Path') = (m - 1) + n
      /\ \A j \in 1 .. (m - 1) + n : Path'[j] = IF j <= m - 1 THEN T[j] ELSE bus[j - (m - 1)]
  BY <1>1, <1>2, <1>3, ConcatProperties
<1>7. \A j \in 1 .. m - 1 : T[j] = queue[j + 1]
  BY <1>2
<1> HIDE DEF m, n, T
<1>8. Path[1] = Head(queue)
  <2>1. 1 \in 1 .. m + n /\ 1 <= m
    BY <1>4
  <2>2. QED
    BY <1>4, <1>5, <2>1
<1>9. ASSUME NEW j \in 1 .. Len(Path') PROVE Path'[j] = Path[j + 1]
  <2>1. CASE j <= m - 1
    <3>1. j \in 1 .. m - 1 /\ j \in 1 .. (m - 1) + n /\ j + 1 \in 1 .. m + n /\ j + 1 <= m
      BY <1>4, <1>6, <2>1
    <3>2. QED
      BY <1>5, <1>6, <1>7, <2>1, <3>1
  <2>2. CASE ~(j <= m - 1)
    <3>1. /\ j \in 1 .. (m - 1) + n /\ j + 1 \in 1 .. m + n /\ ~(j + 1 <= m)
          /\ j - (m - 1) = (j + 1) - m
      BY <1>4, <1>6, <2>2
    <3>2. QED
      BY <1>5, <1>6, <2>2, <3>1
  <2>3. QED
    BY <2>1, <2>2
<1>10. /\ Len(Path) \in Nat /\ Len(Path') = Len(Path) - 1 /\ 1 \in 1 .. Len(Path)
       /\ \A j \in 1 .. 1 - 1 : FALSE
  BY <1>4, <1>5, <1>6
<1>11. Without(Path, Path', 1)
  BY <1>9, <1>10 DEF Without
<1>12. \A i \in Ids : IsData(Head(queue), i) => IsFirstData(Path, i, 1)
  BY <1>8, <1>10 DEF IsFirstData
<1>13. QED
  BY <1>1, <1>2, <1>8, <1>11, <1>12

LEMMA DropKeepsTheOrder ==
  ASSUME TaskInv, BridgeTypes, FramesInOrder, DropWhenStopped
  PROVE  BridgeTypes' /\ FramesInOrder'
<1>1. /\ pc = "Handling" /\ queue' = Tail(queue)
      /\ dropped' = [dropped EXCEPT ![On1] = TRUE]
      /\ UNCHANGED <<bus, deferred, rx, request, sender>>
  BY DEF DropWhenStopped, testerVars
<1>2. /\ queue' \in Seq(BusFrame) /\ Head(queue) \in BusFrame
      /\ Without(Path, Path', 1) /\ Path[1] = Head(queue)
      /\ \A i \in Ids : IsData(Head(queue), i) => IsFirstData(Path, i, 1)
  BY <1>1, HeadIsFirst
<1>3. On1 \in Ids /\ dropped \in [Ids -> BOOLEAN]
  BY <1>2 DEF On1, BusFrame, BridgeTypes
<1>4. dropped' \in [Ids -> BOOLEAN] /\ dropped'[On1] = TRUE
      /\ \A i \in Ids : i # On1 => dropped'[i] = dropped[i]
  BY <1>1, <1>3
<1>5. BridgeTypes'
  BY <1>1, <1>2, <1>4 DEF BridgeTypes
<1>6. ASSUME NEW i \in Ids
      PROVE  IF IsData(Path[1], i)
             THEN IsFirstData(Path, i, 1) /\ ~Relies(rx'[i], dropped'[i])
             ELSE EndpointIsCalm(rx[i], dropped[i], rx'[i], dropped'[i])
  <2>1. CASE i = On1
    <3>1. ~Relies(rx'[i], dropped'[i])
      BY <1>4, <2>1, Zenon DEF Relies
    <3>2. QED
      BY <1>2, <3>1 DEF EndpointIsCalm
  <2>2. CASE i # On1
    <3>1. ~IsData(Path[1], i)
      BY <1>2, <2>2 DEF IsData, On1
    <3>2. QED
      BY <1>1, <1>4, <2>2, <3>1 DEF EndpointIsCalm
  <2>3. QED
    BY <2>1, <2>2
<1>7. FramesInOrder'
  BY <1>1, <1>2, <1>6, LeftAloneIsCalm, FrameGoes
<1>8. QED
  BY <1>5, <1>7

\* What the endpoint of the frame's identifier makes of the frame.
LEMMA FedIsExpected ==
  ASSUME BridgeTypes, Head(queue) \in BusFrame
  PROVE  /\ On1 \in Ids
         /\ Fed.pending \in Endpoint
         /\ On1 = Functional => Fed.pending = NotAssembling
         /\ IsData(Head(queue), On1) /\ Fed.pending.assembling =>
              Frame1.kind # "Single" /\ Fed.pending.next = NumberAfter(Frame1)
         /\ ~IsData(Head(queue), On1) => Fed.pending = rx[On1]
<1>1. On1 \in Ids /\ Frame1 \in DataFrame \cup Flow
  BY DEF On1, Frame1, BusFrame
<1>2. /\ rx[On1] \in Endpoint /\ rx[Functional] = NotAssembling
      /\ Broadcast[On1] = (On1 = Functional)
  BY <1>1 DEF BridgeTypes, Broadcast
<1>3. IsData(Head(queue), On1) <=> Frame1.kind # "FlowControl"
  BY DEF IsData, On1, Frame1
<1>4. CASE Frame1 \in Flow
  <2>1. Frame1.kind = "FlowControl"
    BY <1>4 DEF Flow
  <2>2. Fed = Ignored(rx[On1])
    BY <1>4, FlowIsIgnored, Zenon DEF Fed
  <2>3. Fed.pending = rx[On1]
    BY <2>2 DEF Ignored
  <2>4. QED
    BY <1>1, <1>2, <1>3, <2>1, <2>3
<1>5. CASE Frame1 \in DataFrame
  <2>1. Frame1.kind # "FlowControl"
    BY <1>5 DEF DataFrame
  <2>2. CASE On1 = Functional
    <3>1. Fed = OnBroadcastFrame(NotAssembling, Frame1)
      BY <1>2, <2>2, Zenon DEF Fed
    <3>2. Fed.pending = NotAssembling
      BY <1>5, <3>1, BroadcastsAreNotAssembled
    <3>3. NotAssembling.assembling = FALSE /\ NotAssembling \in Endpoint
      BY DEF NotAssembling, Endpoint
    <3>4. ~Fed.pending.assembling
      BY <3>2, <3>3, Zenon
    <3>5. QED
      BY <1>1, <1>3, <2>1, <3>2, <3>3, <3>4, Zenon
  <2>3. CASE On1 # Functional
    <3>1. Fed = OnFrame(rx[On1], Frame1)
      BY <1>2, <2>3, Zenon DEF Fed
    <3>2. Expects(Fed, Frame1)
      BY <1>2, <1>5, <3>1, FrameIsTakenOrDone
    <3>3. QED
      BY <1>1, <1>3, <2>1, <2>3, <3>2, Zenon DEF Expects
  <2>4. QED
    BY <2>2, <2>3
<1>6. QED
  BY <1>1, <1>4, <1>5

\* The endpoint of a frame takes it; what the bridge dropped of its message is
\* forgotten, if at all.
LEMMA TakenByItsEndpoint ==
  ASSUME TaskInv, BridgeTypes, FramesInOrder, TransmittersAreCalm,
         pc = "Handling", queue' = Tail(queue), UNCHANGED <<deferred, bus>>,
         rx' = [rx EXCEPT ![On1] = Fed.pending],
         NEW kind, dropped' = [dropped EXCEPT ![On1] = @ /\ Frame1.kind # kind],
         kind # "FlowControl"
  PROVE  /\ queue' \in Seq(BusFrame) /\ On1 \in Ids
         /\ rx' \in [Ids -> Endpoint] /\ rx'[Functional] = NotAssembling
         /\ dropped' \in [Ids -> BOOLEAN]
         /\ FramesInOrder'
<1>1. /\ queue' \in Seq(BusFrame) /\ Head(queue) \in BusFrame
      /\ Without(Path, Path', 1) /\ Path[1] = Head(queue)
      /\ \A i \in Ids : IsData(Head(queue), i) => IsFirstData(Path, i, 1)
  BY HeadIsFirst
<1>2. /\ On1 \in Ids /\ Fed.pending \in Endpoint
      /\ On1 = Functional => Fed.pending = NotAssembling
      /\ IsData(Head(queue), On1) /\ Fed.pending.assembling =>
           Frame1.kind # "Single" /\ Fed.pending.next = NumberAfter(Frame1)
      /\ ~IsData(Head(queue), On1) => Fed.pending = rx[On1]
  BY <1>1, FedIsExpected
<1>3. rx \in [Ids -> Endpoint] /\ rx[Functional] = NotAssembling /\ dropped \in [Ids -> BOOLEAN]
      /\ Functional \in Ids
  BY BridgeAssumption DEF BridgeTypes
<1> DEFINE fed == Fed.pending
           flag == dropped[On1] /\ Frame1.kind # kind
<1>4. fed \in Endpoint /\ flag \in BOOLEAN /\ (On1 = Functional => fed = NotAssembling)
  BY <1>2
<1>5. rx' = [rx EXCEPT ![On1] = fed] /\ dropped' = [dropped EXCEPT ![On1] = flag]
  BY <1>2, <1>3
<1> HIDE DEF fed, flag
<1>6. /\ rx' \in [Ids -> Endpoint] /\ rx'[Functional] = NotAssembling /\ rx'[On1] = fed
      /\ \A i \in Ids : i # On1 => rx'[i] = rx[i]
  BY <1>2, <1>3, <1>4, <1>5
<1>7. /\ dropped' \in [Ids -> BOOLEAN] /\ dropped'[On1] = flag
      /\ \A i \in Ids : i # On1 => dropped'[i] = dropped[i]
  BY <1>2, <1>3, <1>4, <1>5
<1>8. ASSUME NEW i \in Ids
      PROVE  IF IsData(Path[1], i)
             THEN /\ IsFirstData(Path, i, 1)
                  /\ Relies(rx'[i], dropped'[i]) =>
                       /\ Path[1].frame.kind # "Single"
                       /\ rx'[i].next = NumberAfter(Path[1].frame)
             ELSE EndpointIsCalm(rx[i], dropped[i], rx'[i], dropped'[i])
  <2>1. CASE i # On1
    <3>1. ~IsData(Path[1], i)
      BY <1>1, <2>1 DEF IsData, On1
    <3>2. QED
      BY <1>6, <1>7, <2>1, <3>1 DEF EndpointIsCalm
  <2>2. CASE i = On1 /\ IsData(Path[1], i)
    <3>1. IsFirstData(Path, i, 1)
      BY <1>1, <2>2
    <3>2. Relies(rx'[i], dropped'[i]) => Fed.pending.assembling
      BY <1>6, <2>2, Zenon DEF Relies, fed
    <3>3. Path[1].frame = Frame1
      BY <1>1 DEF Frame1
    <3>4. Fed.pending.assembling =>
            Path[1].frame.kind # "Single" /\ rx'[i].next = NumberAfter(Path[1].frame)
      BY <1>1, <1>2, <1>6, <2>2, <3>3 DEF fed
    <3>5. QED
      BY <2>2, <3>1, <3>2, <3>4
  <2>3. CASE i = On1 /\ ~IsData(Path[1], i)
    <3>1. Frame1.kind = "FlowControl" /\ rx'[i] = rx[i]
      BY <1>1, <1>2, <1>6, <2>3 DEF IsData, On1, Frame1, fed
    <3>2. dropped[i] => dropped'[i]
      BY <1>7, <2>3, <3>1, Zenon DEF flag
    <3>3. Relies(rx'[i], dropped'[i]) => Relies(rx[i], dropped[i])
      BY <3>1, <3>2, Zenon DEF Relies
    <3>4. QED
      BY <2>3, <3>1, <3>3 DEF EndpointIsCalm
  <2>4. QED
    BY <2>1, <2>2, <2>3
<1>9. FramesInOrder'
  BY <1>1, <1>8, FrameGoes
<1>10. QED
  BY <1>1, <1>2, <1>6, <1>7, <1>9

LEMMA FeedingKeepsTheOrder ==
  ASSUME TaskInv, BridgeTypes, FramesInOrder, FeedEndpoint
  PROVE  BridgeTypes' /\ FramesInOrder'
<1>1. /\ pc = "Handling" /\ queue' = Tail(queue)
      /\ rx' = [rx EXCEPT ![On1] = Fed.pending]
      /\ dropped' = [dropped EXCEPT ![On1] = @ /\ Frame1.kind # "First"]
      /\ SendFlowControl(On1, FlowControlFor(Fed.outcome))
      /\ UNCHANGED <<bus, deferred, request>>
  BY DEF FeedEndpoint
<1>2. sender \in [Ids -> Sending]
  BY DEF BridgeTypes
<1>3. Head(queue) \in BusFrame
  BY <1>1, HeadIsFirst
<1>4. On1 \in Ids
  BY <1>3, FedIsExpected
<1>5. sender' \in [Ids -> Sending] /\ TransmittersAreCalm
  <2> DEFINE flows == FlowControlFor(Fed.outcome)
             after == OnFlowControl(sender[On1], flows[1])
  <2>1. CASE flows = <<>>
    <3>1. sender' = sender
      BY <1>1, <2>1 DEF SendFlowControl
    <3>2. QED
      BY <1>2, <3>1, LeftAloneIsCalm
  <2>2. CASE flows # <<>>
    <3>1. flows[1] \in Flow
      BY <2>2, FlowControlsAreFlow
    <3>2. after \in Sending /\ TransmitterIsCalm(sender[On1], after)
      BY <1>2, <1>4, <3>1, FlowControlKeepsTheNumber
    <3>3. sender' = [sender EXCEPT ![On1] = after]
      BY <1>1, <2>2 DEF SendFlowControl
    <3> HIDE DEF after, flows
    <3>4. /\ sender' \in [Ids -> Sending] /\ sender'[On1] = after
          /\ \A i \in Ids : i # On1 => sender'[i] = sender[i]
      BY <1>2, <1>4, <3>2, <3>3
    <3>5. QED
      BY <3>2, <3>4 DEF TransmittersAreCalm, TransmitterIsCalm
  <2>3. QED
    BY <2>1, <2>2
<1>6. /\ queue' \in Seq(BusFrame)
      /\ rx' \in [Ids -> Endpoint] /\ rx'[Functional] = NotAssembling
      /\ dropped' \in [Ids -> BOOLEAN]
      /\ FramesInOrder'
  <2>1. "First" # "FlowControl"
    OBVIOUS
  <2>2. QED
    BY <1>1, <1>5, <2>1, TakenByItsEndpoint
<1>7. QED
  BY <1>1, <1>5, <1>6 DEF BridgeTypes

LEMMA AnsweringKeepsTheOrder ==
  ASSUME TaskInv, BridgeTypes, FramesInOrder, AnswerRequest
  PROVE  BridgeTypes' /\ FramesInOrder'
<1>1. /\ pc = "Handling" /\ queue' = Tail(queue)
      /\ rx' = [rx EXCEPT ![On1] = Fed.pending]
      /\ dropped' = [dropped EXCEPT ![On1] = @ /\ Frame1.kind # "Single"]
      /\ request' = On1
      /\ UNCHANGED <<bus, deferred, sender>>
  BY DEF AnswerRequest, testerVars
<1>2. /\ queue' \in Seq(BusFrame) /\ On1 \in Ids
      /\ rx' \in [Ids -> Endpoint] /\ rx'[Functional] = NotAssembling
      /\ dropped' \in [Ids -> BOOLEAN]
      /\ FramesInOrder'
  <2>1. "Single" # "FlowControl"
    OBVIOUS
  <2>2. QED
    BY <1>1, <2>1, LeftAloneIsCalm, TakenByItsEndpoint
<1>3. QED
  BY <1>1, <1>2 DEF BridgeTypes

-----------------------------------------------------------------------------
(***************************************************************************)
(* The transfers                                                           *)
(***************************************************************************)
\* The frames are where they were, and the ends as they were.
LEMMA NothingMoves ==
  ASSUME BridgeTypes, FramesInOrder, UNCHANGED <<bus, queue, deferred, rx, sender, dropped>>,
         request' \in Ids
  PROVE  BridgeTypes' /\ FramesInOrder'
<1>1. Path' = Path
  BY DEF Path
<1>2. FramesInOrder'
  BY <1>1, LeftAloneIsCalm, FramesStay
<1>3. QED
  BY <1>2 DEF BridgeTypes

\* What was set aside goes back in front: where it was on the path.
LEMMA RestoringMovesNothing ==
  ASSUME BridgeTypes, FramesInOrder, EndTransfer(queue),
         UNCHANGED <<bus, rx, sender, dropped, request>>
  PROVE  BridgeTypes' /\ FramesInOrder'
<1>1. bus \in Seq(BusFrame) /\ queue \in Seq(BusFrame) /\ deferred \in Seq(BusFrame)
  BY DEF BridgeTypes
<1>2. queue' = deferred \o queue /\ deferred' = <<>>
  BY DEF EndTransfer, Restored
<1>3. queue' \in Seq(BusFrame) /\ deferred' \in Seq(BusFrame)
  BY <1>1, <1>2, ConcatProperties, EmptySeq
<1>4. Path' = Path
  BY <1>1, <1>2, FramesTaken DEF Path
<1>5. FramesInOrder'
  BY <1>4, LeftAloneIsCalm, FramesStay
<1>6. QED
  BY <1>3, <1>5 DEF BridgeTypes

LEMMA SendingKeepsTheOrder ==
  ASSUME BridgeTypes, FramesInOrder,
         \/ StepComesDue \/ SkipTooLong \/ BeginPdu \/ FlowControlTimeout
         \/ SendConsecutive \/ FinishBlock
  PROVE  BridgeTypes' /\ FramesInOrder'
<1>1. UNCHANGED <<bus, rx, sender, dropped, request>>
  BY DEF StepComesDue, SkipTooLong, BeginPdu, FlowControlTimeout, SendConsecutive, FinishBlock,
         testerVars
<1>2. UNCHANGED <<queue, deferred>> \/ EndTransfer(queue)
  BY DEF StepComesDue, SkipTooLong, BeginPdu, FlowControlTimeout, SendConsecutive, FinishBlock
<1>3. request' \in Ids
  BY <1>1 DEF BridgeTypes
<1>4. QED
  BY <1>1, <1>2, <1>3, NothingMoves, RestoringMovesNothing

\* A transfer takes a flow control, whose it may be: no frame of a message.
LEMMA FlowControlLeavesTheOrder ==
  ASSUME BridgeTypes, FramesInOrder, TakeFlowControl
  PROVE  BridgeTypes' /\ FramesInOrder'
<1> DEFINE frames == queue \o bus
<1>1. /\ frames # <<>> /\ Head(frames).frame.kind = "FlowControl" /\ bus' = <<>>
      /\ \/ queue' = Tail(frames) /\ deferred' = deferred
         \/ EndTransfer(Tail(frames))
      /\ UNCHANGED <<rx, sender, dropped, request>>
  BY DEF TakeFlowControl, IsFlowControlFrame, FillInbound, testerVars
<1>2. bus \in Seq(BusFrame) /\ queue \in Seq(BusFrame) /\ deferred \in Seq(BusFrame)
  BY DEF BridgeTypes
<1>3. frames \in Seq(BusFrame)
  BY <1>2, ConcatProperties
<1>4. Path = deferred \o frames
  BY <1>2, ConcatAssociative DEF Path
<1> HIDE DEF frames
<1>5. Tail(frames) \in Seq(BusFrame)
  BY <1>1, <1>3, HeadTailProperties
<1>6. deferred \o Tail(frames) \in Seq(BusFrame) /\ <<>> \in Seq(BusFrame)
  BY <1>2, <1>5, ConcatProperties, EmptySeq
<1>7. /\ queue' \in Seq(BusFrame) /\ deferred' \in Seq(BusFrame)
      /\ deferred' \o queue' = deferred \o Tail(frames)
  <2>1. CASE queue' = Tail(frames) /\ deferred' = deferred
    BY <1>2, <1>5, <2>1
  <2>2. CASE EndTransfer(Tail(frames))
    <3>1. queue' = deferred \o Tail(frames) /\ deferred' = <<>>
      BY <2>2 DEF EndTransfer, Restored
    <3>2. QED
      BY <1>6, <3>1, ConcatEmptySeq
  <2>3. QED
    BY <1>1, <2>1, <2>2
<1>8. Path' = deferred \o Tail(frames)
  BY <1>1, <1>6, <1>7, ConcatEmptySeq DEF Path
<1>9. Without(Path, Path', Len(deferred) + 1) /\ Path[Len(deferred) + 1] = Head(frames)
  BY <1>1, <1>2, <1>3, <1>4, <1>8, FrameRemoved
<1>10. \A i \in Ids : ~IsData(Path[Len(deferred) + 1], i)
  BY <1>1, <1>9 DEF IsData
<1>11. \A i \in Ids : EndpointIsCalm(rx[i], dropped[i], rx'[i], dropped'[i])
  BY <1>1 DEF EndpointIsCalm
<1>12. FramesInOrder'
  BY <1>1, <1>9, <1>10, <1>11, LeftAloneIsCalm, FrameGoes
<1>13. QED
  BY <1>1, <1>6, <1>7, <1>12 DEF BridgeTypes

\* A transfer sets a frame aside, or drops one of the request it answers.
LEMMA SettingAsideKeepsTheOrder ==
  ASSUME BridgeTypes, FramesInOrder, AsideAreOthers, TakeOtherFrame
  PROVE  BridgeTypes' /\ FramesInOrder' /\ AsideAreOthers'
<1> DEFINE frames == queue \o bus
<1>1. /\ pc = "Awaiting" /\ frames # <<>> /\ bus' = <<>> /\ queue' = Tail(frames)
      /\ SetAside(Head(frames))
      /\ UNCHANGED <<rx, sender, request, pc>>
  BY DEF TakeOtherFrame, FillInbound, testerVars
<1>2. /\ bus \in Seq(BusFrame) /\ queue \in Seq(BusFrame) /\ deferred \in Seq(BusFrame)
      /\ request \in Ids /\ dropped \in [Ids -> BOOLEAN]
  BY DEF BridgeTypes
<1>3. frames \in Seq(BusFrame)
  BY <1>2, ConcatProperties
<1>4. Path = deferred \o frames
  BY <1>2, ConcatAssociative DEF Path
<1> HIDE DEF frames
<1>5. Tail(frames) \in Seq(BusFrame) /\ Head(frames) \in BusFrame
  BY <1>1, <1>3, HeadTailProperties
<1>6. <<>> \in Seq(BusFrame) /\ Len(deferred) \in Nat
  BY <1>2, EmptySeq, LenProperties
<1>7. \A k \in 1 .. Len(deferred) : deferred[k].on # request
  BY <1>1 DEF AsideAreOthers
<1>8. CASE Head(frames).on = request
  <2>1. deferred' = deferred /\ dropped' = [dropped EXCEPT ![request] = TRUE]
    BY <1>1, <1>8 DEF SetAside
  <2>2. deferred \o Tail(frames) \in Seq(BusFrame)
    BY <1>2, <1>5, ConcatProperties
  <2>3. Path' = deferred \o Tail(frames)
    BY <1>1, <2>1, <2>2, ConcatEmptySeq DEF Path
  <2>4. /\ Without(Path, Path', Len(deferred) + 1) /\ Path[Len(deferred) + 1] = Head(frames)
        /\ \A j \in 1 .. Len(deferred) : Path[j] = deferred[j]
    BY <1>1, <1>2, <1>3, <1>4, <2>3, FrameRemoved
  <2>5. /\ dropped' \in [Ids -> BOOLEAN] /\ dropped'[request] = TRUE
        /\ \A i \in Ids : i # request => dropped'[i] = dropped[i]
    BY <1>2, <2>1
  <2>6. ASSUME NEW i \in Ids
        PROVE  IF IsData(Path[Len(deferred) + 1], i)
               THEN IsFirstData(Path, i, Len(deferred) + 1) /\ ~Relies(rx'[i], dropped'[i])
               ELSE EndpointIsCalm(rx[i], dropped[i], rx'[i], dropped'[i])
    <3>1. CASE i = request
      <4>1. ~Relies(rx'[i], dropped'[i])
        BY <2>5, <3>1, Zenon DEF Relies
      <4>2. Len(deferred) + 1 \in 1 .. Len(Path)
        BY <2>4 DEF Without
      <4>3. \A j \in 1 .. (Len(deferred) + 1) - 1 : ~IsData(Path[j], i)
        <5>1. \A j \in 1 .. (Len(deferred) + 1) - 1 : j \in 1 .. Len(deferred)
          BY <1>6
        <5>2. QED
          BY <1>7, <2>4, <3>1, <5>1 DEF IsData
      <4>4. IsData(Path[Len(deferred) + 1], i) => IsFirstData(Path, i, Len(deferred) + 1)
        BY <4>2, <4>3 DEF IsFirstData
      <4>5. QED
        BY <4>1, <4>4 DEF EndpointIsCalm
    <3>2. CASE i # request
      <4>1. ~IsData(Path[Len(deferred) + 1], i)
        BY <1>8, <2>4, <3>2 DEF IsData
      <4>2. QED
        BY <1>1, <2>5, <3>2, <4>1 DEF EndpointIsCalm
    <3>3. QED
      BY <3>1, <3>2
  <2>7. FramesInOrder'
    BY <1>1, <2>4, <2>6, LeftAloneIsCalm, FrameGoes
  <2>8. AsideAreOthers'
    BY <1>1, <1>7, <2>1 DEF AsideAreOthers
  <2>9. QED
    BY <1>1, <1>2, <1>5, <1>6, <2>1, <2>5, <2>7, <2>8 DEF BridgeTypes
<1>9. CASE Head(frames).on # request
  <2>1. deferred' = Append(deferred, Head(frames)) /\ dropped' = dropped
    BY <1>1, <1>9 DEF SetAside
  <2>2. /\ deferred' \in Seq(BusFrame) /\ Len(deferred') = Len(deferred) + 1
        /\ \A k \in 1 .. Len(deferred) : deferred'[k] = deferred[k]
        /\ deferred'[Len(deferred) + 1] = Head(frames)
    BY <1>2, <1>5, <2>1, AppendProperties
  <2>3. Path' = Path
    BY <1>1, <1>2, <1>3, <1>4, <2>1, FrameSetAside DEF Path
  <2>4. FramesInOrder'
    BY <1>1, <2>1, <2>3, LeftAloneIsCalm, FramesStay
  <2>5. \A k \in 1 .. Len(deferred) + 1 : k \in 1 .. Len(deferred) \/ k = Len(deferred) + 1
    BY <1>6
  <2>6. AsideAreOthers'
    BY <1>1, <1>7, <1>9, <2>2, <2>5 DEF AsideAreOthers
  <2>7. QED
    BY <1>1, <1>2, <1>5, <1>6, <2>1, <2>2, <2>4, <2>6 DEF BridgeTypes
<1>10. QED
  BY <1>8, <1>9

-----------------------------------------------------------------------------
(***************************************************************************)
(* The testers                                                             *)
(***************************************************************************)
\* A frame that a tester sends comes last on the path.
LEMMA SentComesLast ==
  ASSUME BridgeTypes, NEW f \in BusFrame, bus' = Append(bus, f), UNCHANGED <<queue, deferred>>
  PROVE  bus' \in Seq(BusFrame) /\ Lengthened(Path, Path', f)
<1>1. bus \in Seq(BusFrame) /\ queue \in Seq(BusFrame) /\ deferred \in Seq(BusFrame)
  BY DEF BridgeTypes
<1>2. deferred \o queue \in Seq(BusFrame) /\ Append(bus, f) \in Seq(BusFrame)
  BY <1>1, ConcatProperties, AppendProperties
<1>3. QED
  BY <1>1, <1>2, FrameSent DEF Path

\* A tester's transmitter takes a step, and another frame of its message may be
\* on the bus for it.
LEMMA OneTransmitterMoves ==
  ASSUME BridgeTypes, FramesInOrder, NEW j \in Ids, NEW t \in Sending,
         sender' = [sender EXCEPT ![j] = t],
         UNCHANGED <<queue, deferred, rx, request, dropped>>,
         \/ bus' = bus /\ TransmitterIsCalm(sender[j], t)
         \/ \E f \in DataFrame :
              /\ bus' = Append(bus, OnBus(j, f))
              /\ f.kind = "Consecutive" =>
                   sender[j].state \in InTransfer /\ f.sn = sender[j].sn
              /\ SenderFollows(t, f)
  PROVE  BridgeTypes' /\ FramesInOrder'
<1>1. sender \in [Ids -> Sending]
  BY DEF BridgeTypes
<1>2. /\ sender' \in [Ids -> Sending] /\ sender'[j] = t
      /\ \A i \in Ids : i # j => sender'[i] = sender[i]
  BY <1>1
<1>3. CASE bus' = bus /\ TransmitterIsCalm(sender[j], t)
  <2>1. TransmittersAreCalm
    BY <1>2, <1>3 DEF TransmittersAreCalm, TransmitterIsCalm
  <2>2. Path' = Path
    BY <1>3 DEF Path
  <2>3. FramesInOrder'
    BY <2>1, <2>2, LeftAloneIsCalm, FramesStay
  <2>4. QED
    BY <1>2, <1>3, <2>3 DEF BridgeTypes
<1>4. ASSUME NEW f \in DataFrame, bus' = Append(bus, OnBus(j, f)),
             f.kind = "Consecutive" => sender[j].state \in InTransfer /\ f.sn = sender[j].sn,
             SenderFollows(t, f)
      PROVE  BridgeTypes' /\ FramesInOrder'
  <2>1. OnBus(j, f) \in BusFrame /\ OnBus(j, f).on = j /\ OnBus(j, f).frame = f
    BY DEF OnBus, BusFrame
  <2>2. bus' \in Seq(BusFrame) /\ Lengthened(Path, Path', OnBus(j, f))
    BY <1>4, <2>1, SentComesLast
  <2>3. f.kind # "FlowControl"
    BY DEF DataFrame
  <2>4. ASSUME NEW i \in Ids
        PROVE  IF IsData(OnBus(j, f), i)
               THEN /\ OnBus(j, f).frame.kind = "Consecutive" =>
                         sender[i].state \in InTransfer /\ OnBus(j, f).frame.sn = sender[i].sn
                    /\ SenderFollows(sender'[i], OnBus(j, f).frame)
               ELSE TransmitterIsCalm(sender[i], sender'[i])
    <3>1. CASE i = j
      <4>1. IsData(OnBus(j, f), i)
        BY <2>1, <2>3, <3>1 DEF IsData
      <4>2. QED
        BY <1>2, <1>4, <2>1, <3>1, <4>1
    <3>2. CASE i # j
      <4>1. ~IsData(OnBus(j, f), i)
        BY <2>1, <3>2 DEF IsData
      <4>2. QED
        BY <1>2, <3>2, <4>1 DEF TransmitterIsCalm
    <3>3. QED
      BY <3>1, <3>2
  <2>5. FramesInOrder'
    BY <2>2, <2>4, FrameComes
  <2>6. QED
    BY <1>2, <2>2, <2>5 DEF BridgeTypes
<1>5. QED
  BY <1>3, <1>4

LEMMA RequestsKeepTheOrder ==
  ASSUME BridgeTypes, FramesInOrder, NEW j \in Ids,
         SendRequest(j) \/ ContinueRequest(j) \/ GiveUpRequest(j)
  PROVE  BridgeTypes' /\ FramesInOrder'
<1>1. sender \in [Ids -> Sending] /\ sender[j] \in Sending
  BY DEF BridgeTypes
<1>2. UNCHANGED <<queue, deferred, rx, request, dropped>>
  BY DEF SendRequest, ContinueRequest, GiveUpRequest, bridgeVars
<1>3. CASE SendRequest(j)
  <2>1. PICK size \in RequestSizes[j] :
          LET m == [id |-> j, size |-> size]
          IN  /\ sender' = [sender EXCEPT ![j] = Begin(@, m)]
              /\ bus' = Append(bus, OnBus(j, OpeningFrame(m)))
    BY <1>3, Zenon DEF SendRequest
  <2> DEFINE m == [id |-> j, size |-> size]
  <2>2. size \in Nat
    <3>1. RequestSizes[j] \subseteq 0 .. MaxSize
      BY BridgeAssumption
    <3>2. QED
      BY <3>1
  <2>3. /\ Begin(sender[j], m) \in Sending /\ OpeningFrame(m) \in DataFrame
        /\ OpeningFrame(m).kind \in {"Single", "First"}
        /\ SenderFollows(Begin(sender[j], m), OpeningFrame(m))
    BY <1>1, <2>2, MessagesBeginAnew
  <2>4. /\ sender' = [sender EXCEPT ![j] = Begin(sender[j], m)]
        /\ bus' = Append(bus, OnBus(j, OpeningFrame(m)))
    BY <1>1, <2>1
  <2> HIDE DEF m
  <2>5. OpeningFrame(m).kind # "Consecutive"
    BY <2>3
  <2>6. QED
    BY <1>2, <2>3, <2>4, <2>5, OneTransmitterMoves
<1>4. CASE ContinueRequest(j) /\ BlockIsUsedUp(sender[j])
  <2>1. /\ sender[j].state = "SendingBlock" /\ bus' = bus
        /\ sender' = [sender EXCEPT ![j] = AwaitNextBlock(sender[j])]
    BY <1>1, <1>4 DEF ContinueRequest
  <2>2. /\ AwaitNextBlock(sender[j]) \in Sending
        /\ TransmitterIsCalm(sender[j], AwaitNextBlock(sender[j]))
    BY <1>1, <2>1, PausesAreCalm
  <2>3. QED
    BY <1>2, <2>1, <2>2, OneTransmitterMoves
<1>5. CASE ContinueRequest(j) /\ ~BlockIsUsedUp(sender[j])
  <2>1. /\ sender[j].state = "SendingBlock" /\ bus' = Append(bus, OnBus(j, NextFrame(sender[j])))
        /\ sender' = [sender EXCEPT ![j] = AfterFrame(sender[j])]
    BY <1>1, <1>5 DEF ContinueRequest
  <2>2. /\ AfterFrame(sender[j]) \in Sending /\ NextFrame(sender[j]) \in DataFrame
        /\ NextFrame(sender[j]).sn = sender[j].sn
        /\ SenderFollows(AfterFrame(sender[j]), NextFrame(sender[j]))
    BY <1>1, <2>1, MessagesCarryOn
  <2>3. sender[j].state \in InTransfer
    BY <2>1 DEF InTransfer
  <2>4. QED
    BY <1>2, <2>1, <2>2, <2>3, OneTransmitterMoves
<1>6. CASE GiveUpRequest(j)
  <2>1. bus' = bus /\ sender' = [sender EXCEPT ![j] = Abort(sender[j])]
    BY <1>1, <1>6 DEF GiveUpRequest
  <2>2. Abort(sender[j]) \in Sending /\ TransmitterIsCalm(sender[j], Abort(sender[j]))
    BY <1>1, PausesAreCalm
  <2>3. QED
    BY <1>2, <2>1, <2>2, OneTransmitterMoves
<1>7. QED
  BY <1>3, <1>4, <1>5, <1>6

LEMMA FlowControlsKeepTheOrder ==
  ASSUME BridgeTypes, FramesInOrder, NEW e \in Ecus, ClearToSend(e)
  PROVE  BridgeTypes' /\ FramesInOrder'
<1>1. UNCHANGED <<queue, deferred, rx, request, dropped, sender>>
  BY DEF ClearToSend, bridgeVars
<1>2. PICK block \in TesterBlocks : bus' = Append(bus, OnBus(e, FlowControl("Continue", block)))
  BY DEF ClearToSend
<1> DEFINE f == FlowControl("Continue", block)
<1>3. f \in Flow /\ f.kind = "FlowControl" /\ e \in Ids
  BY BridgeAssumption DEF FlowControl, Flow, FlowStatus
<1> HIDE DEF f
<1>4. OnBus(e, f) \in BusFrame /\ OnBus(e, f).frame = f
  BY <1>3 DEF OnBus, BusFrame
<1>5. bus' \in Seq(BusFrame) /\ Lengthened(Path, Path', OnBus(e, f))
  BY <1>1, <1>2, <1>4, SentComesLast DEF f
<1>6. \A i \in Ids : ~IsData(OnBus(e, f), i) /\ TransmitterIsCalm(sender[i], sender'[i])
  BY <1>1, <1>3, <1>4 DEF IsData, TransmitterIsCalm
<1>7. FramesInOrder'
  BY <1>1, <1>5, <1>6, FrameComes
<1>8. QED
  BY <1>1, <1>5, <1>7 DEF BridgeTypes

-----------------------------------------------------------------------------
(***************************************************************************)
(* The order of frames is kept                                             *)
(***************************************************************************)
OrderInv == TaskInv /\ BridgeTypes /\ FramesInOrder /\ AsideAreOthers

\* Only a transfer sets frames aside, and it does not change whose request it
\* answers.
LEMMA AsideStayOthers ==
  ASSUME TaskInv, AsideAreOthers, deferred' = <<>> \/ deferred' = deferred,
         pc \in {"Awaiting", "Sending"} => request' = request
  PROVE  AsideAreOthers'
<1>1. CASE deferred' = <<>>
  <2>1. \A k \in 1 .. Len(<<>>) : FALSE
    OBVIOUS
  <2>2. QED
    BY <1>1, <2>1 DEF AsideAreOthers
<1>2. CASE deferred' = deferred /\ deferred # <<>>
  <2>1. pc \in {"Awaiting", "Sending"}
    BY <1>2 DEF TaskInv
  <2>2. QED
    BY <1>2, <2>1 DEF AsideAreOthers
<1>3. QED
  BY <1>1, <1>2

LEMMA BridgeStepsKeepTheOrder ==
  ASSUME OrderInv, BridgeStep
  PROVE  BridgeTypes' /\ FramesInOrder' /\ AsideAreOthers'
<1> USE DEF OrderInv
<1>1. CASE Poll
  <2>1. deferred' = deferred /\ request' = request
    BY <1>1 DEF Poll
  <2>2. QED
    BY <1>1, <2>1, PollKeepsTheOrder, AsideStayOthers
<1>2. CASE DropWhenStopped
  <2>1. deferred' = deferred /\ request' = request
    BY <1>2 DEF DropWhenStopped
  <2>2. QED
    BY <1>2, <2>1, DropKeepsTheOrder, AsideStayOthers
<1>3. CASE FeedEndpoint
  <2>1. deferred' = deferred /\ request' = request
    BY <1>3 DEF FeedEndpoint
  <2>2. QED
    BY <1>3, <2>1, FeedingKeepsTheOrder, AsideStayOthers
<1>4. CASE AnswerRequest
  <2>1. deferred' = deferred /\ pc = "Handling"
    BY <1>4 DEF AnswerRequest
  <2>2. QED
    BY <1>4, <2>1, AnsweringKeepsTheOrder, AsideStayOthers
<1>5. CASE StepComesDue \/ SkipTooLong \/ BeginPdu \/ FlowControlTimeout
           \/ SendConsecutive \/ FinishBlock
  <2>1. request' = request /\ (deferred' = <<>> \/ deferred' = deferred)
    BY <1>5 DEF StepComesDue, SkipTooLong, BeginPdu, FlowControlTimeout, SendConsecutive,
                FinishBlock, EndTransfer
  <2>2. QED
    BY <1>5, <2>1, SendingKeepsTheOrder, AsideStayOthers
<1>6. CASE TakeFlowControl
  <2>1. request' = request /\ (deferred' = <<>> \/ deferred' = deferred)
    BY <1>6 DEF TakeFlowControl, EndTransfer
  <2>2. QED
    BY <1>6, <2>1, FlowControlLeavesTheOrder, AsideStayOthers
<1>7. CASE TakeOtherFrame
  BY <1>7, SettingAsideKeepsTheOrder
<1>8. QED
  BY <1>1, <1>2, <1>3, <1>4, <1>5, <1>6, <1>7 DEF BridgeStep

LEMMA OthersKeepTheOrder ==
  ASSUME OrderInv, Operate \/ TesterStep \/ UNCHANGED vars
  PROVE  BridgeTypes' /\ FramesInOrder' /\ AsideAreOthers'
<1> USE DEF OrderInv
<1>1. deferred' = deferred /\ request' = request
  BY DEF Operate, TesterStep, SendRequest, ContinueRequest, GiveUpRequest, ClearToSend, vars,
         bridgeVars
<1>2. AsideAreOthers'
  BY <1>1, AsideStayOthers
<1>3. CASE Operate \/ UNCHANGED vars
  <2>1. UNCHANGED <<bus, queue, deferred, rx, sender, dropped, request>>
    BY <1>3 DEF Operate, vars, bridgeVars, testerVars
  <2>2. request' \in Ids
    BY <2>1 DEF BridgeTypes
  <2>3. QED
    BY <1>2, <2>1, <2>2, NothingMoves
<1>4. CASE TesterStep
  BY <1>2, <1>4, RequestsKeepTheOrder, FlowControlsKeepTheOrder DEF TesterStep
<1>5. QED
  BY <1>3, <1>4

\* Before anything is sent there is nothing to be out of order.
LEMMA NothingIsOutOfOrder == Init => OrderInv
<1> SUFFICES ASSUME Init PROVE OrderInv
  OBVIOUS
<1>1. TaskInv
  BY DEF Init, TaskInv
<1>2. BridgeTypes
  <2>1. <<>> \in Seq(BusFrame)
    BY EmptySeq
  <2>2. NotAssembling \in Endpoint /\ Functional \in Ids
    BY BridgeAssumption DEF Endpoint
  <2>3. \A i \in Ids : NewTransmitter(i) \in Sending
    BY DEF NewTransmitter, Sending, TransmitState, NoLimit
  <2>4. rx \in [Ids -> Endpoint] /\ rx[Functional] = NotAssembling
    BY <2>2 DEF Init
  <2>5. sender \in [Ids -> Sending]
    BY <2>3 DEF Init
  <2>6. dropped \in [Ids -> BOOLEAN]
    BY DEF Init
  <2>7. QED
    BY <2>1, <2>2, <2>4, <2>5, <2>6 DEF Init, BridgeTypes
<1>3. FramesInOrder
  <2>1. <<>> \in Seq(BusFrame)
    BY EmptySeq
  <2>2. Path = <<>>
    BY <2>1, ConcatEmptySeq DEF Init, Path
  <2>3. \A j \in 1 .. Len(Path) : FALSE
    BY <2>2
  <2>4. \A i \in Ids : rx[i].assembling = FALSE
    BY DEF Init, NotAssembling
  <2>5. \A i \in Ids : ~Relies(rx[i], dropped[i])
    BY <2>4, Zenon DEF Relies
  <2>6. QED
    BY <2>3, <2>5 DEF FramesInOrder, InOrder
<1>4. AsideAreOthers
  BY DEF Init, AsideAreOthers
<1>5. QED
  BY <1>1, <1>2, <1>3, <1>4 DEF OrderInv

\* The frames under way to an endpoint stay in the order their tester sent them
\* in, for any ECUs, plans, testers and transfers.
THEOREM FramesKeepTheirOrder == Spec => []OrderInv
<1>1. OrderInv /\ [Next]_vars => BridgeTypes' /\ FramesInOrder' /\ AsideAreOthers'
  BY BridgeStepsKeepTheOrder, OthersKeepTheOrder DEF Next
<1>2. OrderInv /\ [Next]_vars /\ TaskInv' => OrderInv'
  BY <1>1 DEF OrderInv
<1>3. QED
  BY <1>2, NothingIsOutOfOrder, BridgeInvariant, PTL DEF Spec

\* A transfer leaves no hole in the message of another ECU: a consecutive frame
\* of a message in progress has the number its endpoint expects, unless the
\* bridge dropped a frame of that very message.
THEOREM DeferralLeavesNoHole == Spec => []DeferralMakesNoHole
<1>1. OrderInv => DeferralMakesNoHole
  <2> SUFFICES ASSUME TaskInv, BridgeTypes, FramesInOrder, pc = "Handling",
                      Frame1.kind = "Consecutive", rx[On1].assembling, ~dropped[On1]
               PROVE  Frame1.sn = rx[On1].next
    BY DEF OrderInv, DeferralMakesNoHole
  <2>1. deferred = <<>> /\ queue # <<>> /\ queue \in Seq(BusFrame) /\ bus \in Seq(BusFrame)
    BY DEF TaskInv, BridgeTypes
  <2>2. Head(queue) \in BusFrame /\ Head(queue) = queue[1] /\ Len(queue) \in Nat \ {0}
    BY <2>1, HeadTailProperties, EmptySeq
  <2>3. Path = queue \o bus /\ Len(bus) \in Nat
    BY <2>1, ConcatEmptySeq, LenProperties DEF Path
  <2>4. Path[1] = Head(queue) /\ 1 \in 1 .. Len(Path)
    <3>1. 1 \in 1 .. Len(queue) + Len(bus) /\ 1 <= Len(queue)
      BY <2>2, <2>3
    <3>2. /\ Len(Path) = Len(queue) + Len(bus)
          /\ \A j \in 1 .. Len(queue) + Len(bus) :
               Path[j] = IF j <= Len(queue) THEN queue[j] ELSE bus[j - Len(queue)]
      BY <2>1, <2>3, ConcatProperties
    <3>3. QED
      BY <2>2, <3>1, <3>2
  <2>5. On1 \in Ids /\ Path[1].frame = Frame1 /\ IsData(Path[1], On1)
    BY <2>2, <2>4 DEF On1, Frame1, BusFrame, IsData
  <2>6. \A a \in 1 .. 1 - 1 : FALSE
    OBVIOUS
  <2>7. IsFirstData(Path, On1, 1)
    BY <2>4, <2>5, <2>6 DEF IsFirstData
  <2>8. Relies(rx[On1], dropped[On1])
    BY DEF Relies
  <2>9. InOrder(Path, On1, sender[On1], rx[On1], dropped[On1])
    BY <2>5 DEF FramesInOrder
  <2>10. QED
    BY <2>4, <2>5, <2>7, <2>8, <2>9 DEF InOrder
<1>2. QED
  BY <1>1, FramesKeepTheirOrder, PTL

=============================================================================
