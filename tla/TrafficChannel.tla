---------------------------- MODULE TrafficChannel ----------------------------
(***************************************************************************)
(* The live feed of api/src/traffic.rs: publishers append to a bounded     *)
(* history and to a bounded broadcast channel in one step; a monitor that  *)
(* attaches is replayed the history and then follows the channel, in       *)
(* batches, and is told of what it was too slow to receive.                *)
(*                                                                         *)
(* An event is its kind and its position in everything ever published.     *)
(* The broadcast channel is tokio's: it holds the last ChannelCapacity     *)
(* events, and each receiver is a position in it.                          *)
(***************************************************************************)
EXTENDS Integers, Sequences, FiniteSets

CONSTANTS
  Monitors,          \* the monitors that may be attached
  ChannelCapacity,   \* c_uChannelCapacity: 2048
  HistoryCapacity,   \* c_uHistoryCapacity: 20000
  BatchSize,         \* c_uMaxEventsPerBatch: 64
  HistoryLimits,     \* the values of ?history= monitors ask with
  MaxEvents          \* bound on the events published

Unlimited == -1      \* ?history left out

ASSUME TrafficAssumption ==
  /\ ChannelCapacity \in Nat \ {0}
  /\ HistoryCapacity \in Nat \ {0}
  /\ BatchSize \in Nat \ {0}
  /\ HistoryLimits \subseteq Nat \cup {Unlimited}
  /\ MaxEvents \in Nat

VARIABLES
  log,               \* the kinds of all events ever published
  history,           \* m_arcMtxHistory
  dropped,           \* m_arcDroppedFromHistory
  monitor            \* monitor[m]: its stream, and what its reader has been sent

trafficVars == <<log, history, dropped, monitor>>

\* What happened on a wire, and everything else.
WireKinds == {"Frame", "DoIp"}
Kinds == WireKinds \cup {"Exchange", "Lifecycle"}
IsFrameEvent(kind) == kind \in WireKinds

Event(n, kind) == [n |-> n, kind |-> kind]
Replayed(count, before) == [kind |-> "Replayed", count |-> count, before |-> before]
Lagged(missed) == [kind |-> "Lagged", missed |-> missed]

NothingKnown == [at |-> 0, missing |-> 0, open |-> FALSE, sound |-> TRUE]

\* A monitor's stream: what of the prelude is still to go out, the position of
\* its receiver, the batch being gathered, and what its reader was sent so far
\* amounts to (see Account).
Detached ==
  [attached |-> FALSE, frames |-> TRUE, limit |-> Unlimited,
   prelude |-> <<>>, next |-> 1, batch |-> <<>>, known |-> NothingKnown]

TrafficInit ==
  /\ log = <<>> /\ history = <<>> /\ dropped = 0
  /\ monitor = [m \in Monitors |-> Detached]

-----------------------------------------------------------------------------
(***************************************************************************)
(* Publishing                                                              *)
(***************************************************************************)
Kept == IF Len(history) = HistoryCapacity THEN Tail(history) ELSE history

\* Publish: history and channel under one lock.
Publish(kind) ==
  /\ Len(log) < MaxEvents
  /\ log' = Append(log, kind)
  /\ history' = Append(Kept, Event(Len(log) + 1, kind))
  /\ dropped' = IF Len(history) = HistoryCapacity THEN dropped + 1 ELSE dropped
  /\ UNCHANGED monitor

-----------------------------------------------------------------------------
(***************************************************************************)
(* Attaching                                                               *)
(***************************************************************************)
Wants(frames, kind) == frames \/ ~IsFrameEvent(kind)

\* The events of the history a monitor is to see.
WantedOf(frames, events) ==
  LET of[k \in 0 .. Len(events)] ==
        IF k = 0 THEN <<>>
        ELSE IF Wants(frames, events[k].kind) THEN Append(of[k - 1], events[k]) ELSE of[k - 1]
  IN  of[Len(events)]

Newest(events, limit) ==
  IF limit # Unlimited /\ Len(events) > limit
    THEN SubSeq(events, Len(events) - limit + 1, Len(events))
    ELSE events

\* Mutated form of ReceivesFrom: the receiver is made before the snapshot, with
\* one event between the two.
ReceivesFromEarlier == IF log = <<>> THEN 1 ELSE Len(log)

\* SubscribeWithHistory: the snapshot and the receiver meet at the present.
ReceivesFrom == Len(log) + 1

\* GetEvents.
Attach(m, frames, limit) ==
  /\ ~monitor[m].attached
  /\ LET replay == Newest(WantedOf(frames, history), limit)
     IN  monitor' = [monitor EXCEPT ![m] =
           [Detached EXCEPT !.attached = TRUE, !.frames = frames, !.limit = limit,
              !.next = ReceivesFrom,
              !.prelude = <<Replayed(Len(replay), dropped)>> \o replay]]
  /\ UNCHANGED <<log, history, dropped>>

\* The reader goes away; its stream is dropped with it.
Detach(m) ==
  /\ monitor[m].attached
  /\ monitor' = [monitor EXCEPT ![m] = Detached]
  /\ UNCHANGED <<log, history, dropped>>

-----------------------------------------------------------------------------
(***************************************************************************)
(* What a reader can make of what it was sent: the event it is at, how     *)
(* many it was told are missing since, whether it knows where it is at     *)
(* all (one that bounded its replay does not before the first event), and  *)
(* whether everything up to there was accounted for.                       *)
(***************************************************************************)
WantedBetween(m, from, to) ==
  Cardinality({n \in from .. to : Wants(monitor[m].frames, log[n])})

\* Between two events lie as many as were announced to be missing, and only
\* wire events the reader does not want may be missing beyond that.
Accounted(m, account, n) ==
  /\ account.at < n
  /\ \/ account.open
     \/ /\ WantedBetween(m, account.at + 1, n - 1) <= account.missing
        /\ account.missing <= n - 1 - account.at

AfterItem(m, account, item) ==
  CASE item.kind = "Replayed" ->
         [account EXCEPT !.missing = item.before,
                         !.open = monitor[m].limit # Unlimited]
    [] item.kind = "Lagged" -> [account EXCEPT !.missing = @ + item.missed]
    [] OTHER ->
         [at |-> item.n, missing |-> 0, open |-> FALSE,
          sound |-> account.sound /\ Accounted(m, account, item.n)]

\* What the reader makes of a batch.
Account(m, batch) ==
  LET account[k \in 0 .. Len(batch)] ==
        IF k = 0 THEN monitor[m].known ELSE AfterItem(m, account[k - 1], batch[k])
  IN  account[Len(batch)]

-----------------------------------------------------------------------------
(***************************************************************************)
(* Streaming, as fast as the reader takes it                               *)
(***************************************************************************)
Chunk(events) == SubSeq(events, 1, IF Len(events) < BatchSize THEN Len(events) ELSE BatchSize)

\* A batch of the prelude.
SendReplay(m) ==
  /\ monitor[m].prelude # <<>>
  /\ LET chunk == Chunk(monitor[m].prelude)
     IN  monitor' = [monitor EXCEPT
           ![m].known = Account(m, chunk),
           ![m].prelude = SubSeq(@, Len(chunk) + 1, Len(@))]
  /\ UNCHANGED <<log, history, dropped>>

OldestHeld == IF Len(log) > ChannelCapacity THEN Len(log) - ChannelCapacity + 1 ELSE 1

\* Mutated form of GatherLagged: a receiver that fell behind goes on quietly.
GatherLaggedQuietly(m) ==
  /\ monitor[m].next < OldestHeld
  /\ monitor' = [monitor EXCEPT ![m].next = OldestHeld]
  /\ UNCHANGED <<log, history, dropped>>

\* The receiver finds that the channel no longer holds its next event.
GatherLagged(m) ==
  /\ monitor[m].next < OldestHeld
  /\ monitor' = [monitor EXCEPT
       ![m].batch = Append(@, Lagged(OldestHeld - monitor[m].next)),
       ![m].next = OldestHeld]
  /\ UNCHANGED <<log, history, dropped>>

\* The receiver takes its next event, or drops one it was told not to send.
GatherEvent(m) ==
  /\ monitor[m].next \in OldestHeld .. Len(log)
  /\ LET n == monitor[m].next
     IN  monitor' = [monitor EXCEPT
           ![m].batch = IF Wants(monitor[m].frames, log[n])
                          THEN Append(@, Event(n, log[n])) ELSE @,
           ![m].next = n + 1]
  /\ UNCHANGED <<log, history, dropped>>

\* BuildEventStream, once the prelude is out: an item joins the batch.
Gather(m) ==
  /\ monitor[m].attached
  /\ monitor[m].prelude = <<>>
  /\ Len(monitor[m].batch) < BatchSize
  /\ GatherLagged(m) \/ GatherEvent(m)

\* The batch is full, or its window is over.
SendBatch(m) ==
  /\ monitor[m].batch # <<>>
  /\ monitor' = [monitor EXCEPT ![m].known = Account(m, monitor[m].batch), ![m].batch = <<>>]
  /\ UNCHANGED <<log, history, dropped>>

Stream(m) == SendReplay(m) \/ Gather(m) \/ SendBatch(m)

MonitorNext ==
  \E m \in Monitors :
    \/ \E frames \in BOOLEAN, limit \in HistoryLimits : Attach(m, frames, limit)
    \/ Detach(m)
    \/ Stream(m)

-----------------------------------------------------------------------------
\* What a monitor was sent leaves out nothing it does not announce, shows
\* nothing twice and nothing out of order: the replay and the live feed meet
\* exactly, a slow reader is told how much it missed, and the wire events a
\* reader did not ask for are the only others that are missing.
EveryGapIsAnnounced == \A m \in Monitors : monitor[m].known.sound

\* The reader has been shown the event n, or told that it is missing.
HasHeardOf(m, n) ==
  LET known == monitor[m].known
  IN  \/ known.at >= n
      \/ n <= Len(log) /\ WantedBetween(m, known.at + 1, n) <= known.missing

=============================================================================
