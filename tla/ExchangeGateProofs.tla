-------------------------- MODULE ExchangeGateProofs --------------------------
(***************************************************************************)
(* What holds of the exchange gate, of the history behind the live feed,   *)
(* and of what monitors are sent, for any number of callers, ECUs, monitors *)
(* and events and any capacities.                                          *)
(***************************************************************************)
EXTENDS ExchangeGate, FiniteSetTheorems, WellFoundedInduction, SequenceTheorems, TLAPS

-----------------------------------------------------------------------------
(***************************************************************************)
(* The claim on busy ECUs                                                  *)
(***************************************************************************)
\* The handlers' own variables keep their types.
GateTypeOK ==
  /\ pc \in [Callers -> {"Idle", "Claiming", "Emitting", "Publishing"}]
  /\ DOMAIN plan = Callers
  /\ DOMAIN claimed = Callers

GateInv == GateTypeOK /\ BusyMeansClaimed

\* No step of a monitor, and no event another part publishes, is a step of a
\* handler.
LEMMA OthersLeaveTheGate ==
  ASSUME PublishOther \/ (MonitorNext /\ UNCHANGED gateVars) \/ UNCHANGED vars
  PROVE  UNCHANGED gateVars
BY DEF PublishOther, gateVars, vars

\* A caller that claims nothing yet takes what no other caller holds.
LEMMA ClaimKeepsThePartition ==
  ASSUME GateInv, NEW c \in Callers, Claim(c)
  PROVE  GateInv'
<1>1. pc[c] = "Claiming" /\ claimed[c] = {}
  BY DEF GateInv, GateTypeOK, BusyMeansClaimed, Claim
<1>2. GateTypeOK'
  BY DEF GateInv, GateTypeOK, Claim
<1>3. claimed'[c] = Wanted(c) /\ \A d \in Callers \ {c} : claimed'[d] = claimed[d]
  BY DEF GateInv, GateTypeOK, Claim
<1>4. \A d \in Callers : claimed[d] \cap Wanted(c) = {}
  BY DEF GateInv, BusyMeansClaimed, Claim
<1>5. busy' = UNION {claimed'[d] : d \in Callers}
  <2>1. busy' = busy \cup Wanted(c)
    BY DEF Claim
  <2>2. busy = UNION {claimed[d] : d \in Callers}
    BY DEF GateInv, BusyMeansClaimed
  <2>3. QED
    BY <1>1, <1>3, <2>1, <2>2
<1>6. \A d, e \in Callers : d # e => claimed'[d] \cap claimed'[e] = {}
  BY <1>3, <1>4 DEF GateInv, BusyMeansClaimed
<1>7. \A d \in Callers : claimed'[d] # {} => pc'[d] = "Emitting"
  BY <1>3 DEF GateInv, GateTypeOK, BusyMeansClaimed, Claim
<1>8. QED
  BY <1>2, <1>5, <1>6, <1>7 DEF GateInv, BusyMeansClaimed

\* A guard that is dropped gives back its own claim and no other, because no
\* two claims overlap.
LEMMA ReleaseKeepsThePartition ==
  ASSUME GateInv, NEW c \in Callers, Finish(c) \/ Disconnect(c)
  PROVE  GateInv'
<1>1. /\ busy' = busy \ claimed[c]
      /\ claimed' = [claimed EXCEPT ![c] = {}]
      /\ plan' = [plan EXCEPT ![c] = NoPlan]
  BY DEF Finish, Disconnect, Release
<1>2. \E at \in {"Publishing", "Idle"} : pc' = [pc EXCEPT ![c] = at]
  BY DEF Finish, Disconnect
<1>3. GateTypeOK'
  BY <1>1, <1>2 DEF GateInv, GateTypeOK
<1>4. claimed'[c] = {} /\ \A d \in Callers \ {c} : claimed'[d] = claimed[d]
  BY <1>1 DEF GateInv, GateTypeOK
<1>5. busy' = UNION {claimed'[d] : d \in Callers}
  <2>1. busy = UNION {claimed[d] : d \in Callers}
    BY DEF GateInv, BusyMeansClaimed
  <2>2. \A d \in Callers \ {c} : claimed[d] \cap claimed[c] = {}
    BY DEF GateInv, BusyMeansClaimed
  <2>3. QED
    BY <1>1, <1>4, <2>1, <2>2
<1>6. \A d, e \in Callers : d # e => claimed'[d] \cap claimed'[e] = {}
  BY <1>4 DEF GateInv, BusyMeansClaimed
<1>7. \A d \in Callers : claimed'[d] # {} => pc'[d] = "Emitting"
  BY <1>2, <1>4 DEF GateInv, GateTypeOK, BusyMeansClaimed
<1>8. QED
  BY <1>3, <1>5, <1>6, <1>7 DEF GateInv, BusyMeansClaimed

\* The other steps of a handler touch no claim, and it holds none.
LEMMA OtherStepsKeepThePartition ==
  ASSUME GateInv, NEW c \in Callers,
         AnswerUnrouted(c) \/ Route(c) \/ Refuse(c) \/ PublishExchange(c)
  PROVE  GateInv'
<1>1. UNCHANGED <<busy, claimed>> /\ pc[c] # "Emitting"
  BY DEF AnswerUnrouted, Route, Refuse, PublishExchange, gateVars
<1>2. \A d \in Callers : pc[d] = "Emitting" => pc'[d] = "Emitting"
  BY <1>1 DEF GateInv, GateTypeOK, AnswerUnrouted, Route, Refuse, PublishExchange, gateVars
<1>3. GateTypeOK'
  BY <1>1 DEF GateInv, GateTypeOK, AnswerUnrouted, Route, Refuse, PublishExchange, gateVars
<1>4. BusyMeansClaimed'
  BY <1>1, <1>2 DEF GateInv, BusyMeansClaimed
<1>5. QED
  BY <1>3, <1>4 DEF GateInv

\* The set of busy ECUs is the disjoint union of the claims of the answers in
\* progress, for any number of simultaneous requests, whatever they ask and
\* whoever goes away.
THEOREM BusyEcusAreClaimed == Spec => []BusyMeansClaimed
<1>1. Init => GateInv
  BY DEF Init, GateInv, GateTypeOK, BusyMeansClaimed
<1>2. GateInv /\ [Next]_vars => GateInv'
  <2> SUFFICES ASSUME GateInv, [Next]_vars PROVE GateInv'
    OBVIOUS
  <2>1. CASE UNCHANGED gateVars
    BY <2>1 DEF GateInv, GateTypeOK, BusyMeansClaimed, gateVars
  <2>2. ASSUME NEW c \in Callers, AnswerUnrouted(c) \/ Route(c) \/ Serve(c) \/ Disconnect(c)
        PROVE  GateInv'
    BY <2>2, ClaimKeepsThePartition, ReleaseKeepsThePartition, OtherStepsKeepThePartition
       DEF Serve
  <2>3. QED
    BY <2>1, <2>2, OthersLeaveTheGate DEF Next
<1>3. GateInv => BusyMeansClaimed
  BY DEF GateInv
<1>4. QED
  BY <1>1, <1>2, <1>3, PTL DEF Spec

-----------------------------------------------------------------------------
(***************************************************************************)
(* The history a monitor is replayed                                       *)
(***************************************************************************)
\* The history is the end of everything published, event by event and without
\* a hole, and m_arcDroppedFromHistory counts what came before it: a monitor
\* that is told "dropped_before" can tell what its replay lacks.
HistoryIsTheTail ==
  /\ Len(history) <= HistoryCapacity
  /\ dropped + Len(history) = Len(log)
  /\ \A k \in 1 .. Len(history) : history[k] = Event(dropped + k, log[dropped + k])

\* An event is only given up for another when the history is full.
NothingIsDroppedEarly == dropped > 0 => Len(history) = HistoryCapacity

HistoryTypeOK ==
  /\ log \in Seq(Kinds)
  /\ history \in Seq([n : Nat, kind : Kinds])
  /\ dropped \in Nat

HistoryInv == HistoryTypeOK /\ HistoryIsTheTail /\ NothingIsDroppedEarly

\* Publish appends to both, and counts what the full history gives up.
LEMMA PublishKeepsTheHistory ==
  ASSUME HistoryInv, NEW kind \in Kinds, Publish(kind)
  PROVE  HistoryInv'
<1> DEFINE full == Len(history) = HistoryCapacity
           entry == Event(Len(log) + 1, kind)
<1>1. HistoryCapacity \in Nat \ {0}
  BY TrafficAssumption
<1>2. /\ log' = Append(log, kind)
      /\ history' = Append(Kept, entry)
      /\ dropped' = IF full THEN dropped + 1 ELSE dropped
  BY DEF Publish
<1>3. entry \in [n : Nat, kind : Kinds]
  BY DEF Event, HistoryInv, HistoryTypeOK
<1>4. /\ log' \in Seq(Kinds) /\ Len(log') = Len(log) + 1
      /\ log'[Len(log) + 1] = kind
      /\ \A k \in 1 .. Len(log) : log'[k] = log[k]
  BY <1>2 DEF HistoryInv, HistoryTypeOK
<1>5. CASE full
  <2>1. history # <<>>
    BY <1>1, <1>5 DEF HistoryInv, HistoryTypeOK
  <2>2. /\ Kept \in Seq([n : Nat, kind : Kinds])
        /\ Len(Kept) = Len(history) - 1
        /\ \A k \in 1 .. Len(history) - 1 : Kept[k] = history[k + 1]
    BY <1>5, <2>1 DEF Kept, HistoryInv, HistoryTypeOK
  <2>3. /\ history' \in Seq([n : Nat, kind : Kinds])
        /\ Len(history') = Len(history)
        /\ \A k \in 1 .. Len(history) - 1 : history'[k] = history[k + 1]
        /\ history'[Len(history)] = entry
    BY <1>2, <1>3, <2>1, <2>2 DEF HistoryInv, HistoryTypeOK
  <2>4. dropped' = dropped + 1
    BY <1>2, <1>5
  <2>5. \A k \in 1 .. Len(history') : history'[k] = Event(dropped' + k, log'[dropped' + k])
    <3> SUFFICES ASSUME NEW k \in 1 .. Len(history)
                 PROVE  history'[k] = Event(dropped + 1 + k, log'[dropped + 1 + k])
      BY <2>3, <2>4
    <3>1. CASE k = Len(history)
      <4>1. dropped + 1 + k = Len(log) + 1
        BY <3>1 DEF HistoryInv, HistoryTypeOK, HistoryIsTheTail
      <4>2. history'[k] = Event(Len(log) + 1, log'[Len(log) + 1])
        BY <1>4, <2>3, <3>1
      <4>3. QED
        BY <4>1, <4>2
    <3>2. CASE k # Len(history)
      <4>1. k \in 1 .. Len(history) - 1 /\ k + 1 \in 1 .. Len(history)
        BY <3>2 DEF HistoryInv, HistoryTypeOK
      <4>2. history'[k] = Event(dropped + (k + 1), log[dropped + (k + 1)])
        BY <2>3, <4>1 DEF HistoryInv, HistoryIsTheTail
      <4>3. dropped + (k + 1) = dropped + 1 + k /\ dropped + 1 + k \in 1 .. Len(log)
        BY <4>1 DEF HistoryInv, HistoryTypeOK, HistoryIsTheTail
      <4>4. QED
        BY <1>4, <4>2, <4>3
    <3>3. QED
      BY <3>1, <3>2
  <2>6. HistoryTypeOK'
    BY <1>4, <2>3, <2>4 DEF HistoryInv, HistoryTypeOK
  <2>7. Len(history') = HistoryCapacity /\ dropped' + Len(history') = Len(log')
    <3>1. /\ Len(log) \in Nat /\ Len(history) \in Nat /\ dropped \in Nat
          /\ dropped + Len(history) = Len(log)
      BY DEF HistoryInv, HistoryTypeOK, HistoryIsTheTail
    <3>2. Len(log') = Len(log) + 1 /\ Len(history') = Len(history) /\ dropped' = dropped + 1
      BY <1>4, <2>3, <2>4
    <3>3. Len(history') = HistoryCapacity
      BY <1>5, <3>2
    <3>4. QED
      BY <3>1, <3>2, <3>3
  <2>8. HistoryIsTheTail' /\ NothingIsDroppedEarly'
    <3>1. Len(history') <= HistoryCapacity
      BY <1>1, <2>7
    <3>2. HistoryIsTheTail'
      BY <2>5, <2>7, <3>1 DEF HistoryIsTheTail
    <3>3. NothingIsDroppedEarly'
      BY <2>7 DEF NothingIsDroppedEarly
    <3>4. QED
      BY <3>2, <3>3
  <2>9. QED
    BY <2>6, <2>8 DEF HistoryInv
<1>6. CASE ~full
  <2>1. Kept = history /\ dropped' = dropped
    BY <1>2, <1>6 DEF Kept
  <2>2. /\ history' \in Seq([n : Nat, kind : Kinds])
        /\ Len(history') = Len(history) + 1
        /\ \A k \in 1 .. Len(history) : history'[k] = history[k]
        /\ history'[Len(history) + 1] = entry
    BY <1>2, <1>3, <2>1 DEF HistoryInv, HistoryTypeOK
  <2>3. \A k \in 1 .. Len(history') : history'[k] = Event(dropped' + k, log'[dropped' + k])
    <3> SUFFICES ASSUME NEW k \in 1 .. Len(history) + 1
                 PROVE  history'[k] = Event(dropped + k, log'[dropped + k])
      BY <2>1, <2>2
    <3>1. CASE k = Len(history) + 1
      BY <1>4, <2>2, <3>1 DEF HistoryInv, HistoryTypeOK, HistoryIsTheTail
    <3>2. CASE k # Len(history) + 1
      <4>1. k \in 1 .. Len(history)
        BY <3>2 DEF HistoryInv, HistoryTypeOK
      <4>2. history'[k] = Event(dropped + k, log[dropped + k])
        BY <2>2, <4>1 DEF HistoryInv, HistoryIsTheTail
      <4>3. dropped + k \in 1 .. Len(log)
        BY <4>1 DEF HistoryInv, HistoryTypeOK, HistoryIsTheTail
      <4>4. QED
        BY <1>4, <4>2, <4>3
    <3>3. QED
      BY <3>1, <3>2
  <2>4. Len(history) < HistoryCapacity /\ dropped = 0
    BY <1>1, <1>6 DEF HistoryInv, HistoryTypeOK, HistoryIsTheTail, NothingIsDroppedEarly
  <2>5. QED
    BY <1>1, <1>4, <2>1, <2>2, <2>3, <2>4
       DEF HistoryInv, HistoryTypeOK, HistoryIsTheTail, NothingIsDroppedEarly
<1>7. QED
  BY <1>5, <1>6

\* The feed is touched by those who publish and by the monitors.
LEMMA StepsOnTheFeed ==
  ASSUME [Next]_vars
  PROVE  UNCHANGED trafficVars \/ (\E kind \in Kinds : Publish(kind)) \/ MonitorNext
<1>1. "Exchange" \in Kinds /\ OtherKinds \subseteq Kinds
  BY GateAssumption DEF Kinds
<1>2. ASSUME NEW c \in Callers, AnswerUnrouted(c) \/ Route(c) \/ Serve(c) \/ Disconnect(c)
      PROVE  UNCHANGED trafficVars \/ \E kind \in Kinds : Publish(kind)
  BY <1>1, <1>2 DEF AnswerUnrouted, Route, Serve, Refuse, Claim, Finish, PublishExchange,
                    Disconnect
<1>3. CASE PublishOther
  BY <1>1, <1>3 DEF PublishOther
<1>4. CASE UNCHANGED vars
  BY <1>4 DEF vars
<1>5. QED
  BY <1>2, <1>3, <1>4 DEF Next

LEMMA HistoryInvariant == Spec => []HistoryInv
<1>1. Init => HistoryInv
  BY TrafficAssumption
     DEF Init, TrafficInit, HistoryInv, HistoryTypeOK, HistoryIsTheTail, NothingIsDroppedEarly
<1>2. HistoryInv /\ [Next]_vars => HistoryInv'
  <2> SUFFICES ASSUME HistoryInv, [Next]_vars PROVE HistoryInv'
    OBVIOUS
  <2>1. CASE UNCHANGED <<log, history, dropped>>
    BY <2>1 DEF HistoryInv, HistoryTypeOK, HistoryIsTheTail, NothingIsDroppedEarly
  <2>2. CASE \E kind \in Kinds : Publish(kind)
    BY <2>2, PublishKeepsTheHistory
  <2>3. CASE MonitorNext
    <3>1. UNCHANGED <<log, history, dropped>>
      BY <2>3 DEF MonitorNext, Attach, Detach, Stream, SendReplay, Gather, GatherLagged,
                  GatherEvent, SendBatch
    <3>2. QED
      BY <2>1, <3>1
  <2>4. CASE UNCHANGED trafficVars
    BY <2>1, <2>4 DEF trafficVars
  <2>5. QED
    BY <2>2, <2>3, <2>4, StepsOnTheFeed
<1>3. QED
  BY <1>1, <1>2, PTL DEF Spec

\* Whatever is published by whom, the history is the gapless end of it, and
\* what it lacks has been counted.
THEOREM HistoryIsKept == Spec => [](HistoryIsTheTail /\ NothingIsDroppedEarly)
<1>1. HistoryInv => HistoryIsTheTail /\ NothingIsDroppedEarly
  BY DEF HistoryInv
<1>2. QED
  BY <1>1, HistoryInvariant, PTL

-----------------------------------------------------------------------------
(***************************************************************************)
(* What a monitor is sent.  The invariant follows the reader through what  *)
(* its stream has put together and not yet sent: item by item it knows     *)
(* where it is and how many events it lacks, and with the last item it is  *)
(* up to date with the receiver.  Reading and selecting are recursive      *)
(* functions; what they compute is found by induction over a set of        *)
(* numbers.                                                                *)
(***************************************************************************)
\* Induction over the natural numbers, for a set.
LEMMA NatBySets ==
  ASSUME NEW A, 0 \in A, \A n \in Nat : n \in A => n + 1 \in A
  PROVE  \A n \in Nat : n \in A
<1> SUFFICES ASSUME NEW n \in Nat, n \notin A PROVE FALSE
  OBVIOUS
<1> DEFINE T == {0 .. k : k \in {j \in 0 .. n : j \notin A}}
           R == StrictSubsetOrdering(Nat)
           S == FiniteSubsetsOf(Nat)
<1>1. IsWellFoundedOn(R, S)
  BY FS_StrictSubsetOrderingWellFounded
<1>2. T \subseteq S
  <2>1. \A k \in 0 .. n : 0 .. k \in SUBSET Nat /\ IsFiniteSet(0 .. k)
    BY FS_Interval
  <2>2. QED
    BY <2>1 DEF FiniteSubsetsOf
<1>3. T # {}
  <2>1. 0 .. n \in T
    OBVIOUS
  <2>2. QED
    BY <2>1
<1> HIDE DEF R, S
<1>4. PICK x \in T : \A y \in T : <<y, x>> \notin R
  BY <1>1, <1>2, <1>3, WFMin
<1>5. PICK k \in 0 .. n : x = 0 .. k /\ k \notin A
  OBVIOUS
<1>6. k # 0 /\ k - 1 \in Nat /\ k - 1 \in 0 .. n
  BY <1>5
<1>7. 0 .. (k - 1) \subseteq 0 .. k /\ 0 .. (k - 1) # 0 .. k
  <2>1. k \in 0 .. k /\ k \notin 0 .. (k - 1)
    BY <1>6
  <2>2. 0 .. (k - 1) \subseteq 0 .. k
    BY <1>6
  <2>3. QED
    BY <2>1, <2>2
<1>8. <<0 .. (k - 1), 0 .. k>> \in R
  <2>1. 0 .. (k - 1) \in SUBSET Nat /\ 0 .. k \in SUBSET Nat
    BY <1>6
  <2>2. QED
    BY <1>7, <2>1 DEF R, StrictSubsetOrdering
<1>9. 0 .. (k - 1) \notin T
  BY <1>4, <1>5, <1>8
<1>10. k - 1 \in A
  BY <1>6, <1>9
<1>11. QED
  BY <1>5, <1>6, <1>10


-----------------------------------------------------------------------------
\* Everything an account looks at, of a given log.
WantedIn(L, f, a, b) == {n \in a .. b : Wants(f, L[n])}

IsAccounted(L, f, a, n) ==
  /\ a.at < n
  /\ \/ a.open
     \/ /\ Cardinality(WantedIn(L, f, a.at + 1, n - 1)) <= a.missing
        /\ a.missing <= n - 1 - a.at

After(L, f, l, a, item) ==
  CASE item.kind = "Replayed" -> [a EXCEPT !.missing = item.before, !.open = l # Unlimited]
    [] item.kind = "Lagged" -> [a EXCEPT !.missing = @ + item.missed]
    [] OTHER -> [at |-> item.n, missing |-> 0, open |-> FALSE,
                 sound |-> a.sound /\ IsAccounted(L, f, a, item.n)]

LEMMA ReaderReadsTheLog ==
  ASSUME NEW m, NEW a, NEW item
  PROVE  /\ AfterItem(m, a, item) = After(log, monitor[m].frames, monitor[m].limit, a, item)
         /\ \A n : Accounted(m, a, n) = IsAccounted(log, monitor[m].frames, a, n)
BY DEF AfterItem, After, Accounted, IsAccounted, WantedBetween, WantedIn

\* What can be sent, and what a reader can know.
Items ==
  [kind : {"Replayed"}, count : Nat, before : Nat] \cup [kind : {"Lagged"}, missed : Nat]
    \cup [n : Nat, kind : Kinds]
Known == [at : Nat, missing : Nat, open : BOOLEAN, sound : {TRUE}]

\* The accounts acc are those of the items q, one by one, from acc[0] on.
AreAccounts(L, f, l, acc, q) ==
  /\ acc \in [0 .. Len(q) -> Known]
  /\ \A k \in 1 .. Len(q) : acc[k] = After(L, f, l, acc[k - 1], q[k])

\* What the reader makes of the first items of a batch.
LEMMA AccountIsTheLast ==
  ASSUME NEW m, NEW batch, Len(batch) \in Nat, NEW acc,
         AreAccounts(log, monitor[m].frames, monitor[m].limit, acc, batch),
         acc[0] = monitor[m].known
  PROVE  Account(m, batch) = acc[Len(batch)]
<1> DEFINE D == 0 .. Len(batch)
           Eq(f) == f = [k \in D |-> IF k = 0 THEN monitor[m].known
                                     ELSE AfterItem(m, f[k - 1], batch[k])]
           g == CHOOSE f : Eq(f)
<1>0. \A k \in 1 .. Len(batch) : acc[k] = AfterItem(m, acc[k - 1], batch[k])
  BY ReaderReadsTheLog DEF AreAccounts
<1>1. Eq(acc)
  <2>1. ASSUME NEW k \in D
        PROVE  acc[k] = IF k = 0 THEN monitor[m].known ELSE AfterItem(m, acc[k - 1], batch[k])
    <3>1. CASE k = 0
      BY <3>1
    <3>2. CASE k # 0
      BY <1>0, <3>2
    <3> QED
      BY <3>1, <3>2
  <2>2. acc = [k \in D |-> acc[k]]
    BY DEF AreAccounts
  <2>3. [k \in D |-> acc[k]] = [k \in D |-> IF k = 0 THEN monitor[m].known
                                           ELSE AfterItem(m, acc[k - 1], batch[k])]
    BY <2>1, Zenon
  <2> QED
    BY <2>2, <2>3, Zenon
<1>2. Eq(g)
  BY <1>1, Zenon
<1>3. Account(m, batch) = g[Len(batch)]
  BY DEF Account
<1> HIDE DEF g
<1> DEFINE A == {k \in Nat : k \in D => g[k] = acc[k]}
<1>4. 0 \in A
  <2>1. g[0] = monitor[m].known
    BY <1>2
  <2> QED
    BY <2>1
<1>5. ASSUME NEW k \in Nat, k \in A PROVE k + 1 \in A
  <2> SUFFICES ASSUME k + 1 \in D PROVE g[k + 1] = acc[k + 1]
    OBVIOUS
  <2>1. k \in D /\ k + 1 \in 1 .. Len(batch) /\ k + 1 # 0 /\ (k + 1) - 1 = k
    OBVIOUS
  <2>2. g[k] = acc[k]
    BY <1>5, <2>1
  <2>3. g[k + 1] = AfterItem(m, g[k], batch[k + 1])
    BY <1>2, <2>1
  <2>4. acc[k + 1] = AfterItem(m, acc[k], batch[k + 1])
    BY <1>0, <2>1
  <2> QED
    BY <2>2, <2>3, <2>4
<1> HIDE DEF A
<1>6. \A k \in Nat : k \in A
  BY <1>4, <1>5, NatBySets
<1>7. Len(batch) \in A
  BY <1>6
<1> QED
  BY <1>3, <1>7 DEF A

\* How many wanted events there are in a stretch of the log.
LEMMA WantedInAStretch ==
  ASSUME NEW L, NEW f, NEW a \in Int, NEW b \in Int
  PROVE  /\ IsFiniteSet(WantedIn(L, f, a, b))
         /\ Cardinality(WantedIn(L, f, a, b)) \in Nat
         /\ Cardinality(WantedIn(L, f, a, b)) <= IF a > b THEN 0 ELSE b - a + 1
<1>1. WantedIn(L, f, a, b) \in SUBSET (a .. b)
  BY DEF WantedIn
<1>2. IsFiniteSet(a .. b) /\ Cardinality(a .. b) = IF a > b THEN 0 ELSE b - a + 1
  BY FS_Interval
<1>3. /\ IsFiniteSet(WantedIn(L, f, a, b))
      /\ Cardinality(WantedIn(L, f, a, b)) <= Cardinality(a .. b)
  BY <1>1, <1>2, FS_Subset
<1> QED
  BY <1>2, <1>3, FS_CardinalityType

LEMMA WantedInMore ==
  ASSUME NEW L, NEW f, NEW a \in Int, NEW b \in Int, NEW c \in Int, a <= b + 1, b <= c
  PROVE  Cardinality(WantedIn(L, f, a, c)) <= Cardinality(WantedIn(L, f, a, b)) + (c - b)
<1> DEFINE S == WantedIn(L, f, a, b)
           T == WantedIn(L, f, b + 1, c)
<1>1. WantedIn(L, f, a, c) = S \cup T
  BY DEF WantedIn
<1>2. IsFiniteSet(S) /\ Cardinality(S) \in Nat
  BY WantedInAStretch
<1>3. IsFiniteSet(T) /\ Cardinality(T) \in Nat /\ Cardinality(T) <= c - b
  BY WantedInAStretch
<1> HIDE DEF S, T
<1>4. Cardinality(S \cup T) = Cardinality(S) + Cardinality(T) - Cardinality(S \cap T)
  BY <1>2, <1>3, FS_Union
<1>5. S \cap T \in SUBSET S
  OBVIOUS
<1>6. Cardinality(S \cap T) \in Nat
  BY <1>2, <1>5, FS_Subset, FS_CardinalityType
<1>7. Cardinality(S \cup T) <= Cardinality(S) + (c - b)
  BY <1>2, <1>3, <1>4, <1>6
<1> QED
  BY <1>1, <1>7 DEF S

LEMMA NoneWantedInMore ==
  ASSUME NEW L, NEW f, NEW a \in Int, NEW b \in Int, NEW c \in Int, a <= b + 1, b <= c,
         \A n \in b + 1 .. c : ~Wants(f, L[n])
  PROVE  WantedIn(L, f, a, c) = WantedIn(L, f, a, b)
BY DEF WantedIn

\* What is still to be sent of what a stream has put together.
Coming(r) == IF r.prelude # <<>> THEN r.prelude ELSE r.batch

Streams ==
  [attached : BOOLEAN, frames : BOOLEAN, limit : Int, prelude : Seq(Items), next : Nat,
   batch : Seq(Items), known : Known]

StreamTypeOK(r) == r \in Streams /\ (r.prelude # <<>> => r.batch = <<>>)

\* The last account is up to date with the receiver.
IsUpToDate(L, r, acc) == IsAccounted(L, r.frames, acc[Len(Coming(r))], r.next)

EventsAreIn(L, q) == \A k \in 1 .. Len(q) : q[k] \in [n : Nat, kind : Kinds] => q[k].n <= Len(L)

StreamInv(L, r) ==
  /\ StreamTypeOK(r)
  /\ r.next <= Len(L) + 1
  /\ EventsAreIn(L, Coming(r))
  /\ \E acc : /\ AreAccounts(L, r.frames, r.limit, acc, Coming(r))
              /\ acc[0] = r.known
              /\ IsUpToDate(L, r, acc)

\* An item is of one kind only.
LEMMA KindsOfItems ==
  ASSUME NEW item \in Items
  PROVE  /\ item.kind = "Replayed" => item.before \in Nat
         /\ item.kind = "Lagged" => item.missed \in Nat
         /\ item.kind \notin {"Replayed", "Lagged"} =>
              item \in [n : Nat, kind : Kinds] /\ item.n \in Nat
BY DEF Items, Kinds, WireKinds

-----------------------------------------------------------------------------
\* The log only grows: what was accounted for stays so.
LEMMA GrowthKeepsStretches ==
  ASSUME NEW L, NEW M, Len(L) \in Nat, \A n \in 1 .. Len(L) : M[n] = L[n],
         NEW f, NEW a \in Known, NEW n \in Nat, n <= Len(L) + 1
  PROVE  IsAccounted(M, f, a, n) <=> IsAccounted(L, f, a, n)
<1>1. WantedIn(M, f, a.at + 1, n - 1) = WantedIn(L, f, a.at + 1, n - 1)
  <2>1. \A k \in a.at + 1 .. n - 1 : M[k] = L[k]
    BY DEF Known
  <2> QED
    BY <2>1 DEF WantedIn
<1> QED
  BY <1>1 DEF IsAccounted

LEMMA GrowthKeepsStreams ==
  ASSUME NEW L, NEW M, Len(L) \in Nat, Len(M) \in Nat, Len(L) <= Len(M),
         \A n \in 1 .. Len(L) : M[n] = L[n],
         NEW r, StreamInv(L, r)
  PROVE  StreamInv(M, r)
<1> DEFINE q == Coming(r)
<1>1. PICK acc : /\ AreAccounts(L, r.frames, r.limit, acc, q)
                 /\ acc[0] = r.known /\ IsUpToDate(L, r, acc)
  BY Zenon DEF StreamInv
<1>2. /\ StreamTypeOK(r) /\ r.next \in Nat /\ r.next <= Len(L) + 1 /\ EventsAreIn(L, q)
      /\ q \in Seq(Items) /\ Len(q) \in Nat
  BY DEF StreamInv, StreamTypeOK, Streams, Coming
<1>0. \A a \in Known, n \in Nat :
        n <= Len(L) + 1 => (IsAccounted(M, r.frames, a, n) <=> IsAccounted(L, r.frames, a, n))
  BY GrowthKeepsStretches
<1> HIDE DEF q
<1>3. AreAccounts(M, r.frames, r.limit, acc, q)
  <2>1. ASSUME NEW k \in 1 .. Len(q)
        PROVE  After(M, r.frames, r.limit, acc[k - 1], q[k]) =
               After(L, r.frames, r.limit, acc[k - 1], q[k])
    <3>1. acc[k - 1] \in Known
      BY <1>1, <1>2 DEF AreAccounts
    <3>2. q[k] \in Items
      BY <1>2, ElementOfSeq
    <3>3. CASE q[k].kind \in {"Replayed", "Lagged"}
      BY <3>3 DEF After
    <3>4. CASE q[k].kind \notin {"Replayed", "Lagged"}
      <4>1. q[k].n \in Nat /\ q[k].n <= Len(L)
        BY <1>2, <3>2, <3>4, KindsOfItems DEF EventsAreIn
      <4>2. IsAccounted(M, r.frames, acc[k - 1], q[k].n) <=>
            IsAccounted(L, r.frames, acc[k - 1], q[k].n)
        BY <1>0, <3>1, <4>1
      <4> QED
        BY <3>4, <4>2 DEF After
    <3> QED
      BY <3>3, <3>4
  <2> QED
    BY <1>1, <2>1 DEF AreAccounts
<1>4. IsUpToDate(M, r, acc)
  <2>1. acc[Len(q)] \in Known
    BY <1>1, <1>2 DEF AreAccounts
  <2>2. IsAccounted(M, r.frames, acc[Len(q)], r.next) <=>
        IsAccounted(L, r.frames, acc[Len(q)], r.next)
    BY <1>0, <1>2, <2>1
  <2> QED
    BY <1>1, <2>2 DEF IsUpToDate, q
<1>5. r.next <= Len(M) + 1 /\ EventsAreIn(M, q)
  <2>1. ASSUME NEW k \in 1 .. Len(q), q[k] \in [n : Nat, kind : Kinds]
        PROVE  q[k].n <= Len(M)
    <3>1. q[k].n \in Nat /\ q[k].n <= Len(L)
      BY <1>2, <2>1 DEF EventsAreIn
    <3> QED
      BY <3>1
  <2> QED
    BY <1>2, <2>1 DEF EventsAreIn
<1> QED
  BY <1>1, <1>2, <1>3, <1>4, <1>5, Zenon DEF StreamInv, q

-----------------------------------------------------------------------------
\* An item joins what is to be sent.
LEMMA AccountsGoOn ==
  ASSUME NEW L, NEW f, NEW l, NEW q \in Seq(Items), NEW acc, AreAccounts(L, f, l, acc, q),
         NEW item \in Items, NEW a \in Known, a = After(L, f, l, acc[Len(q)], item)
  PROVE  \E more : /\ AreAccounts(L, f, l, more, Append(q, item))
                   /\ more[0] = acc[0] /\ more[Len(q) + 1] = a
<1> DEFINE n == Len(q)
           p == Append(q, item)
           more == [k \in 0 .. n + 1 |-> IF k = n + 1 THEN a ELSE acc[k]]
<1>1. n \in Nat /\ p \in Seq(Items) /\ Len(p) = n + 1 /\ p[n + 1] = item
      /\ \A k \in 1 .. n : p[k] = q[k]
  BY AppendProperties, LenProperties
<1>2. \A k \in 0 .. n : acc[k] \in Known
  BY DEF AreAccounts
<1> HIDE DEF n, p
<1>3. more \in [0 .. Len(p) -> Known]
  <2>1. \A k \in 0 .. n + 1 : (IF k = n + 1 THEN a ELSE acc[k]) \in Known
    BY <1>1, <1>2
  <2> QED
    BY <1>1, <2>1
<1>4. ASSUME NEW k \in 1 .. n + 1 PROVE more[k] = After(L, f, l, more[k - 1], p[k])
  <2>1. CASE k = n + 1
    <3>1. more[k] = a /\ more[k - 1] = acc[n] /\ p[k] = item
      BY <1>1, <2>1
    <3> QED
      BY <3>1 DEF n
  <2>2. CASE k # n + 1
    <3>1. k \in 1 .. n /\ more[k] = acc[k] /\ more[k - 1] = acc[k - 1] /\ p[k] = q[k]
      BY <1>1, <2>2
    <3> QED
      BY <3>1 DEF AreAccounts, n
  <2> QED
    BY <2>1, <2>2
<1>5. AreAccounts(L, f, l, more, p)
  BY <1>1, <1>3, <1>4 DEF AreAccounts
<1>6. more[0] = acc[0] /\ more[n + 1] = a
  BY <1>1
<1> QED
  BY <1>5, <1>6 DEF n, p

\* What is left of items and accounts without the first j.
AreRest(L, f, l, acc, q, j, left, rest) ==
  /\ rest \in Seq(Items) /\ Len(rest) = Len(q) - j
  /\ \A k \in 1 .. Len(rest) : rest[k] = q[k + j]
  /\ AreAccounts(L, f, l, left, rest) /\ left[0] = acc[j] /\ left[Len(rest)] = acc[Len(q)]

\* The first j items are sent.
LEMMA AccountsOfTheRest ==
  ASSUME NEW L, NEW f, NEW l, NEW q \in Seq(Items), NEW acc, AreAccounts(L, f, l, acc, q),
         NEW j \in 0 .. Len(q)
  PROVE  /\ SubSeq(q, 1, j) \in Seq(Items) /\ Len(SubSeq(q, 1, j)) = j
         /\ \E sent : /\ AreAccounts(L, f, l, sent, SubSeq(q, 1, j))
                      /\ sent[0] = acc[0] /\ sent[j] = acc[j]
         /\ \E left : AreRest(L, f, l, acc, q, j, left, SubSeq(q, j + 1, Len(q)))
<1> DEFINE n == Len(q)
           chunk == SubSeq(q, 1, j)
           rest == SubSeq(q, j + 1, n)
           sent == [k \in 0 .. j |-> acc[k]]
           left == [k \in 0 .. n - j |-> acc[k + j]]
<1>1. n \in Nat /\ j \in Nat
  BY LenProperties
<1>2. /\ chunk \in Seq(Items) /\ Len(chunk) = j
      /\ \A k \in 1 .. j : chunk[k] = q[k]
  BY <1>1, LenProperties, SubSeqProperties
<1>3. /\ rest \in Seq(Items) /\ Len(rest) = n - j
      /\ \A k \in 1 .. n - j : rest[k] = q[k + j]
  BY <1>1, LenProperties, SubSeqProperties
<1>4. /\ acc \in [0 .. n -> Known]
      /\ \A k \in 1 .. n : acc[k] = After(L, f, l, acc[k - 1], q[k])
  BY DEF AreAccounts
<1> HIDE DEF n, chunk, rest
<1>5. AreAccounts(L, f, l, sent, chunk)
  <2>1. sent \in [0 .. Len(chunk) -> Known]
    BY <1>1, <1>2, <1>4 DEF n
  <2>2. ASSUME NEW k \in 1 .. j PROVE sent[k] = After(L, f, l, sent[k - 1], chunk[k])
    <3>1. k \in 1 .. n /\ sent[k] = acc[k] /\ sent[k - 1] = acc[k - 1] /\ chunk[k] = q[k]
      BY <1>1, <1>2 DEF n
    <3> QED
      BY <1>4, <3>1
  <2> QED
    BY <1>2, <2>1, <2>2 DEF AreAccounts
<1>6. AreAccounts(L, f, l, left, rest)
  <2>1. left \in [0 .. Len(rest) -> Known]
    <3>1. \A k \in 0 .. n - j : acc[k + j] \in Known
      BY <1>1, <1>4 DEF n
    <3> QED
      BY <1>3, <3>1
  <2>2. ASSUME NEW k \in 1 .. n - j PROVE left[k] = After(L, f, l, left[k - 1], rest[k])
    <3>1. /\ k + j \in 1 .. n /\ left[k] = acc[k + j] /\ left[k - 1] = acc[(k + j) - 1]
          /\ rest[k] = q[k + j]
      BY <1>1, <1>3 DEF n
    <3> QED
      BY <1>4, <3>1
  <2> QED
    BY <1>3, <2>1, <2>2 DEF AreAccounts
<1>7. sent[0] = acc[0] /\ sent[j] = acc[j] /\ left[0] = acc[j] /\ left[n - j] = acc[n]
  BY <1>1 DEF n
<1> HIDE DEF sent, left
<1> QED
  BY <1>2, <1>3, <1>5, <1>6, <1>7 DEF n, chunk, rest, AreRest

-----------------------------------------------------------------------------
\* The receiver tells of what it missed.
LEMMA LagIsAccounted ==
  ASSUME NEW L, NEW f, NEW l, NEW a \in Known, NEW n \in Nat, IsAccounted(L, f, a, n),
         NEW k \in Nat
  PROVE  LET b == After(L, f, l, a, Lagged(k)) IN b \in Known /\ IsAccounted(L, f, b, n + k)
<1> DEFINE b == [a EXCEPT !.missing = @ + k]
<1>1. After(L, f, l, a, Lagged(k)) = b
  BY DEF After, Lagged
<1>2. /\ b \in Known /\ b.at = a.at /\ b.open = a.open /\ b.missing = a.missing + k
      /\ a.at \in Nat /\ a.missing \in Nat
  <2>1. a.at \in Nat /\ a.missing \in Nat /\ a.missing + k \in Nat
    BY DEF Known
  <2>2. b.at = a.at /\ b.open = a.open /\ b.missing = a.missing + k
    BY DEF Known
  <2>3. b \in Known
    BY <2>1 DEF Known
  <2> QED
    BY <2>1, <2>2, <2>3
<1> HIDE DEF b
<1>3. CASE a.open
  BY <1>1, <1>2, <1>3 DEF IsAccounted
<1>4. CASE ~a.open
  <2>1. /\ a.at < n /\ a.missing <= n - 1 - a.at
        /\ Cardinality(WantedIn(L, f, a.at + 1, n - 1)) <= a.missing
    BY <1>4 DEF IsAccounted
  <2>2. /\ a.at + 1 \in Int /\ n - 1 \in Int /\ n + k - 1 \in Int
        /\ a.at + 1 <= (n - 1) + 1 /\ n - 1 <= n + k - 1 /\ (n + k - 1) - (n - 1) = k
    BY <1>2, <2>1
  <2>3. Cardinality(WantedIn(L, f, a.at + 1, n + k - 1)) <=
          Cardinality(WantedIn(L, f, a.at + 1, n - 1)) + ((n + k - 1) - (n - 1))
    BY <2>2, WantedInMore
  <2>4. /\ Cardinality(WantedIn(L, f, a.at + 1, n + k - 1)) \in Nat
        /\ Cardinality(WantedIn(L, f, a.at + 1, n - 1)) \in Nat
    BY <2>2, WantedInAStretch
  <2>5. Cardinality(WantedIn(L, f, a.at + 1, n + k - 1)) <= a.missing + k
    BY <1>2, <2>1, <2>2, <2>3, <2>4
  <2>6. a.at < n + k /\ a.missing + k <= (n + k) - 1 - a.at
    BY <1>2, <2>1
  <2> QED
    BY <1>1, <1>2, <2>5, <2>6 DEF IsAccounted
<1> QED
  BY <1>3, <1>4

\* It takes the next event.
LEMMA EventIsAccounted ==
  ASSUME NEW L, NEW f, NEW l, NEW a \in Known, NEW n \in Nat, IsAccounted(L, f, a, n),
         NEW kind \in Kinds
  PROVE  LET b == After(L, f, l, a, Event(n, kind)) IN b \in Known /\ IsAccounted(L, f, b, n + 1)
<1> DEFINE b == [at |-> n, missing |-> 0, open |-> FALSE, sound |-> TRUE]
<1>1. After(L, f, l, a, Event(n, kind)) = b
  <2>1. a.sound = TRUE
    BY DEF Known
  <2>2. kind # "Replayed" /\ kind # "Lagged"
    BY DEF Kinds, WireKinds
  <2>3. (a.sound /\ IsAccounted(L, f, a, n)) = TRUE
    BY <2>1
  <2> QED
    BY <2>2, <2>3 DEF After, Event
<1>2. b \in Known
  BY DEF Known
<1>3. IsAccounted(L, f, b, n + 1)
  <2>1. Cardinality(WantedIn(L, f, n + 1, n)) <= 0
    BY WantedInAStretch
  <2> QED
    BY <2>1 DEF IsAccounted
<1> QED
  BY <1>1, <1>2, <1>3

\* It drops an event its reader does not want.
LEMMA UnwantedIsAccounted ==
  ASSUME NEW L, NEW f, NEW a \in Known, NEW n \in Nat, IsAccounted(L, f, a, n), ~Wants(f, L[n])
  PROVE  IsAccounted(L, f, a, n + 1)
<1>1. a.at \in Nat /\ a.missing \in Nat /\ a.at < n
  BY DEF Known, IsAccounted
<1>2. CASE a.open
  BY <1>1, <1>2 DEF IsAccounted
<1>3. CASE ~a.open
  <2>1. WantedIn(L, f, a.at + 1, n) = WantedIn(L, f, a.at + 1, n - 1)
    <3>1. \A j \in (n - 1) + 1 .. n : ~Wants(f, L[j])
      <4>1. (n - 1) + 1 .. n = {n}
        BY <1>1
      <4> QED
        BY <4>1
    <3>2. a.at + 1 \in Int /\ n - 1 \in Int /\ a.at + 1 <= (n - 1) + 1 /\ n - 1 <= n
      BY <1>1
    <3> QED
      BY <3>1, <3>2, NoneWantedInMore
  <2>2. (n + 1) - 1 = n
    BY <1>1
  <2>3. /\ Cardinality(WantedIn(L, f, a.at + 1, n - 1)) <= a.missing
        /\ a.missing <= n - 1 - a.at
    BY <1>3 DEF IsAccounted
  <2>4. a.at < n + 1 /\ a.missing <= (n + 1) - 1 - a.at
    BY <1>1, <2>3
  <2> QED
    BY <2>1, <2>2, <2>3, <2>4 DEF IsAccounted
<1> QED
  BY <1>2, <1>3

-----------------------------------------------------------------------------
\* What the steps of a stream do to it, of a given log.
LEMMA StreamTakesAnItem ==
  ASSUME NEW L, Len(L) \in Nat, NEW r, StreamInv(L, r), r.prelude = <<>>,
         NEW item \in Items, NEW n \in Nat, n <= Len(L) + 1,
         item \in [n : Nat, kind : Kinds] => item.n <= Len(L),
         \A a \in Known : IsAccounted(L, r.frames, a, r.next) =>
           LET b == After(L, r.frames, r.limit, a, item)
           IN  b \in Known /\ IsAccounted(L, r.frames, b, n)
  PROVE  StreamInv(L, [r EXCEPT !.batch = Append(@, item), !.next = n])
<1> DEFINE s == [r EXCEPT !.batch = Append(@, item), !.next = n]
           q == r.batch
           p == Append(q, item)
<1>1. r \in Streams /\ q \in Seq(Items) /\ Coming(r) = q /\ EventsAreIn(L, q)
  BY DEF StreamInv, StreamTypeOK, Streams, Coming
<1>2. /\ p \in Seq(Items) /\ Len(p) = Len(q) + 1 /\ Len(q) \in Nat /\ p[Len(q) + 1] = item
      /\ \A k \in 1 .. Len(q) : p[k] = q[k]
  BY <1>1, AppendProperties, LenProperties
<1>3. PICK acc : /\ AreAccounts(L, r.frames, r.limit, acc, q)
                 /\ acc[0] = r.known /\ IsUpToDate(L, r, acc)
  BY <1>1, Zenon DEF StreamInv
<1>4. acc[Len(q)] \in Known /\ IsAccounted(L, r.frames, acc[Len(q)], r.next)
  BY <1>1, <1>2, <1>3 DEF AreAccounts, IsUpToDate
<1> DEFINE a == After(L, r.frames, r.limit, acc[Len(q)], item)
<1>5. a \in Known /\ IsAccounted(L, r.frames, a, n)
  BY <1>4
<1> HIDE DEF a
<1>6. PICK more : /\ AreAccounts(L, r.frames, r.limit, more, p)
                  /\ more[0] = acc[0] /\ more[Len(q) + 1] = a
  <2>1. a = After(L, r.frames, r.limit, acc[Len(q)], item)
    BY DEF a
  <2> HIDE DEF p, q
  <2>2. \E more : /\ AreAccounts(L, r.frames, r.limit, more, Append(q, item))
                  /\ more[0] = acc[0] /\ more[Len(q) + 1] = a
    BY <1>1, <1>3, <1>5, <2>1, AccountsGoOn
  <2> QED
    BY <2>2 DEF p
<1>7. /\ s \in Streams /\ s.prelude = <<>> /\ s.batch = p /\ s.next = n /\ s.known = r.known
      /\ s.frames = r.frames /\ s.limit = r.limit
  BY <1>1, <1>2 DEF Streams
<1> HIDE DEF s, p, q
<1>8. Coming(s) = p /\ StreamTypeOK(s)
  BY <1>7 DEF Coming, StreamTypeOK
<1>9. EventsAreIn(L, p)
  <2>1. ASSUME NEW k \in 1 .. Len(p), p[k] \in [n : Nat, kind : Kinds] PROVE p[k].n <= Len(L)
    <3>1. CASE k = Len(p)
      BY <1>2, <2>1, <3>1
    <3>2. CASE k # Len(p)
      <4>1. k \in 1 .. Len(q) /\ p[k] = q[k]
        BY <1>2, <3>2
      <4> QED
        BY <1>1, <2>1, <4>1 DEF EventsAreIn
    <3> QED
      BY <3>1, <3>2
  <2> QED
    BY <2>1 DEF EventsAreIn
<1>10. IsUpToDate(L, s, more)
  BY <1>2, <1>5, <1>6, <1>7, <1>8 DEF IsUpToDate
<1>11. AreAccounts(L, s.frames, s.limit, more, Coming(s)) /\ more[0] = s.known
  BY <1>3, <1>6, <1>7, <1>8
<1> QED
  BY <1>7, <1>8, <1>9, <1>10, <1>11, Zenon DEF StreamInv, s

-----------------------------------------------------------------------------
\* What is chosen of a history, event by event.
Entries == [n : Nat, kind : Kinds]
Chosen(f, s, e) == IF Wants(f, e.kind) THEN Append(s, e) ELSE s

\* What is chosen of the first k events of a history, for every k up to j.
AreChoices(f, h, g, j) ==
  /\ g \in [0 .. j -> Seq(Entries)]
  /\ g[0] = <<>> /\ \A k \in 1 .. j : g[k] = Chosen(f, g[k - 1], h[k])

\* The recursive function there is.
LEMMA SelectionExists ==
  ASSUME NEW f, NEW h \in Seq(Entries)
  PROVE  \A j \in Nat : j <= Len(h) => \E g : AreChoices(f, h, g, j)
<1> DEFINE A == {j \in Nat : j <= Len(h) => \E g : AreChoices(f, h, g, j)}
<1>0. Len(h) \in Nat /\ \A k \in 1 .. Len(h) : h[k] \in Entries
  BY LenProperties, ElementOfSeq
<1>1. 0 \in A
  <2> DEFINE g == [k \in 0 .. 0 |-> <<>>]
  <2>1. <<>> \in Seq(Entries)
    BY EmptySeq
  <2>2. g \in [0 .. 0 -> Seq(Entries)] /\ g[0] = <<>>
    BY <2>1
  <2>3. AreChoices(f, h, g, 0)
    BY <2>2 DEF AreChoices
  <2> QED
    BY <2>3
<1>2. ASSUME NEW j \in Nat, j \in A PROVE j + 1 \in A
  <2> SUFFICES ASSUME j + 1 <= Len(h) PROVE \E g : AreChoices(f, h, g, j + 1)
    OBVIOUS
  <2>1. PICK g : AreChoices(f, h, g, j)
    BY <1>0, <1>2
  <2>2. /\ g \in [0 .. j -> Seq(Entries)]
        /\ g[0] = <<>> /\ \A k \in 1 .. j : g[k] = Chosen(f, g[k - 1], h[k])
    BY <2>1 DEF AreChoices
  <2> DEFINE last == Chosen(f, g[j], h[j + 1])
             more == [k \in 0 .. j + 1 |-> IF k = j + 1 THEN last ELSE g[k]]
  <2>3. last \in Seq(Entries)
    <3>1. g[j] \in Seq(Entries) /\ h[j + 1] \in Entries
      BY <1>0, <2>2
    <3> QED
      BY <3>1, AppendProperties DEF Chosen
  <2> HIDE DEF last
  <2>4. more \in [0 .. j + 1 -> Seq(Entries)]
    BY <2>2, <2>3
  <2>5. more[0] = <<>>
    BY <2>2
  <2>6. ASSUME NEW k \in 1 .. j + 1 PROVE more[k] = Chosen(f, more[k - 1], h[k])
    <3>1. CASE k = j + 1
      <4>1. more[k] = last /\ more[k - 1] = g[j]
        BY <3>1
      <4> QED
        BY <3>1, <4>1 DEF last
    <3>2. CASE k # j + 1
      <4>1. k \in 1 .. j /\ more[k] = g[k] /\ more[k - 1] = g[k - 1]
        BY <3>2
      <4> QED
        BY <2>2, <4>1
    <3> QED
      BY <3>1, <3>2
  <2>7. AreChoices(f, h, more, j + 1)
    BY <2>4, <2>5, <2>6 DEF AreChoices
  <2> QED
    BY <2>7
<1> HIDE DEF A
<1>3. \A j \in Nat : j \in A
  BY <1>1, <1>2, NatBySets
<1> QED
  BY <1>3 DEF A

\* Where the events of s are between d and e, and what is between them.
Place(s, d, e, i) == IF i = 0 THEN d ELSE IF i = Len(s) + 1 THEN e ELSE s[i].n

\* s are the wanted events between d and e, in their order.
IsSelection(L, f, d, e, s) ==
  /\ s \in Seq(Entries)
  /\ \A i \in 1 .. Len(s) : d < s[i].n /\ s[i].n < e
  /\ \A i \in 0 .. Len(s) :
       /\ Place(s, d, e, i) < Place(s, d, e, i + 1)
       /\ \A n \in Place(s, d, e, i) + 1 .. Place(s, d, e, i + 1) - 1 : ~Wants(f, L[n])

LEMMA NothingIsSelected ==
  ASSUME NEW L, NEW f, NEW d \in Nat
  PROVE  IsSelection(L, f, d, d + 1, <<>>)
BY EmptySeq DEF IsSelection, Place

LEMMA NextIsSelected ==
  ASSUME NEW L, NEW f, NEW d \in Nat, NEW e \in Nat, d < e, NEW s, IsSelection(L, f, d, e, s),
         NEW x \in Entries, x.n = e, x.kind = L[e]
  PROVE  IsSelection(L, f, d, e + 1, Chosen(f, s, x))
<1> DEFINE m == Len(s)
<1>1. m \in Nat /\ s \in Seq(Entries) /\ \A i \in 1 .. m : s[i].n \in Nat
  <2>1. \A i \in 1 .. m : s[i] \in Entries
    BY ElementOfSeq DEF IsSelection
  <2> QED
    BY <2>1, LenProperties DEF IsSelection, Entries
<1>2. \A i \in 0 .. m : Place(s, d, e, i) \in Nat /\ Place(s, d, e, i) < e
  BY <1>1 DEF IsSelection, Place
<1>3. CASE Wants(f, x.kind)
  <2> DEFINE t == Append(s, x)
  <2>1. /\ t \in Seq(Entries) /\ Len(t) = m + 1 /\ t[m + 1] = x
        /\ \A i \in 1 .. m : t[i] = s[i]
    BY <1>1, AppendProperties
  <2> HIDE DEF t
  <2>2. \A i \in 1 .. m + 1 : d < t[i].n /\ t[i].n < e + 1
    <3>1. ASSUME NEW i \in 1 .. m PROVE d < t[i].n /\ t[i].n < e + 1
      BY <1>1, <2>1 DEF IsSelection
    <3>2. d < t[m + 1].n /\ t[m + 1].n < e + 1
      BY <2>1
    <3> QED
      BY <1>1, <3>1, <3>2
  <2>3. /\ \A i \in 0 .. m + 1 : Place(t, d, e + 1, i) = Place(s, d, e, i)
        /\ Place(t, d, e + 1, m + 2) = e + 1 /\ Place(s, d, e, m + 1) = e
    <3>1. ASSUME NEW i \in 0 .. m + 1 PROVE Place(t, d, e + 1, i) = Place(s, d, e, i)
      <4>1. CASE i = 0
        BY <4>1 DEF Place
      <4>2. CASE i \in 1 .. m
        BY <1>1, <2>1, <4>2 DEF Place
      <4>3. CASE i = m + 1
        BY <1>1, <2>1, <4>3 DEF Place
      <4> QED
        BY <1>1, <4>1, <4>2, <4>3
    <3> QED
      BY <1>1, <2>1, <3>1 DEF Place
  <2>4. ASSUME NEW i \in 0 .. m + 1
        PROVE  /\ Place(t, d, e + 1, i) < Place(t, d, e + 1, i + 1)
               /\ \A n \in Place(t, d, e + 1, i) + 1 .. Place(t, d, e + 1, i + 1) - 1 :
                    ~Wants(f, L[n])
    <3>1. CASE i = m + 1
      <4>1. Place(t, d, e + 1, i) = e /\ Place(t, d, e + 1, i + 1) = e + 1
        BY <1>1, <2>3, <3>1
      <4> QED
        BY <4>1
    <3>2. CASE i # m + 1
      <4>1. i \in 0 .. m /\ i \in 0 .. m + 1 /\ i + 1 \in 0 .. m + 1
        BY <1>1, <3>2
      <4>2. /\ Place(t, d, e + 1, i) = Place(s, d, e, i)
            /\ Place(t, d, e + 1, i + 1) = Place(s, d, e, i + 1)
        BY <2>3, <4>1
      <4>3. /\ Place(s, d, e, i) < Place(s, d, e, i + 1)
            /\ \A n \in Place(s, d, e, i) + 1 .. Place(s, d, e, i + 1) - 1 : ~Wants(f, L[n])
        BY <4>1 DEF IsSelection
      <4> QED
        BY <4>2, <4>3
    <3> QED
      BY <3>1, <3>2
  <2>5. Chosen(f, s, x) = t
    BY <1>3 DEF Chosen, t
  <2> QED
    BY <2>1, <2>2, <2>4, <2>5 DEF IsSelection
<1>4. CASE ~Wants(f, x.kind)
  <2>1. Chosen(f, s, x) = s
    BY <1>4 DEF Chosen
  <2>2. \A i \in 1 .. m : d < s[i].n /\ s[i].n < e + 1
    BY <1>1 DEF IsSelection
  <2>3. /\ \A i \in 0 .. m : Place(s, d, e + 1, i) = Place(s, d, e, i)
        /\ Place(s, d, e + 1, m + 1) = e + 1 /\ Place(s, d, e, m + 1) = e
    BY <1>1 DEF Place
  <2>4. ASSUME NEW i \in 0 .. m
        PROVE  /\ Place(s, d, e + 1, i) < Place(s, d, e + 1, i + 1)
               /\ \A n \in Place(s, d, e + 1, i) + 1 .. Place(s, d, e + 1, i + 1) - 1 :
                    ~Wants(f, L[n])
    <3>1. /\ Place(s, d, e, i) < Place(s, d, e, i + 1)
          /\ \A n \in Place(s, d, e, i) + 1 .. Place(s, d, e, i + 1) - 1 : ~Wants(f, L[n])
      BY DEF IsSelection
    <3>2. CASE i = m
      <4>1. ASSUME NEW n \in Place(s, d, e, m) + 1 .. e PROVE ~Wants(f, L[n])
        <5>1. CASE n = e
          BY <1>4, <5>1
        <5>2. CASE n # e
          <6>1. n \in Place(s, d, e, m) + 1 .. e - 1
            BY <1>1, <1>2, <5>2
          <6> QED
            BY <2>3, <3>1, <3>2, <6>1
        <5> QED
          BY <5>1, <5>2
      <4>2. Place(s, d, e + 1, i) = Place(s, d, e, m) /\ Place(s, d, e + 1, i + 1) = e + 1
        BY <2>3, <3>2
      <4>3. Place(s, d, e, m) < e + 1 /\ (e + 1) - 1 = e
        <5>1. m \in 0 .. m /\ e \in Nat
          BY <1>1
        <5>2. Place(s, d, e, m) \in Nat /\ Place(s, d, e, m) < e
          BY <1>2, <5>1
        <5> QED
          BY <5>1, <5>2
      <4> QED
        BY <4>1, <4>2, <4>3
    <3>3. CASE i # m
      <4>1. i + 1 \in 0 .. m
        BY <1>1, <3>3
      <4> QED
        BY <2>3, <3>1, <4>1
    <3> QED
      BY <3>2, <3>3
  <2> QED
    BY <1>1, <2>1, <2>2, <2>4 DEF IsSelection
<1> QED
  BY <1>3, <1>4

\* WantedOf selects the wanted events of a history.
LEMMA WantedOfSelects ==
  ASSUME NEW L, NEW f, NEW d \in Nat, NEW h \in Seq(Entries),
         \A k \in 1 .. Len(h) : h[k].n = d + k /\ h[k].kind = L[d + k]
  PROVE  IsSelection(L, f, d, d + Len(h) + 1, WantedOf(f, h))
<1> DEFINE D == 0 .. Len(h)
           Eq(g) == g = [k \in D |-> IF k = 0 THEN <<>>
                                     ELSE IF Wants(f, h[k].kind) THEN Append(g[k - 1], h[k])
                                     ELSE g[k - 1]]
           of == CHOOSE g : Eq(g)
<1>0. Len(h) \in Nat /\ \A k \in 1 .. Len(h) : h[k] \in Entries
  BY LenProperties, ElementOfSeq
<1>1. \E g : Eq(g)
  <2>0. PICK g : AreChoices(f, h, g, Len(h))
    <3>1. \A j \in Nat : j <= Len(h) => \E g : AreChoices(f, h, g, j)
      BY SelectionExists
    <3>2. Len(h) <= Len(h)
      BY <1>0
    <3> QED
      BY <1>0, <3>1, <3>2, Zenon
  <2>1. /\ g \in [0 .. Len(h) -> Seq(Entries)]
        /\ g[0] = <<>> /\ \A k \in 1 .. Len(h) : g[k] = Chosen(f, g[k - 1], h[k])
    BY <2>0 DEF AreChoices
  <2>2. ASSUME NEW k \in D
        PROVE  g[k] = IF k = 0 THEN <<>>
                      ELSE IF Wants(f, h[k].kind) THEN Append(g[k - 1], h[k]) ELSE g[k - 1]
    <3>1. CASE k = 0
      BY <2>1, <3>1
    <3>2. CASE k # 0
      <4>1. k \in 1 .. Len(h)
        BY <3>2
      <4>2. g[k] = Chosen(f, g[k - 1], h[k])
        BY <2>1, <4>1
      <4> QED
        BY <3>2, <4>2 DEF Chosen
    <3> QED
      BY <3>1, <3>2
  <2>3. g = [k \in D |-> g[k]]
    BY <2>1
  <2>4. [k \in D |-> g[k]] =
          [k \in D |-> IF k = 0 THEN <<>>
                       ELSE IF Wants(f, h[k].kind) THEN Append(g[k - 1], h[k]) ELSE g[k - 1]]
    BY <2>2, Zenon
  <2>5. Eq(g)
    BY <2>3, <2>4, Zenon
  <2> QED
    BY <2>5
<1>2. Eq(of)
  BY <1>1, Zenon
<1>3. WantedOf(f, h) = of[Len(h)]
  BY DEF WantedOf
<1> HIDE DEF of
<1>4. of[0] = <<>> /\ \A k \in 1 .. Len(h) : of[k] = Chosen(f, of[k - 1], h[k])
  <2>1. of[0] = <<>>
    BY <1>0, <1>2
  <2>2. ASSUME NEW k \in 1 .. Len(h) PROVE of[k] = Chosen(f, of[k - 1], h[k])
    <3>1. k \in D /\ k # 0
      BY <1>0
    <3> QED
      BY <1>2, <3>1 DEF Chosen
  <2> QED
    BY <2>1, <2>2
<1> DEFINE A == {k \in Nat : k \in D => IsSelection(L, f, d, d + k + 1, of[k])}
<1>5. 0 \in A
  BY <1>4, NothingIsSelected
<1>6. ASSUME NEW k \in Nat, k \in A PROVE k + 1 \in A
  <2> SUFFICES ASSUME k + 1 \in D PROVE IsSelection(L, f, d, d + (k + 1) + 1, of[k + 1])
    OBVIOUS
  <2>1. k \in D /\ k + 1 \in 1 .. Len(h) /\ (k + 1) - 1 = k
    BY <1>0
  <2>2. IsSelection(L, f, d, d + k + 1, of[k])
    BY <1>6, <2>1
  <2>3. of[k + 1] = Chosen(f, of[k], h[k + 1])
    BY <1>4, <2>1
  <2>4. /\ h[k + 1] \in Entries /\ h[k + 1].n = d + k + 1 /\ h[k + 1].kind = L[d + k + 1]
        /\ d + k + 1 \in Nat /\ d < d + k + 1 /\ d + (k + 1) + 1 = (d + k + 1) + 1
    BY <1>0, <2>1
  <2> DEFINE e == d + k + 1
             x == h[k + 1]
             s == of[k]
  <2>5. /\ IsSelection(L, f, d, e, s) /\ e \in Nat /\ d < e
        /\ x \in Entries /\ x.n = e /\ x.kind = L[e]
        /\ of[k + 1] = Chosen(f, s, x) /\ d + (k + 1) + 1 = e + 1
    BY <2>2, <2>3, <2>4
  <2> HIDE DEF e, x, s
  <2> QED
    <3>1. IsSelection(L, f, d, e + 1, Chosen(f, s, x))
      BY <2>5, NextIsSelected
    <3> QED
      BY <2>5, <3>1
<1> HIDE DEF A
<1>7. \A k \in Nat : k \in A
  BY <1>5, <1>6, NatBySets
<1>8. Len(h) \in A
  BY <1>0, <1>7
<1> QED
  BY <1>0, <1>3, <1>8 DEF A

-----------------------------------------------------------------------------
\* From one event to the next with none wanted between them.
LEMMA NothingBetween ==
  ASSUME NEW L, NEW f, NEW x \in Nat, NEW y \in Nat, x < y,
         \A n \in x + 1 .. y - 1 : ~Wants(f, L[n])
  PROVE  IsAccounted(L, f, [at |-> x, missing |-> 0, open |-> FALSE, sound |-> TRUE], y)
<1>1. WantedIn(L, f, x + 1, y - 1) = WantedIn(L, f, x + 1, x)
  BY NoneWantedInMore
<1>2. Cardinality(WantedIn(L, f, x + 1, x)) <= 0
  BY WantedInAStretch
<1> QED
  BY <1>1, <1>2 DEF IsAccounted

\* From the beginning to the first event, when d are missing before the history.
LEMMA NothingButDropped ==
  ASSUME NEW L, NEW f, NEW d \in Nat, NEW y \in Nat, d < y, NEW open \in BOOLEAN,
         open \/ \A n \in d + 1 .. y - 1 : ~Wants(f, L[n])
  PROVE  IsAccounted(L, f, [at |-> 0, missing |-> d, open |-> open, sound |-> TRUE], y)
<1>1. CASE open
  BY <1>1 DEF IsAccounted
<1>2. CASE ~open
  <2>1. WantedIn(L, f, 1, y - 1) = WantedIn(L, f, 1, d)
    BY <1>2, NoneWantedInMore
  <2>2. Cardinality(WantedIn(L, f, 1, d)) <= d
    BY WantedInAStretch
  <2>3. 0 + 1 = 1 /\ 0 < y /\ d <= y - 1 - 0
    OBVIOUS
  <2> QED
    BY <2>1, <2>2, <2>3 DEF IsAccounted
<1> QED
  BY <1>1, <1>2

\* The newest of a selection.
LEMMA NewestIsTheEnd ==
  ASSUME NEW s \in Seq(Entries), NEW l \in Nat \cup {Unlimited}
  PROVE  \E off \in 0 .. Len(s) :
           /\ Newest(s, l) \in Seq(Entries) /\ Len(Newest(s, l)) = Len(s) - off
           /\ \A k \in 1 .. Len(s) - off : Newest(s, l)[k] = s[k + off]
           /\ l = Unlimited => off = 0
<1>1. Len(s) \in Nat
  BY LenProperties
<1>2. CASE l # Unlimited /\ Len(s) > l
  <2> DEFINE off == Len(s) - l
             t == SubSeq(s, off + 1, Len(s))
  <2>1. off \in 0 .. Len(s) /\ off + 1 \in 1 .. Len(s) + 1
    BY <1>1, <1>2
  <2>2. Newest(s, l) = t
    BY <1>2 DEF Newest
  <2>3. t \in Seq(Entries) /\ Len(t) = Len(s) - off
        /\ \A k \in 1 .. Len(s) - off : t[k] = s[k + off]
    BY <1>1, <2>1, SubSeqProperties
  <2> HIDE DEF off, t
  <2> QED
    BY <1>2, <2>1, <2>2, <2>3
<1>3. CASE ~(l # Unlimited /\ Len(s) > l)
  <2>1. Newest(s, l) = s
    BY <1>3 DEF Newest
  <2>2. 0 \in 0 .. Len(s) /\ \A k \in 1 .. Len(s) - 0 : s[k] = s[k + 0]
    BY <1>1
  <2> QED
    BY <1>1, <2>1, <2>2
<1> QED
  BY <1>2, <1>3

\* The prelude of a monitor that attaches: it is told of the d events that went
\* before the history, and shown those of the selection s but the first off.
IsReplay(q, L, f, l, d, s, off, c) ==
  /\ Len(L) \in Nat /\ d \in Nat /\ d <= Len(L)
  /\ IsSelection(L, f, d, Len(L) + 1, s)
  /\ off \in 0 .. Len(s) /\ (l = Unlimited => off = 0)
  /\ Len(q) = Len(s) - off + 1 /\ q[1] = Replayed(c, d)
  /\ \A k \in 2 .. Len(q) : q[k] = s[k - 1 + off]

\* What is replayed is accounted for up to the present.
LEMMA ReplayIsAccounted ==
  ASSUME NEW q, NEW L, NEW f, NEW l, NEW d, NEW s, NEW off, NEW c,
         IsReplay(q, L, f, l, d, s, off, c)
  PROVE  \E acc : /\ AreAccounts(L, f, l, acc, q) /\ acc[0] = NothingKnown
                  /\ IsAccounted(L, f, acc[Len(q)], Len(L) + 1)
<1> DEFINE e == Len(L) + 1
           size == Len(s)
           A(k) == IF k = 0 THEN NothingKnown
                   ELSE IF k = 1 THEN [at |-> 0, missing |-> d, open |-> l # Unlimited, sound |-> TRUE]
                   ELSE [at |-> s[k - 1 + off].n, missing |-> 0, open |-> FALSE, sound |-> TRUE]
           acc == [k \in 0 .. Len(q) |-> A(k)]
<1> USE DEF IsReplay
<1>0. e \in Nat /\ d < e /\ d \in Nat
  OBVIOUS
<1>1. size \in Nat /\ off \in Nat /\ off <= size /\ Len(q) = size - off + 1
      /\ \A i \in 1 .. size : s[i] \in Entries /\ s[i].n \in Nat /\ d < s[i].n /\ s[i].n < e
  <2>1. \A i \in 1 .. size : s[i] \in Entries
    BY ElementOfSeq DEF IsSelection
  <2> QED
    BY <2>1, LenProperties DEF IsSelection, Entries
<1>2. \A i \in 0 .. size :
        /\ Place(s, d, e, i) < Place(s, d, e, i + 1)
        /\ \A n \in Place(s, d, e, i) + 1 .. Place(s, d, e, i + 1) - 1 : ~Wants(f, L[n])
  BY DEF IsSelection
<1>3. /\ Place(s, d, e, 0) = d /\ Place(s, d, e, size + 1) = e
      /\ \A i \in 1 .. size : Place(s, d, e, i) = s[i].n
  BY <1>1 DEF Place
<1> HIDE DEF e, size
\* The account of the k-th item leads to any later event.
<1>4. ASSUME NEW k \in 1 .. Len(q)
      PROVE  A(k) \in Known /\ IsAccounted(L, f, A(k), Place(s, d, e, k + off))
  <2>1. CASE k = 1
    <3> DEFINE y == Place(s, d, e, 1 + off)
    <3>1. y \in Nat /\ d < y
      <4>1. CASE off = size
        BY <1>0, <1>1, <1>3, <4>1
      <4>2. CASE off # size
        <5>1. 1 + off \in 1 .. size
          BY <1>1, <4>2
        <5> QED
          BY <1>1, <1>3, <5>1
      <4> QED
        BY <4>1, <4>2
    <3>2. l # Unlimited \/ \A n \in d + 1 .. y - 1 : ~Wants(f, L[n])
      <4> SUFFICES ASSUME off = 0 PROVE \A n \in d + 1 .. y - 1 : ~Wants(f, L[n])
        OBVIOUS
      <4>1. 0 \in 0 .. size /\ 0 + 1 = 1 + off
        BY <1>1
      <4> QED
        BY <1>2, <1>3, <4>1
    <3> HIDE DEF y
    <3>3. A(1) = [at |-> 0, missing |-> d, open |-> l # Unlimited, sound |-> TRUE]
      OBVIOUS
    <3>4. IsAccounted(L, f, A(1), y)
      BY <3>1, <3>2, <3>3, NothingButDropped
    <3>5. A(1) \in Known
      BY <3>3 DEF Known
    <3> QED
      BY <2>1, <3>4, <3>5 DEF y
  <2>2. CASE k # 1
    <3> DEFINE i == k - 1 + off
               y == Place(s, d, e, i + 1)
    <3>1. i \in 1 .. size /\ i \in 0 .. size /\ i + 1 = k + off /\ (i + 1 \in 1 .. size \/ i + 1 = size + 1)
      BY <1>1, <2>2
    <3>2. A(k) = [at |-> s[i].n, missing |-> 0, open |-> FALSE, sound |-> TRUE]
      BY <2>2
    <3>3. s[i].n \in Nat /\ Place(s, d, e, i) = s[i].n
      BY <1>1, <1>3, <3>1
    <3>4. y \in Nat
      BY <1>0, <1>1, <1>3, <3>1
    <3>5. s[i].n < y /\ \A n \in s[i].n + 1 .. y - 1 : ~Wants(f, L[n])
      BY <1>2, <3>1, <3>3
    <3> HIDE DEF i, y, A
    <3>6. IsAccounted(L, f, A(k), y)
      BY <3>2, <3>3, <3>4, <3>5, NothingBetween
    <3>7. A(k) \in Known
      BY <3>2, <3>3 DEF Known
    <3> QED
      BY <3>1, <3>6, <3>7 DEF y
  <2> QED
    BY <2>1, <2>2
<1>5. A(0) = NothingKnown /\ NothingKnown \in Known
  BY DEF NothingKnown, Known
<1>6. ASSUME NEW k \in 1 .. Len(q) PROVE A(k) = After(L, f, l, A(k - 1), q[k])
  <2>1. CASE k = 1
    <3>1. q[k].kind = "Replayed" /\ q[k].before = d
      BY <2>1 DEF Replayed
    <3>3. A(k) = [at |-> 0, missing |-> d, open |-> l # Unlimited, sound |-> TRUE]
      BY <2>1
    <3> HIDE DEF A
    <3>4. A(k - 1) = NothingKnown
      BY <1>5, <2>1
    <3>2. After(L, f, l, A(k - 1), q[k]) =
            [NothingKnown EXCEPT !.missing = d, !.open = l # Unlimited]
      BY <3>1, <3>4 DEF After
    <3> QED
      BY <3>2, <3>3 DEF NothingKnown
  <2>2. CASE k # 1
    <3> DEFINE i == k - 1 + off
               b == A(k - 1)
    <3>1. i \in 1 .. size /\ k - 1 \in 1 .. Len(q) /\ (k - 1) + off = i /\ q[k] = s[i]
      BY <1>1, <2>2
    <3>2. A(k) = [at |-> s[i].n, missing |-> 0, open |-> FALSE, sound |-> TRUE]
      BY <2>2
    <3>3. b \in Known /\ IsAccounted(L, f, b, s[i].n)
      BY <1>3, <1>4, <3>1
    <3> HIDE DEF A, i, b
    <3>4. q[k].kind \notin {"Replayed", "Lagged"}
      BY <1>1, <3>1 DEF Entries, Kinds, WireKinds
    <3>5. b.sound = TRUE
      BY <3>3 DEF Known
    <3>6. After(L, f, l, b, q[k]) = [at |-> q[k].n, missing |-> 0, open |-> FALSE,
                 sound |-> b.sound /\ IsAccounted(L, f, b, q[k].n)]
      BY <3>4 DEF After
    <3>7. (b.sound /\ IsAccounted(L, f, b, q[k].n)) = TRUE
      BY <3>1, <3>3, <3>5
    <3> QED
      BY <3>1, <3>2, <3>6, <3>7 DEF b
  <2> QED
    BY <2>1, <2>2
<1> HIDE DEF A
<1>7. AreAccounts(L, f, l, acc, q)
  <2>1. ASSUME NEW k \in 0 .. Len(q) PROVE A(k) \in Known
    BY <1>1, <1>4, <1>5
  <2>2. acc \in [0 .. Len(q) -> Known]
    BY <2>1
  <2>3. ASSUME NEW k \in 1 .. Len(q) PROVE acc[k] = After(L, f, l, acc[k - 1], q[k])
    <3>1. acc[k] = A(k) /\ acc[k - 1] = A(k - 1)
      BY <1>1
    <3> QED
      BY <1>6, <3>1
  <2> QED
    BY <2>2, <2>3 DEF AreAccounts
<1>8. acc[0] = NothingKnown /\ acc[Len(q)] = A(Len(q))
  BY <1>1, <1>5
<1>9. IsAccounted(L, f, A(Len(q)), e)
  <2>1. Len(q) \in 1 .. Len(q) /\ Len(q) + off = size + 1
    BY <1>1
  <2> QED
    BY <1>3, <1>4, <2>1
<1> QED
  BY <1>7, <1>8, <1>9 DEF e

-----------------------------------------------------------------------------
\* What is left when the first j items were sent.
LEMMA RestIsAccounted ==
  ASSUME NEW L, NEW r, StreamInv(L, r), NEW acc, IsUpToDate(L, r, acc),
         AreAccounts(L, r.frames, r.limit, acc, Coming(r)),
         NEW j \in 0 .. Len(Coming(r)),
         NEW s, StreamTypeOK(s), Coming(s) = SubSeq(Coming(r), j + 1, Len(Coming(r))),
         s.known = acc[j], s.next = r.next, s.frames = r.frames, s.limit = r.limit
  PROVE  StreamInv(L, s)
<1> DEFINE q == Coming(r)
           rest == Coming(s)
<1>1. q \in Seq(Items) /\ EventsAreIn(L, q) /\ r.next <= Len(L) + 1 /\ Len(q) \in Nat
  BY LenProperties DEF StreamInv, StreamTypeOK, Streams, Coming
<1>2. PICK left : AreRest(L, r.frames, r.limit, acc, q, j, left, rest)
  BY <1>1, AccountsOfTheRest
<1>3. /\ rest \in Seq(Items) /\ Len(rest) = Len(q) - j
      /\ \A k \in 1 .. Len(rest) : rest[k] = q[k + j]
      /\ AreAccounts(L, r.frames, r.limit, left, rest)
      /\ left[0] = acc[j] /\ left[Len(rest)] = acc[Len(q)]
  BY <1>2 DEF AreRest
<1>4. EventsAreIn(L, rest)
  <2>1. ASSUME NEW k \in 1 .. Len(rest), rest[k] \in [n : Nat, kind : Kinds]
        PROVE  rest[k].n <= Len(L)
    <3>1. k + j \in 1 .. Len(q) /\ rest[k] = q[k + j]
      BY <1>1, <1>3
    <3> QED
      BY <1>1, <2>1, <3>1 DEF EventsAreIn
  <2> QED
    BY <2>1 DEF EventsAreIn
<1>5. IsUpToDate(L, s, left)
  BY <1>3 DEF IsUpToDate
<1> HIDE DEF q, rest
<1>6. AreAccounts(L, s.frames, s.limit, left, rest) /\ left[0] = s.known
  BY <1>3
<1> QED
  BY <1>1, <1>4, <1>5, <1>6, Zenon DEF StreamInv, rest

-----------------------------------------------------------------------------
\* Every monitor's stream accounts for all that was published.
MonitorInv ==
  /\ monitor \in [Monitors -> Streams]
  /\ \A m \in Monitors : StreamInv(log, monitor[m])

\* A step of one monitor.
LEMMA OneStreamMoves ==
  ASSUME MonitorInv, NEW m \in Monitors, NEW s, monitor' = [monitor EXCEPT ![m] = s],
         log' = log, s \in Streams, StreamInv(log, s)
  PROVE  MonitorInv'
<1>1. monitor' \in [Monitors -> Streams]
  BY DEF MonitorInv
<1>2. ASSUME NEW o \in Monitors PROVE StreamInv(log, monitor'[o])
  <2>1. monitor'[o] = s \/ monitor'[o] = monitor[o]
    BY DEF MonitorInv
  <2> QED
    BY <2>1, Zenon DEF MonitorInv
<1> QED
  BY <1>1, <1>2 DEF MonitorInv

LEMMA DetachedIsAccounted ==
  ASSUME Len(log) \in Nat
  PROVE  Detached \in Streams /\ StreamInv(log, Detached)
<1> DEFINE acc == [k \in 0 .. 0 |-> NothingKnown]
           r == Detached
<1>1. NothingKnown \in Known
  BY DEF NothingKnown, Known
<1>2. r \in Streams /\ r.prelude = <<>> /\ r.batch = <<>> /\ r.next = 1 /\ r.known = NothingKnown
  BY <1>1, EmptySeq DEF Detached, Streams, Unlimited
<1>3. Coming(r) = <<>> /\ Len(<<>>) = 0
  BY <1>2 DEF Coming
<1> HIDE DEF r
<1>4. AreAccounts(log, r.frames, r.limit, acc, <<>>) /\ acc[0] = r.known
  BY <1>1, <1>2, <1>3 DEF AreAccounts
<1>5. IsAccounted(log, r.frames, NothingKnown, 1)
  <2>1. Cardinality(WantedIn(log, r.frames, 1, 0)) <= 0
    BY WantedInAStretch
  <2> QED
    BY <2>1 DEF IsAccounted, NothingKnown
<1>6. IsUpToDate(log, r, acc)
  BY <1>2, <1>3, <1>5 DEF IsUpToDate
<1>7. StreamTypeOK(r) /\ r.next <= Len(log) + 1 /\ EventsAreIn(log, <<>>)
  BY <1>2 DEF StreamTypeOK, EventsAreIn
<1> HIDE DEF acc
<1>8. StreamInv(log, r)
  BY <1>3, <1>4, <1>6, <1>7, Zenon DEF StreamInv
<1> QED
  BY <1>2, <1>8 DEF r

LEMMA AttachKeepsAccounts ==
  ASSUME HistoryInv, MonitorInv, NEW m \in Monitors, NEW frames \in BOOLEAN,
         NEW limit \in HistoryLimits, Attach(m, frames, limit)
  PROVE  MonitorInv'
<1> DEFINE wanted == WantedOf(frames, history)
           replay == Newest(wanted, limit)
           first == Replayed(Len(replay), dropped)
           q == <<first>> \o replay
           s == [Detached EXCEPT !.attached = TRUE, !.frames = frames, !.limit = limit,
                   !.next = ReceivesFrom, !.prelude = q]
<1>1. /\ log \in Seq(Kinds) /\ Len(log) \in Nat /\ dropped \in Nat
      /\ history \in Seq(Entries) /\ Len(history) \in Nat
      /\ dropped + Len(history) = Len(log)
      /\ \A k \in 1 .. Len(history) :
           history[k].n = dropped + k /\ history[k].kind = log[dropped + k]
  <2>1. /\ log \in Seq(Kinds) /\ history \in Seq(Entries) /\ dropped \in Nat
        /\ dropped + Len(history) = Len(log)
    BY DEF HistoryInv, HistoryTypeOK, HistoryIsTheTail, Entries
  <2>2. ASSUME NEW k \in 1 .. Len(history)
        PROVE  history[k].n = dropped + k /\ history[k].kind = log[dropped + k]
    <3>1. history[k] = Event(dropped + k, log[dropped + k])
      BY DEF HistoryInv, HistoryIsTheTail
    <3> QED
      BY <3>1 DEF Event
  <2> QED
    BY <2>1, <2>2, LenProperties
<1>2. limit \in Nat \cup {Unlimited} /\ limit \in Int
  BY TrafficAssumption DEF Unlimited
<1>3. IsSelection(log, frames, dropped, Len(log) + 1, wanted)
  BY <1>1, WantedOfSelects
<1>4. wanted \in Seq(Entries) /\ Len(wanted) \in Nat
  BY <1>3, LenProperties DEF IsSelection
<1>5. PICK off \in 0 .. Len(wanted) :
        /\ replay \in Seq(Entries) /\ Len(replay) = Len(wanted) - off
        /\ \A k \in 1 .. Len(wanted) - off : replay[k] = wanted[k + off]
        /\ limit = Unlimited => off = 0
  BY <1>2, <1>4, NewestIsTheEnd
<1> HIDE DEF wanted, replay
<1>6. replay \in Seq(Items) /\ first \in Items /\ Len(replay) \in Nat
  <2>1. Entries \subseteq Items
    BY DEF Entries, Items
  <2>2. Len(replay) \in Nat
    BY <1>5, LenProperties
  <2>3. replay \in [1 .. Len(replay) -> Entries]
    BY <1>5, LenProperties
  <2>4. replay \in Seq(Items)
    BY <1>5, <2>1
  <2> QED
    BY <1>1, <2>2, <2>4 DEF Replayed, Items
<1> HIDE DEF first
<1>7. /\ q \in Seq(Items) /\ Len(q) = Len(wanted) - off + 1 /\ q[1] = first /\ q # <<>>
      /\ \A k \in 2 .. Len(q) : q[k] = wanted[k - 1 + off]
  <2>1. <<first>> \in Seq(Items) /\ Len(<<first>>) = 1 /\ <<first>>[1] = first
    BY <1>6
  <2>2. /\ q \in Seq(Items) /\ Len(q) = 1 + Len(replay)
        /\ \A k \in 1 .. Len(q) : q[k] = IF k <= 1 THEN <<first>>[k] ELSE replay[k - 1]
    BY <1>6, <2>1, ConcatProperties
  <2> HIDE DEF q
  <2>3. Len(q) = Len(wanted) - off + 1 /\ q[1] = first /\ q # <<>>
    BY <1>4, <1>5, <1>6, <2>1, <2>2
  <2>4. ASSUME NEW k \in 2 .. Len(q) PROVE q[k] = wanted[k - 1 + off]
    <3>1. k \in 1 .. Len(q) /\ ~(k <= 1) /\ k - 1 \in 1 .. Len(wanted) - off
      BY <1>4, <2>3
    <3>2. q[k] = replay[k - 1]
      BY <2>2, <3>1
    <3> QED
      BY <1>5, <3>1, <3>2
  <2> QED
    BY <2>2, <2>3, <2>4
<1> HIDE DEF q
<1>8. PICK acc : /\ AreAccounts(log, frames, limit, acc, q) /\ acc[0] = NothingKnown
                 /\ IsAccounted(log, frames, acc[Len(q)], Len(log) + 1)
  <2>1. q[1] = Replayed(Len(replay), dropped) /\ dropped <= Len(log)
    BY <1>1, <1>7 DEF first
  <2>2. IsReplay(q, log, frames, limit, dropped, wanted, off, Len(replay))
    BY <1>1, <1>3, <1>5, <1>7, <2>1 DEF IsReplay
  <2>3. \E acc : /\ AreAccounts(log, frames, limit, acc, q) /\ acc[0] = NothingKnown
                 /\ IsAccounted(log, frames, acc[Len(q)], Len(log) + 1)
    BY <2>2, ReplayIsAccounted
  <2> QED
    BY <2>3, Zenon
<1>9. /\ s \in Streams /\ s.prelude = q /\ s.batch = <<>> /\ s.next = Len(log) + 1
      /\ s.known = NothingKnown /\ s.frames = frames /\ s.limit = limit
  <2>1. NothingKnown \in Known /\ <<>> \in Seq(Items) /\ Len(log) + 1 \in Nat
    BY <1>1, EmptySeq DEF NothingKnown, Known
  <2> QED
    BY <1>2, <1>7, <2>1 DEF Detached, Streams, ReceivesFrom
<1>10. monitor' = [monitor EXCEPT ![m] = s] /\ log' = log
  BY DEF Attach, s, q, first, replay, wanted
<1> HIDE DEF s
<1>11. Coming(s) = q /\ StreamTypeOK(s)
  BY <1>7, <1>9 DEF Coming, StreamTypeOK
<1>12. EventsAreIn(log, q)
  <2>1. ASSUME NEW k \in 1 .. Len(q), q[k] \in [n : Nat, kind : Kinds] PROVE q[k].n <= Len(log)
    <3>1. CASE k = 1
      BY <1>7, <2>1, <3>1 DEF first, Replayed, Kinds, WireKinds
    <3>2. CASE k # 1
      <4>1. k - 1 + off \in 1 .. Len(wanted) /\ q[k] = wanted[k - 1 + off]
        BY <1>4, <1>7, <3>2
      <4>2. q[k].n < Len(log) + 1
        BY <1>3, <4>1 DEF IsSelection
      <4>3. q[k].n \in Nat
        BY <2>1
      <4> QED
        BY <1>1, <4>2, <4>3
    <3> QED
      BY <3>1, <3>2
  <2> QED
    BY <2>1 DEF EventsAreIn
<1>13. IsUpToDate(log, s, acc) /\ s.next <= Len(log) + 1
  BY <1>1, <1>8, <1>9, <1>11 DEF IsUpToDate
<1>14. AreAccounts(log, s.frames, s.limit, acc, q) /\ acc[0] = s.known
  BY <1>8, <1>9
<1>15. StreamInv(log, s)
  BY <1>11, <1>12, <1>13, <1>14, Zenon DEF StreamInv
<1> QED
  BY <1>9, <1>10, <1>15, OneStreamMoves

LEMMA SendReplayKeepsAccounts ==
  ASSUME Len(log) \in Nat, MonitorInv, NEW m \in Monitors, SendReplay(m)
  PROVE  MonitorInv'
<1> DEFINE r == monitor[m]
           q == r.prelude
           j == IF Len(q) < BatchSize THEN Len(q) ELSE BatchSize
           chunk == SubSeq(q, 1, j)
           rest == SubSeq(q, j + 1, Len(q))
           a == Account(m, chunk)
           s == [r EXCEPT !.known = a, !.prelude = rest]
<1>1. /\ r \in Streams /\ StreamInv(log, r) /\ q # <<>> /\ Coming(r) = q
      /\ q \in Seq(Items) /\ Len(q) \in Nat /\ r.batch = <<>>
  <2>1. r \in Streams /\ StreamInv(log, r) /\ q # <<>>
    BY DEF MonitorInv, SendReplay
  <2> QED
    BY <2>1, LenProperties DEF StreamInv, StreamTypeOK, Streams, Coming
<1>2. j \in 0 .. Len(q)
  BY <1>1, TrafficAssumption
<1>3. Chunk(q) = chunk
  BY DEF Chunk
<1>4. PICK acc : /\ AreAccounts(log, r.frames, r.limit, acc, q)
                 /\ acc[0] = r.known /\ IsUpToDate(log, r, acc)
  BY <1>1, Zenon DEF StreamInv
<1>5. /\ chunk \in Seq(Items) /\ Len(chunk) = j
      /\ rest \in Seq(Items) /\ Len(rest) = Len(q) - j
      /\ \E sent : /\ AreAccounts(log, r.frames, r.limit, sent, chunk)
                   /\ sent[0] = acc[0] /\ sent[j] = acc[j]
  <2> HIDE DEF q, j
  <2>1. PICK left : AreRest(log, r.frames, r.limit, acc, q, j, left, rest)
    BY <1>1, <1>2, <1>4, AccountsOfTheRest
  <2> QED
    BY <1>1, <1>2, <1>4, <2>1, AccountsOfTheRest DEF AreRest
<1>6. monitor' = [monitor EXCEPT ![m] = s] /\ log' = log
  BY <1>3, <1>5, Zenon DEF SendReplay, MonitorInv
<1>7. PICK sent : /\ AreAccounts(log, r.frames, r.limit, sent, chunk)
                  /\ sent[0] = acc[0] /\ sent[j] = acc[j]
  BY <1>5, Zenon
<1> HIDE DEF chunk, rest, j
<1>8. a = acc[j]
  <2>1. Len(chunk) \in Nat /\ sent[0] = monitor[m].known
    BY <1>2, <1>4, <1>5, <1>7
  <2>2. a = sent[Len(chunk)]
    BY <1>7, <2>1, AccountIsTheLast
  <2> QED
    BY <1>5, <1>7, <2>2
<1>9. a \in Known
  BY <1>2, <1>4, <1>8 DEF AreAccounts
<1> HIDE DEF a
<1>10. /\ s \in Streams /\ s.prelude = rest /\ s.batch = <<>> /\ s.next = r.next
       /\ s.known = a /\ s.frames = r.frames /\ s.limit = r.limit
  BY <1>1, <1>5, <1>9 DEF Streams
<1> HIDE DEF s
<1>11. StreamTypeOK(s)
  BY <1>10 DEF StreamTypeOK
<1>12. Coming(s) = SubSeq(q, j + 1, Len(q))
  BY <1>10 DEF Coming, rest
<1> HIDE DEF q
<1>13. StreamInv(log, s)
  BY <1>1, <1>2, <1>4, <1>8, <1>10, <1>11, <1>12, RestIsAccounted
<1> QED
  BY <1>6, <1>10, <1>13, OneStreamMoves

LEMMA SendBatchKeepsAccounts ==
  ASSUME Len(log) \in Nat, MonitorInv, NEW m \in Monitors, SendBatch(m)
  PROVE  MonitorInv'
<1> DEFINE r == monitor[m]
           q == r.batch
           a == Account(m, q)
           s == [r EXCEPT !.known = a, !.batch = <<>>]
<1>1. /\ r \in Streams /\ StreamInv(log, r) /\ q # <<>> /\ r.prelude = <<>> /\ Coming(r) = q
      /\ q \in Seq(Items) /\ Len(q) \in Nat
  <2>1. r \in Streams /\ StreamInv(log, r) /\ q # <<>>
    BY DEF MonitorInv, SendBatch
  <2> QED
    BY <2>1, LenProperties DEF StreamInv, StreamTypeOK, Streams, Coming
<1>2. PICK acc : /\ AreAccounts(log, r.frames, r.limit, acc, q)
                 /\ acc[0] = r.known /\ IsUpToDate(log, r, acc)
  BY <1>1, Zenon DEF StreamInv
<1>3. monitor' = [monitor EXCEPT ![m] = s] /\ log' = log
  BY Zenon DEF SendBatch, MonitorInv
<1>4. a = acc[Len(q)]
  BY <1>1, <1>2, AccountIsTheLast
<1>5. a \in Known
  BY <1>1, <1>2, <1>4 DEF AreAccounts
<1> HIDE DEF a
<1>6. /\ s \in Streams /\ s.prelude = <<>> /\ s.batch = <<>> /\ s.next = r.next
      /\ s.known = a /\ s.frames = r.frames /\ s.limit = r.limit
  BY <1>1, <1>5, EmptySeq DEF Streams
<1> HIDE DEF s
<1>7. StreamTypeOK(s) /\ Coming(s) = <<>>
  BY <1>6 DEF StreamTypeOK, Coming
<1>8. SubSeq(q, Len(q) + 1, Len(q)) = <<>>
  BY <1>1, SubSeqProperties
<1> HIDE DEF q
<1>9. Len(q) \in 0 .. Len(q)
  BY <1>1
<1>10. StreamInv(log, s)
  BY <1>1, <1>2, <1>4, <1>6, <1>7, <1>8, <1>9, RestIsAccounted
<1> QED
  BY <1>3, <1>6, <1>10, OneStreamMoves

\* An event its reader does not want changes nothing but the position.
LEMMA StreamSkipsAnEvent ==
  ASSUME NEW L, Len(L) \in Nat, NEW r, StreamInv(L, r), r.next <= Len(L),
         ~Wants(r.frames, L[r.next])
  PROVE  StreamInv(L, [r EXCEPT !.batch = @, !.next = r.next + 1])
<1> DEFINE q == Coming(r)
           s == [r EXCEPT !.batch = @, !.next = r.next + 1]
<1>1. /\ r \in Streams /\ r.next \in Nat /\ r.next + 1 \in Nat /\ EventsAreIn(L, q)
      /\ q \in Seq(Items) /\ Len(q) \in Nat /\ (r.prelude # <<>> => r.batch = <<>>)
  BY LenProperties DEF StreamInv, StreamTypeOK, Streams, Coming
<1>2. /\ s.prelude = r.prelude /\ s.batch = r.batch /\ s.known = r.known
      /\ s.frames = r.frames /\ s.limit = r.limit /\ s.next = r.next + 1
  BY <1>1 DEF Streams
<1>3. s \in Streams
  BY <1>1 DEF Streams
<1> HIDE DEF s
<1>4. StreamTypeOK(s) /\ Coming(s) = q
  BY <1>1, <1>2, <1>3 DEF StreamTypeOK, Coming
<1>5. PICK acc : /\ AreAccounts(L, r.frames, r.limit, acc, q)
                 /\ acc[0] = r.known /\ IsUpToDate(L, r, acc)
  BY Zenon DEF StreamInv
<1>6. acc[Len(q)] \in Known
  BY <1>1, <1>5 DEF AreAccounts
<1>7. IsAccounted(L, r.frames, acc[Len(q)], r.next + 1)
  BY <1>1, <1>5, <1>6, UnwantedIsAccounted DEF IsUpToDate
<1> HIDE DEF q
<1>8. IsUpToDate(L, s, acc) /\ s.next <= Len(L) + 1
  BY <1>1, <1>4, <1>7, <1>2 DEF IsUpToDate
<1>9. AreAccounts(L, s.frames, s.limit, acc, q) /\ acc[0] = s.known
  BY <1>5, <1>2
<1> QED
  BY <1>1, <1>4, <1>8, <1>9, Zenon DEF StreamInv, s

LEMMA GatherKeepsAccounts ==
  ASSUME log \in Seq(Kinds), MonitorInv, NEW m \in Monitors, Gather(m)
  PROVE  MonitorInv'
<1> DEFINE r == monitor[m]
           n == r.next
<1>1. /\ r \in Streams /\ StreamInv(log, r) /\ r.prelude = <<>> /\ n \in Nat
      /\ r.batch \in Seq(Items) /\ Len(log) \in Nat
  <2>1. r \in Streams /\ StreamInv(log, r) /\ r.prelude = <<>>
    BY DEF MonitorInv, Gather
  <2> QED
    BY <2>1, LenProperties DEF Streams
<1>2. CASE GatherLagged(m)
  <2> DEFINE k == OldestHeld - n
             item == Lagged(k)
             s == [r EXCEPT !.batch = Append(@, item), !.next = OldestHeld]
  <2>1. OldestHeld \in Nat /\ OldestHeld <= Len(log) + 1 /\ k \in Nat /\ n + k = OldestHeld
    <3>1. OldestHeld \in Nat /\ OldestHeld <= Len(log) + 1
      BY <1>1, TrafficAssumption DEF OldestHeld
    <3>2. n < OldestHeld
      BY <1>2 DEF GatherLagged
    <3> HIDE DEF n
    <3> QED
      BY <1>1, <3>1, <3>2
  <2>2. monitor' = [monitor EXCEPT ![m] = s] /\ log' = log
    BY <1>2, Zenon DEF GatherLagged, MonitorInv
  <2> HIDE DEF k
  <2>3. item \in Items /\ (item \in [n : Nat, kind : Kinds] => item.n <= Len(log))
    BY <2>1 DEF Lagged, Items, Kinds, WireKinds
  <2>4. \A a \in Known : IsAccounted(log, r.frames, a, n) =>
           LET b == After(log, r.frames, r.limit, a, item)
           IN  b \in Known /\ IsAccounted(log, r.frames, b, OldestHeld)
    <3> SUFFICES ASSUME NEW a \in Known, IsAccounted(log, r.frames, a, n)
                 PROVE  LET b == After(log, r.frames, r.limit, a, item)
                        IN  b \in Known /\ IsAccounted(log, r.frames, b, n + k)
      BY <2>1
    <3> HIDE DEF n
    <3> QED
      BY <1>1, <2>1, LagIsAccounted
  <2> HIDE DEF item
  <2>5. StreamInv(log, s)
    BY <1>1, <2>1, <2>3, <2>4, StreamTakesAnItem
  <2>6. s \in Streams
    BY <2>5 DEF StreamInv, StreamTypeOK
  <2> QED
    BY <2>2, <2>5, <2>6, OneStreamMoves
<1>3. CASE GatherEvent(m)
  <2>1. n \in 1 .. Len(log)
    <3>1. n \in OldestHeld .. Len(log) /\ OldestHeld \in Int /\ OldestHeld >= 1
      BY <1>1, <1>3, TrafficAssumption DEF GatherEvent, OldestHeld
    <3> QED
      BY <1>1, <3>1
  <2>2. log[n] \in Kinds
    BY <2>1, ElementOfSeq
  <2>3. CASE Wants(r.frames, log[n])
    <3> DEFINE item == Event(n, log[n])
               s == [r EXCEPT !.batch = Append(@, item), !.next = n + 1]
    <3>1. monitor' = [monitor EXCEPT ![m] = s] /\ log' = log
      BY <1>3, <2>3, Zenon DEF GatherEvent, MonitorInv
    <3>2. item \in Items /\ (item \in [n : Nat, kind : Kinds] => item.n <= Len(log))
      BY <1>1, <2>1, <2>2 DEF Event, Items
    <3>3. \A a \in Known : IsAccounted(log, r.frames, a, n) =>
             LET b == After(log, r.frames, r.limit, a, item)
             IN  b \in Known /\ IsAccounted(log, r.frames, b, n + 1)
      BY <1>1, <2>2, EventIsAccounted
    <3>4. n + 1 \in Nat /\ n + 1 <= Len(log) + 1
      BY <1>1, <2>1
    <3> HIDE DEF item
    <3>5. StreamInv(log, s)
      BY <1>1, <3>2, <3>3, <3>4, StreamTakesAnItem
    <3>6. s \in Streams
      BY <3>5 DEF StreamInv, StreamTypeOK
    <3> QED
      BY <3>1, <3>5, <3>6, OneStreamMoves
  <2>4. CASE ~Wants(r.frames, log[n])
    <3> DEFINE s == [r EXCEPT !.batch = @, !.next = n + 1]
    <3>1. monitor' = [monitor EXCEPT ![m] = s] /\ log' = log
      BY <1>3, <2>4, Zenon DEF GatherEvent, MonitorInv
    <3>2. n <= Len(log)
      BY <1>1, <2>1
    <3>3. StreamInv(log, s)
      BY <1>1, <2>4, <3>2, StreamSkipsAnEvent
    <3>4. s \in Streams
      BY <3>3 DEF StreamInv, StreamTypeOK
    <3> QED
      BY <3>1, <3>3, <3>4, OneStreamMoves
  <2> QED
    BY <2>3, <2>4
<1> QED
  BY <1>2, <1>3 DEF Gather

LEMMA PublishKeepsAccounts ==
  ASSUME log \in Seq(Kinds), MonitorInv, NEW kind \in Kinds, Publish(kind)
  PROVE  MonitorInv'
<1>1. /\ Len(log) \in Nat /\ Len(log') = Len(log) + 1 /\ \A n \in 1 .. Len(log) : log'[n] = log[n]
  BY LenProperties, AppendProperties DEF Publish
<1>2. monitor' = monitor
  BY DEF Publish
<1>3. ASSUME NEW m \in Monitors PROVE StreamInv(log', monitor[m])
  <2>1. StreamInv(log, monitor[m])
    BY DEF MonitorInv
  <2>2. Len(log') \in Nat /\ Len(log) <= Len(log')
    BY <1>1
  <2> QED
    BY <1>1, <2>1, <2>2, GrowthKeepsStreams
<1> QED
  BY <1>2, <1>3 DEF MonitorInv

\* Whatever is published and however slowly a monitor reads, what it is sent
\* accounts for every event up to the last one.
THEOREM GapsAreAnnounced == Spec => []EveryGapIsAnnounced
<1>1. Init => MonitorInv
  <2> SUFFICES ASSUME Init PROVE MonitorInv
    OBVIOUS
  <2>1. Len(log) \in Nat /\ monitor = [m \in Monitors |-> Detached]
    BY LenProperties DEF Init, TrafficInit
  <2>2. QED
    BY <2>1, DetachedIsAccounted DEF MonitorInv
<1>2. HistoryInv /\ MonitorInv /\ [Next]_vars => MonitorInv'
  <2> SUFFICES ASSUME HistoryInv, MonitorInv, [Next]_vars PROVE MonitorInv'
    OBVIOUS
  <2>1. log \in Seq(Kinds) /\ Len(log) \in Nat
    BY LenProperties DEF HistoryInv, HistoryTypeOK
  <2>2. CASE UNCHANGED trafficVars
    BY <2>2 DEF MonitorInv, trafficVars
  <2>3. CASE \E kind \in Kinds : Publish(kind)
    BY <2>1, <2>3, PublishKeepsAccounts
  <2>4. CASE MonitorNext
    <3>1. PICK m \in Monitors :
            \/ \E frames \in BOOLEAN, limit \in HistoryLimits : Attach(m, frames, limit)
            \/ Detach(m)
            \/ Stream(m)
      BY <2>4, Zenon DEF MonitorNext
    <3>2. CASE \E frames \in BOOLEAN, limit \in HistoryLimits : Attach(m, frames, limit)
      BY <3>2, AttachKeepsAccounts
    <3>3. CASE Detach(m)
      BY <2>1, <3>3, DetachedIsAccounted, OneStreamMoves DEF Detach
    <3>4. CASE Stream(m)
      BY <2>1, <3>4, SendReplayKeepsAccounts, GatherKeepsAccounts, SendBatchKeepsAccounts
         DEF Stream
    <3>5. QED
      BY <3>1, <3>2, <3>3, <3>4
  <2>5. QED
    BY <2>2, <2>3, <2>4, StepsOnTheFeed
<1>3. MonitorInv => EveryGapIsAnnounced
  BY DEF MonitorInv, Streams, Known, EveryGapIsAnnounced
<1>4. QED
  BY <1>1, <1>2, <1>3, HistoryInvariant, PTL DEF Spec

=============================================================================
