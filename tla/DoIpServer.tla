----------------------------- MODULE DoIpServer -----------------------------
(***************************************************************************)
(* The tasks of crates/doip-server/src/server.rs around the entity: RunTcp *)
(* accepting sockets, one ServeConnection task per socket, RunTick with    *)
(* its close signals, and ServerHandle::Stop.  A step is what a task does  *)
(* between two points where another task can run: a mutex it takes, or an  *)
(* await.                                                                  *)
(*                                                                         *)
(* Two timing assumptions, both about a step that waits for nothing but    *)
(* the scheduler: a spawned task reaches its select loop before the        *)
(* initial inactivity time has passed, and RunTick has signalled the       *)
(* sockets of one tick before the next tick is due.                        *)
(***************************************************************************)
EXTENDS DoIpEntity

CONSTANTS
    Chunks,    \* what one read may bring: non-empty sequences of messages
    LastDue    \* the latest due tick in Plans, the bound of age

ASSUME ServerAssumption ==
    /\ Chunks \subseteq Seq(Message) \ {<<>>}
    /\ LastDue \in Nat
    /\ Plans \subseteq Seq(0..LastDue)

VARIABLES
    task,           \* where each socket's ServeConnection task is
    pending,        \* complete messages read and not yet handled (vecPending)
    reaction,       \* what is left of the reaction being carried out
    wait,           \* ticks left of the sleep before its next reply
    sentAt,         \* u32SentAtMs: the due time last slept for
    closeSignals,   \* sockets with an entry in the close-signal map
    notified,       \* sockets whose Notify holds a permit
    expired,        \* vecExpired: sockets RunTick has still to signal
    serving,        \* the server has not been stopped
    age,            \* history: ticks since the reaction was returned
    told            \* history: the address a socket was told is activated

taskVars == <<task, pending, reaction, wait, sentAt, closeSignals, notified,
              expired, serving, age, told>>
vars == <<connections, settings, task, pending, reaction, wait, sentAt,
          closeSignals, notified, expired, serving, age, told>>

TaskState == {"NotAccepted", "Spawned", "Reading", "Handling", "Replying",
              "Leaving", "Closing", "Done"}

ReplyShape ==
    [kind: {"HeaderNack", "Activated", "Denied", "Ack", "Answer",
            "DiagnosticNack", "AliveCheckResponse"},
     to: Address \cup {NoAddress}, at: Nat]

ReactionShape == [replies: Seq(ReplyShape), close: BOOLEAN]

TypeOK ==
    /\ EntityTypeOK
    /\ task \in [Socket -> TaskState]
    /\ pending \in [Socket -> Seq(Message)]
    /\ reaction \in [Socket -> ReactionShape]
    /\ wait \in [Socket -> Nat] /\ sentAt \in [Socket -> Nat]
    /\ age \in [Socket -> 0..LastDue]
    /\ closeSignals \subseteq Socket
    /\ notified \subseteq Socket
    /\ expired \subseteq Socket
    /\ serving \in BOOLEAN
    /\ told \in [Socket -> Address \cup {NoAddress}]

Init ==
    /\ EntityInit
    /\ task = [s \in Socket |-> "NotAccepted"]
    /\ pending = [s \in Socket |-> <<>>]
    /\ reaction = [s \in Socket |-> Silence]
    /\ wait = [s \in Socket |-> 0]
    /\ sentAt = [s \in Socket |-> 0]
    /\ age = [s \in Socket |-> 0]
    /\ closeSignals = {}
    /\ notified = {}
    /\ expired = {}
    /\ serving = TRUE
    /\ told = [s \in Socket |-> NoAddress]

-----------------------------------------------------------------------------
(* RunTcp                                                                  *)

(* Accepting a connection opens the table entry and spawns the task, which
   has not run yet.                                                        *)
Accept(s) ==
    /\ serving
    /\ task[s] = "NotAccepted"
    /\ OpenConnection(s)
    /\ task' = [task EXCEPT ![s] = "Spawned"]
    /\ UNCHANGED <<pending, reaction, wait, sentAt, closeSignals, notified,
                   expired, serving, age, told>>

-----------------------------------------------------------------------------
(* ServeConnection                                                         *)

StartServing(s) ==
    /\ task[s] = "Spawned"
    /\ closeSignals' = closeSignals \cup {s}
    /\ task' = [task EXCEPT ![s] = "Reading"]
    /\ UNCHANGED <<connections, settings, pending, reaction, wait, sentAt,
                   notified, expired, serving, age, told>>

(* The select is biased: with a permit there, it closes whatever arrived.  *)
LeaveOnSignal(s) ==
    /\ task[s] = "Reading"
    /\ s \in notified
    /\ notified' = notified \ {s}
    /\ task' = [task EXCEPT ![s] = "Leaving"]
    /\ UNCHANGED <<connections, settings, pending, reaction, wait, sentAt,
                   closeSignals, expired, serving, age, told>>

(* End of stream, or a read error.                                         *)
LeaveOnEof(s) ==
    /\ task[s] = "Reading"
    /\ s \notin notified
    /\ task' = [task EXCEPT ![s] = "Leaving"]
    /\ UNCHANGED <<connections, settings, pending, reaction, wait, sentAt,
                   closeSignals, notified, expired, serving, age, told>>

ReadChunk(s) ==
    /\ task[s] = "Reading"
    /\ s \notin notified
    /\ \E chunk \in Chunks : pending' = [pending EXCEPT ![s] = chunk]
    /\ task' = [task EXCEPT ![s] = "Handling"]
    /\ UNCHANGED <<connections, settings, reaction, wait, sentAt,
                   closeSignals, notified, expired, serving, age, told>>

(* Mutated form of WaitFor: the last tick of a sleep is not slept.         *)
WaitForTooShort(since, at) == IF at > since + 1 THEN at - since - 1 ELSE 0

(* The sleep before a reply due at `at` once one due at `since` was slept
   for: a reply due earlier than that is not waited for.                   *)
WaitFor(since, at) == IF at > since THEN at - since ELSE 0

(* Carry on with reaction r: sleep for its first reply, close the socket
   when it says so and every reply is out, or go on with the messages left. *)
CarryOn(s, r, since, left) ==
    /\ reaction' = [reaction EXCEPT ![s] = r]
    /\ IF r.replies # <<>>
       THEN LET at == Head(r.replies).at
            IN  /\ task' = [task EXCEPT ![s] = "Replying"]
                /\ wait' = [wait EXCEPT ![s] = WaitFor(since, at)]
                /\ sentAt' = [sentAt EXCEPT ![s] = since + WaitFor(since, at)]
       ELSE /\ task' = [task EXCEPT ![s] =
                  IF r.close THEN "Replying"
                  ELSE IF left = <<>> THEN "Reading" ELSE "Handling"]
            /\ wait' = [wait EXCEPT ![s] = 0]
            /\ sentAt' = [sentAt EXCEPT ![s] = 0]

HandleMessage(s) ==
    /\ task[s] = "Handling"
    /\ pending[s] # <<>>
    /\ pending' = [pending EXCEPT ![s] = Tail(@)]
    /\ \E new \in Settings : \E seen \in SettingsReads(new) :
          LET m == Head(pending[s])
          IN  /\ HandleTcp(s, m, seen)
              /\ \E result \in IF IsRouted(s, m, seen)
                               THEN SimulationResult
                               ELSE {[verdict |-> "NoTarget", plan |-> <<>>]} :
                    CarryOn(s, Reaction(s, m, seen, result), 0, Tail(pending[s]))
    /\ age' = [age EXCEPT ![s] = 0]
    /\ UNCHANGED <<closeSignals, notified, expired, serving, told>>

(* Writing a reply touches no timer: HandleTcp is the only caller of
   NoteActivity.                                                           *)
SendReply(s) ==
    /\ task[s] = "Replying"
    /\ reaction[s].replies # <<>>
    /\ wait[s] = 0
    /\ CarryOn(s, [reaction[s] EXCEPT !.replies = Tail(@)], sentAt[s],
               pending[s])
    /\ told' = [told EXCEPT ![s] =
          IF Head(reaction[s].replies).kind = "Activated"
          THEN Head(reaction[s].replies).to ELSE @]
    /\ age' = IF Len(reaction[s].replies) = 1 THEN [age EXCEPT ![s] = 0] ELSE age
    /\ UNCHANGED <<connections, settings, pending, closeSignals, notified,
                   expired, serving>>

(* Mutated form of EndTask: the table entry is left to the inactivity timer. *)
EndTaskKeepingTheEntry(s) ==
    /\ task' = [task EXCEPT ![s] = "Done"]
    /\ UNCHANGED <<connections, settings, pending, reaction, wait, sentAt, age,
                   closeSignals, notified, expired, serving, told>>

EndTask(s) ==
    /\ CloseConnection(s)
    /\ task' = [task EXCEPT ![s] = "Done"]
    /\ pending' = [pending EXCEPT ![s] = <<>>]
    /\ reaction' = [reaction EXCEPT ![s] = Silence]
    /\ wait' = [wait EXCEPT ![s] = 0]
    /\ sentAt' = [sentAt EXCEPT ![s] = 0]
    /\ age' = [age EXCEPT ![s] = 0]
    /\ told' = [told EXCEPT ![s] = NoAddress]
    /\ UNCHANGED <<closeSignals, notified, expired, serving>>

(* A write error ends the task at once, and leaves the close signal behind. *)
WriteFails(s) ==
    /\ task[s] = "Replying"
    /\ reaction[s].replies # <<>>
    /\ wait[s] = 0
    /\ EndTask(s)

(* So does a reaction that closes the socket.                              *)
CloseAsTheReactionSays(s) ==
    /\ task[s] = "Replying"
    /\ reaction[s] = [replies |-> <<>>, close |-> TRUE]
    /\ EndTask(s)

(* Leaving the loop takes the close signal out, then the table entry.      *)
RemoveCloseSignal(s) ==
    /\ task[s] = "Leaving"
    /\ closeSignals' = closeSignals \ {s}
    /\ task' = [task EXCEPT ![s] = "Closing"]
    /\ UNCHANGED <<connections, settings, pending, reaction, wait, sentAt,
                   notified, expired, serving, age, told>>

FinishClosing(s) ==
    /\ task[s] = "Closing"
    /\ EndTask(s)

-----------------------------------------------------------------------------
(* RunTick, the passing of time, and the operator                          *)

(* One tick interval passes for every sleeping task, and while the server
   runs the entity's clock is advanced by it.                              *)
TickPasses ==
    /\ expired = {}
    /\ \A s \in Socket :
          task[s] = "Spawned" => connections[s].idle + 1 < InitialInactivity
    /\ wait' = [s \in Socket |-> IF wait[s] > 0 THEN wait[s] - 1 ELSE 0]
    /\ age' = [s \in Socket |->
          IF task[s] = "Replying" /\ age[s] < LastDue THEN age[s] + 1 ELSE age[s]]
    /\ IF serving
       THEN Tick /\ expired' = Expired
       ELSE UNCHANGED <<connections, settings, expired>>
    /\ UNCHANGED <<task, pending, reaction, sentAt, closeSignals, notified,
                   serving, told>>

(* Mutated form of SignalExpired: only a task parked in its select is woken,
   no permit is left for a busy one.                                       *)
SignalExpiredIfParked(s) ==
    /\ s \in expired
    /\ expired' = expired \ {s}
    /\ closeSignals' = closeSignals \ {s}
    /\ notified' = IF s \in closeSignals /\ task[s] = "Reading"
                   THEN notified \cup {s} ELSE notified
    /\ UNCHANGED <<connections, settings, task, pending, reaction, wait,
                   sentAt, serving, age, told>>

(* RunTick takes the socket's close signal and leaves a permit in it, if
   the task had put one there.                                             *)
SignalExpired(s) ==
    /\ s \in expired
    /\ expired' = expired \ {s}
    /\ closeSignals' = closeSignals \ {s}
    /\ notified' = IF s \in closeSignals THEN notified \cup {s} ELSE notified
    /\ UNCHANGED <<connections, settings, task, pending, reaction, wait,
                   sentAt, serving, age, told>>

OperatorPutsSettings ==
    /\ \E new \in Settings : PutSettings(new)
    /\ UNCHANGED taskVars

(* Stop aborts the accepting and the ticking task; the connection tasks run
   on.                                                                     *)
Stop ==
    /\ serving
    /\ serving' = FALSE
    /\ UNCHANGED <<connections, settings, task, pending, reaction, wait,
                   sentAt, closeSignals, notified, expired, age, told>>

-----------------------------------------------------------------------------
Serve(s) ==
    \/ StartServing(s)
    \/ LeaveOnSignal(s)
    \/ HandleMessage(s)
    \/ SendReply(s)
    \/ CloseAsTheReactionSays(s)
    \/ RemoveCloseSignal(s)
    \/ FinishClosing(s)

Peer(s) ==
    \/ Accept(s)
    \/ LeaveOnEof(s)
    \/ ReadChunk(s)
    \/ WriteFails(s)

Next ==
    \/ \E s \in Socket : Serve(s) \/ Peer(s) \/ SignalExpired(s)
    \/ TickPasses
    \/ OperatorPutsSettings
    \/ Stop

Spec == Init /\ [][Next]_vars

(* The runtime schedules every task that can run, and time passes.  Nothing
   is assumed of the peer or the operator.                                 *)
FairSpec ==
    /\ Spec
    /\ \A s \in Socket : WF_vars(Serve(s)) /\ WF_vars(SignalExpired(s))
    /\ WF_vars(TickPasses)

-----------------------------------------------------------------------------
(* Properties                                                              *)

(* An entry of the connection table has a task that will remove it: no entry
   is left behind to hold an address or count against the capacity after
   its socket is gone.                                                     *)
NoOrphanEntry ==
    \A s \in Socket :
        task[s] \in {"NotAccepted", "Done"} => connections[s].state = "Absent"

(* A request reaches the simulation only after its socket was told, on the
   wire, that this source address is activated: the acknowledgement of a
   routed message is queued only then, however the messages were pipelined. *)
RoutedOnlyAfterTheTesterWasTold ==
    [][\A s \in Socket :
          LET r == reaction'[s].replies
          IN  task[s] = "Handling" /\ r # <<>> /\ r[1].kind = "Ack"
                => told[s] = r[1].to /\ r[1].to = connections[s].sourceAddress]_vars

(* The sleeps add up: no reply leaves before it is due, counted from when
   the reaction was returned, even when due times are not in order.        *)
NoReplyBeforeItIsDue ==
    [][\A s \in Socket :
          LET left == reaction[s].replies
          IN  /\ left # <<>>
              /\ Len(reaction'[s].replies) = Len(left) - 1
              /\ task'[s] # "Done"
              => age[s] >= left[1].at]_vars

(* A socket dropped by its timer is closed in the end, even when its task
   was asleep between two replies at that moment.                          *)
DroppedSocketIsClosed ==
    \A s \in Socket :
        task[s] # "NotAccepted" /\ connections[s].state = "Absent"
            ~> task[s] = "Done"

(* While the server runs, a socket does not stay unactivated: no traffic the
   peer sends on it keeps the initial timer from closing it.               *)
UnactivatedSocketEnds ==
    \A s \in Socket :
        connections[s].state = "Initialized"
            ~> (connections[s].state # "Initialized" \/ ~serving)

(* crates/doip/src/connection.rs 71-76: both directions count, a response
   the entity sends keeps the socket alive just as a request does.         *)
SendingKeepsTheSocketAlive ==
    [][\A s \in Socket :
          /\ task[s] = "Replying" /\ reaction[s].replies # <<>>
          /\ Len(reaction'[s].replies) = Len(reaction[s].replies) - 1
          /\ connections'[s].state = "RoutingActive"
          => connections'[s].idle = 0]_vars

(* crates/doip-server/src/server.rs 86: "Stop serving."                    *)
NothingIsRoutedAfterStop ==
    [][\A s \in Socket :
          ~serving /\ task[s] = "Handling" /\ reaction'[s].replies # <<>>
            => reaction'[s].replies[1].kind # "Ack"]_vars
=============================================================================
