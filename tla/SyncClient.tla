----------------------------- MODULE SyncClient -----------------------------
(***************************************************************************)
(* packages/core-sync: the client an IDE plugin runs. A ConnectionManager  *)
(* (connection-manager.ts) keeps a WebSocket to the hub, an OfflineQueue   *)
(* (offline-queue.ts) holds what could not be sent, and a SyncEngine       *)
(* (sync-engine.ts) ties them together. The VS Code extension starts the   *)
(* engine when it is activated and calls start() or stop() from its        *)
(* toggleSync command (plugins/vscode/src/extension.ts).                   *)
(*                                                                         *)
(* One thread runs all of it: an action is one task of the event loop, with*)
(* the microtasks that follow it. The plugin gives the queue no            *)
(* persistence, so that draining it never waits for anything but           *)
(* microtasks. What can come between two tasks: the token provider's       *)
(* answer, timers, socket events and the user.                             *)
(*                                                                         *)
(* connect() overwrites this.ws, and scheduleReconnect() and               *)
(* startHeartbeat() overwrite their handles, but what they overwrite lives *)
(* on: a socket keeps its callbacks, a timer fires, an interval beats.     *)
(***************************************************************************)
EXTENDS Naturals, Sequences, FiniteSets

CONSTANTS Report,       \* operations of createBug
          Note,         \* operations of sendTelemetry and transitionStatus
          Socket,       \* names for sockets, used again after a close
          NoSocket,     \* this.ws = null
          MaxQueue,     \* config.maxQueueSize
          MaxToggles,   \* bound: toggleSync commands
          MaxFaults     \* bound: tokens refused, openings failed, connections dropped

VARIABLES isDestroyed, status, isStreaming, queue,  \* as in the code
          awaiting,         \* connect() calls that wait for their token
          socket, ws,       \* each socket with its callbacks; the one in this.ws
          timer,            \* is the timer in this.reconnectTimer pending?
          strayTimers,      \* pending timers whose handle was overwritten
          heartbeat,        \* is the interval in this.heartbeatTimer running?
          strayHeartbeats,  \* running intervals whose handle was overwritten
          enabled,          \* what the last toggle told the user
          toggles, faults,  \* of the budgets, what is used up
          made,             \* history: the operations, as the user made them
          sent,             \* history: the operations handed to an open socket
          starts            \* history: the connect() calls start() got through

connVars == <<isDestroyed, status, isStreaming, awaiting, socket, ws, timer,
              strayTimers, heartbeat, strayHeartbeats>>
userVars == <<enabled, toggles, starts>>
vars == <<connVars, userVars, queue, faults, made, sent>>

Op == Report \cup Note

ASSUME SyncAssumption ==
    /\ Report \cap Note = {} /\ NoSocket \notin Socket
    /\ IsFiniteSet(Socket)
    /\ MaxQueue \in Nat \ {0} /\ MaxToggles \in Nat /\ MaxFaults \in Nat
    /\ Cardinality(Socket) > MaxToggles

ConnectionStatus ==
    {"disconnected", "connecting", "connected", "reconnecting", "error"}

SyncTypeOK ==
    /\ isDestroyed \in BOOLEAN /\ isStreaming \in BOOLEAN /\ enabled \in BOOLEAN
    /\ status \in ConnectionStatus
    /\ socket \in [Socket -> {"closed", "opening", "open", "closing"}]
    /\ ws \in Socket \cup {NoSocket}
    /\ timer \in BOOLEAN /\ heartbeat \in BOOLEAN
    /\ awaiting \in Nat /\ strayTimers \in Nat /\ strayHeartbeats \in Nat
    /\ toggles \in Nat /\ faults \in Nat /\ starts \in Nat
    /\ queue \in Seq(Op) /\ Len(queue) <= MaxQueue
    /\ made \in Seq(Op) /\ sent \in Seq(Op)

(* The constructors: nothing under way, an empty queue, no socket.         *)
Constructed ==
    /\ isDestroyed = FALSE /\ isStreaming = FALSE
    /\ socket = [s \in Socket |-> "closed"] /\ ws = NoSocket
    /\ timer = FALSE /\ strayTimers = 0
    /\ heartbeat = FALSE /\ strayHeartbeats = 0
    /\ queue = <<>>

(* activate() has called start(), which waits for its first token.         *)
SyncInit ==
    /\ Constructed
    /\ status = "connecting" /\ awaiting = 1 /\ starts = 1
    /\ enabled = TRUE /\ toggles = 0 /\ faults = 0
    /\ made = <<>> /\ sent = <<>>

-----------------------------------------------------------------------------
(* setStatus, with what SyncEngine's listener does to isStreaming.         *)
SetStatus(new) ==
    /\ status' = new
    /\ isStreaming' = CASE new = status -> isStreaming
                        [] new = "connected" -> TRUE
                        [] new \in {"error", "disconnected"} -> FALSE
                        [] OTHER -> isStreaming

(* Mutation of Connect: it does not look at isDestroyed.                   *)
ConnectAnyway == SetStatus("connecting") /\ awaiting' = awaiting + 1

(* connect(), up to its await.                                             *)
Connect ==
    IF isDestroyed
    THEN UNCHANGED <<status, isStreaming, awaiting>>
    ELSE SetStatus("connecting") /\ awaiting' = awaiting + 1

ScheduleReconnect ==
    /\ timer' = TRUE
    /\ strayTimers' = IF timer THEN strayTimers + 1 ELSE strayTimers

Fault == faults < MaxFaults /\ faults' = faults + 1

(* The token has come: a socket is made, whatever happened meanwhile.      *)
TokenArrives ==
    /\ awaiting > 0 /\ awaiting' = awaiting - 1
    /\ \E s \in Socket :
          /\ socket[s] = "closed"
          /\ socket' = [socket EXCEPT ![s] = "opening"] /\ ws' = s
    /\ UNCHANGED <<isDestroyed, status, isStreaming, timer, strayTimers,
                   heartbeat, strayHeartbeats, userVars, queue, faults, made, sent>>

(* Mutation of TokenFails: the error is reported and that is all.          *)
TokenErrorReported ==
    /\ Fault
    /\ awaiting > 0 /\ awaiting' = awaiting - 1
    /\ SetStatus("error")
    /\ UNCHANGED <<isDestroyed, socket, ws, timer, strayTimers, heartbeat,
                   strayHeartbeats, userVars, queue, made, sent>>

(* The token was refused, or the URL was: 'error', then another attempt.   *)
TokenFails ==
    /\ Fault
    /\ awaiting > 0 /\ awaiting' = awaiting - 1
    /\ isStreaming' = FALSE
    /\ IF isDestroyed
       THEN status' = "error" /\ UNCHANGED <<timer, strayTimers>>
       ELSE status' = "reconnecting" /\ ScheduleReconnect
    /\ UNCHANGED <<isDestroyed, socket, ws, heartbeat, strayHeartbeats,
                   userVars, queue, made, sent>>

TimerFires ==
    /\ \/ timer /\ timer' = FALSE /\ UNCHANGED strayTimers
       \/ strayTimers > 0 /\ strayTimers' = strayTimers - 1 /\ UNCHANGED timer
    /\ Connect
    /\ UNCHANGED <<isDestroyed, socket, ws, heartbeat, strayHeartbeats,
                   userVars, queue, faults, made, sent>>

-----------------------------------------------------------------------------
(* Socket events. send() uses this.ws, whichever socket the event is of.   *)
CanSend == ws # NoSocket /\ socket[ws] = "open"

(* Mutation of Drain: what is sent stays in the queue.                     *)
DrainUnshifted ==
    /\ sent' = IF CanSend' THEN sent \o queue ELSE sent
    /\ UNCHANGED queue

(* drain(): in order, until the queue is empty or send() is refused.       *)
Drain ==
    IF CanSend'
    THEN sent' = sent \o queue /\ queue' = <<>>
    ELSE UNCHANGED <<queue, sent>>

StartHeartbeat ==
    /\ heartbeat' = TRUE
    /\ strayHeartbeats' = IF heartbeat THEN strayHeartbeats + 1 ELSE strayHeartbeats

(* The listener drains only when the status changes to 'connected'.        *)
Opened(s) ==
    /\ socket[s] = "opening" /\ socket' = [socket EXCEPT ![s] = "open"]
    /\ UNCHANGED ws
    /\ SetStatus("connected")
    /\ IF status = "connected" THEN UNCHANGED <<queue, sent>> ELSE Drain
    /\ StartHeartbeat
    /\ UNCHANGED <<isDestroyed, awaiting, timer, strayTimers, userVars, faults, made>>

(* The hub or the network ends a connection: readyState leaves OPEN, and   *)
(* the close event comes in a later task.                                  *)
Dropped(s) ==
    /\ Fault
    /\ socket[s] = "open" /\ socket' = [socket EXCEPT ![s] = "closing"]
    /\ UNCHANGED <<isDestroyed, status, isStreaming, awaiting, ws, timer, strayTimers,
                   heartbeat, strayHeartbeats, userVars, queue, made, sent>>

(* Mutation of CloseEvent: the error event has scheduled a reconnect too.  *)
ScheduledTwice(s, wasClean) ==
    /\ socket' = [socket EXCEPT ![s] = "closed"]
    /\ heartbeat' = FALSE
    /\ IF ~isDestroyed /\ ~wasClean
       THEN /\ SetStatus("reconnecting")
            /\ timer' = TRUE /\ strayTimers' = strayTimers + (IF timer THEN 2 ELSE 1)
       ELSE SetStatus("disconnected") /\ UNCHANGED <<timer, strayTimers>>
    /\ UNCHANGED <<isDestroyed, awaiting, ws, strayHeartbeats, userVars, queue,
                   made, sent>>

(* Mutation of CloseEvent: a clean close is not shown.                     *)
CleanCloseUnseen(s, wasClean) ==
    /\ socket' = [socket EXCEPT ![s] = "closed"]
    /\ heartbeat' = FALSE
    /\ IF ~isDestroyed /\ ~wasClean
       THEN SetStatus("reconnecting") /\ ScheduleReconnect
       ELSE UNCHANGED <<status, isStreaming, timer, strayTimers>>
    /\ UNCHANGED <<isDestroyed, awaiting, ws, strayHeartbeats, userVars, queue,
                   made, sent>>

(* onclose.                                                                *)
CloseEvent(s, wasClean) ==
    /\ socket' = [socket EXCEPT ![s] = "closed"]
    /\ heartbeat' = FALSE
    /\ IF ~isDestroyed /\ ~wasClean
       THEN SetStatus("reconnecting") /\ ScheduleReconnect
       ELSE SetStatus("disconnected") /\ UNCHANGED <<timer, strayTimers>>
    /\ UNCHANGED <<isDestroyed, awaiting, ws, strayHeartbeats, userVars, queue,
                   made, sent>>

OpeningFails(s) == Fault /\ socket[s] = "opening" /\ CloseEvent(s, FALSE)

(* Clean when the hub sent a close frame: it refused the token (4001).     *)
Closed(s) ==
    /\ socket[s] = "closing" /\ UNCHANGED faults
    /\ \E wasClean \in BOOLEAN : CloseEvent(s, wasClean)

-----------------------------------------------------------------------------
(* The user. enqueue() makes room at the head.                             *)
Enqueue(op) ==
    queue' = Append(IF Len(queue) >= MaxQueue THEN Tail(queue) ELSE queue, op)

Make(op) ==
    /\ \A i \in 1..Len(made) : made[i] # op
    /\ made' = Append(made, op)
    /\ UNCHANGED <<connVars, userVars, faults>>

(* Mutation of CreateBug: send()'s answer is not looked at.                *)
CreateUnchecked(r) ==
    /\ Make(r)
    /\ IF status = "connected"
       THEN /\ sent' = IF CanSend THEN Append(sent, r) ELSE sent
            /\ UNCHANGED queue
       ELSE Enqueue(r) /\ UNCHANGED sent

(* createBug: queued unless an open socket took it.                        *)
CreateBug(r) ==
    /\ Make(r)
    /\ IF status = "connected" /\ CanSend
       THEN sent' = Append(sent, r) /\ UNCHANGED queue
       ELSE Enqueue(r) /\ UNCHANGED sent

(* sendTelemetry, transitionStatus: when connected, send()'s answer is not *)
(* looked at, and what it refused is gone.                                 *)
SendNote(n) ==
    /\ Make(n)
    /\ IF status = "connected"
       THEN /\ sent' = IF CanSend THEN Append(sent, n) ELSE sent
            /\ UNCHANGED queue
       ELSE Enqueue(n) /\ UNCHANGED sent

(* stop(): disconnect() takes the callback from this.ws and closes it.     *)
Stop ==
    /\ isDestroyed' = TRUE
    /\ heartbeat' = FALSE /\ timer' = FALSE
    /\ socket' = [s \in Socket |-> IF s = ws THEN "closed" ELSE socket[s]]
    /\ ws' = NoSocket
    /\ status' = "disconnected" /\ isStreaming' = FALSE
    /\ UNCHANGED <<awaiting, strayTimers, strayHeartbeats, starts>>

(* start(): nothing is loaded into the queue, then connect().              *)
Start ==
    /\ Connect
    /\ starts' = IF isDestroyed THEN starts ELSE starts + 1
    /\ UNCHANGED <<isDestroyed, socket, ws, timer, strayTimers, heartbeat,
                   strayHeartbeats>>

(* The toggleSync command.                                                 *)
ToggleSync ==
    /\ toggles < MaxToggles /\ toggles' = toggles + 1
    /\ \/ status \in {"connected", "connecting"} /\ Stop /\ enabled' = FALSE
       \/ status \notin {"connected", "connecting"} /\ Start /\ enabled' = TRUE
    /\ UNCHANGED <<queue, faults, made, sent>>

-----------------------------------------------------------------------------
SocketEvent(s) == Opened(s) \/ Dropped(s) \/ OpeningFails(s) \/ Closed(s)

SyncNext ==
    \/ TokenArrives \/ TokenFails \/ TimerFires \/ ToggleSync
    \/ \E s \in Socket : SocketEvent(s)
    \/ \E r \in Report : CreateBug(r)
    \/ \E n \in Note : SendNote(n)

SyncSpec == SyncInit /\ [][SyncNext]_vars

(* Token providers answer, timers fire and sockets report what became of   *)
(* them. Nothing is assumed of users and faults.                           *)
SyncFairness ==
    /\ WF_vars(TokenArrives) /\ WF_vars(TimerFires)
    /\ \A s \in Socket : WF_vars(Opened(s)) /\ WF_vars(Closed(s))

LiveSyncSpec == SyncSpec /\ SyncFairness

-----------------------------------------------------------------------------
(* What keeps a connection going: the waits for a token, the timers, the   *)
(* sockets.                                                                *)
InUse == {s \in Socket : socket[s] # "closed"}
Timers == strayTimers + (IF timer THEN 1 ELSE 0)
Attempts == awaiting + Timers + Cardinality(InUse)

(* connect(), its socket's close and the reconnect timer hand one attempt  *)
(* on to each other and never fork it: there are as many as calls of       *)
(* start() at most. A client started once has one socket or is on its way  *)
(* to one, and no heartbeat outlives its handle.                           *)
OneLine ==
    /\ Attempts <= starts
    /\ starts = 1 => strayHeartbeats = 0

(* A client that shows it is on its way to a connection is: no path        *)
(* through token refusals, failed openings, closes and toggles leaves it   *)
(* at 'connecting' or 'reconnecting' (or, not stopped, at 'error') with    *)
(* nothing left that would change that.                                    *)
StillTrying ==
    \/ status \in {"connecting", "reconnecting"}
    \/ status = "error" /\ ~isDestroyed
    => \/ awaiting > 0 \/ timer \/ strayTimers > 0
       \/ \E s \in Socket : socket[s] = "opening"

(* A client that shows 'connected' streams, has a running heartbeat it can *)
(* stop, and a socket whose close event is still to come, however many     *)
(* sockets overlap.                                                        *)
ConnectedIsLive ==
    status = "connected" =>
        /\ isStreaming /\ heartbeat
        /\ \E s \in Socket : socket[s] \in {"open", "closing"}

(* Of a client started once, nothing is left in the queue when operations  *)
(* go out directly: the replay comes before them.                          *)
Drained == starts = 1 /\ status = "connected" /\ CanSend => queue = <<>>

(* A client started once sends operations in the order the user made them, *)
(* each at most once, over all reconnections and replays.                  *)
SentInOrder ==
    starts = 1 =>
        \A i, j \in 1..Len(sent), k, l \in 1..Len(made) :
            i < j /\ made[k] = sent[i] /\ made[l] = sent[j] => k < l

Found(op) ==
    \/ \E k \in 1..Len(sent) : sent[k] = op
    \/ \E k \in 1..Len(queue) : queue[k] = op

(* A bug the user reported is sent or queued. The one way it is lost is    *)
(* that the queue overflows: as many operations as it holds came later and *)
(* were themselves sent or queued; what a connection that is going away    *)
(* swallowed does not count. Whether an overflow takes the right operation *)
(* is NonCriticalFirst.                                                    *)
ReportsKept ==
    \A i \in 1..Len(made) : made[i] \in Report =>
        \/ Found(made[i])
        \/ Cardinality({k \in (i + 1)..Len(made) : Found(made[k])}) >= MaxQueue

(* "If at capacity, drop oldest non-critical items" (offline-queue.ts): no *)
(* report gives way to another operation while a note (telemetry, which is *)
(* "best-effort" in sync-engine.ts) waits in the queue.                    *)
NonCriticalFirst ==
    [][\A r \in Report : Found(r) /\ ~Found(r)'
          => \A k \in 1..Len(queue) : queue[k] \notin Note]_vars

(* While sync is off nothing is brought up again: not by the timers that   *)
(* overwrote their handles, nor by the closes of sockets that stop() did   *)
(* not reach. No step begins a wait for a token or sets a timer, and a     *)
(* socket is made only by a wait that stop() found under way.              *)
StopBringsNothingUp ==
    [][~enabled /\ ~enabled'
       => /\ awaiting' <= awaiting
          /\ awaiting' + Cardinality(InUse') <= awaiting + Cardinality(InUse)
          /\ Timers' <= Timers]_vars

(* "Stop the sync engine gracefully" (sync-engine.ts), "Gracefully         *)
(* disconnect" (connection-manager.ts), of which the extension tells the   *)
(* user "Sync disabled": after it there is no open connection to send on.  *)
StoppedStaysDown == ~enabled => ~CanSend

(* "Start the sync engine - connect and begin streaming" (sync-engine.ts), *)
(* of which the user is told "Sync enabled": it begins to connect.         *)
StartConnects == [][~enabled /\ enabled' => awaiting' > awaiting]_vars

(* What a client started once has queued is sent after finitely many       *)
(* faults, unless the connection was ended on purpose: by stop(), or with  *)
(* a close frame of the hub.                                               *)
QueueReplayed ==
    (starts = 1 /\ status # "disconnected" /\ ~isDestroyed /\ queue # <<>>)
        ~> (starts > 1 \/ status = "disconnected" \/ queue = <<>>)

=============================================================================
