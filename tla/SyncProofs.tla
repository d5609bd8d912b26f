----------------------------- MODULE SyncProofs -----------------------------
(***************************************************************************)
(* SyncClient's safety properties hold for any number of toggles, faults,  *)
(* operations and overlapping sockets.                                     *)
(*                                                                         *)
(* Three invariants, each resting on the one before: what the flags say of *)
(* each other (StatusInv), how many attempts there can be (LineInv), and   *)
(* where the operations are (QueueInv).                                    *)
(*                                                                         *)
(* At the end, what the editor shows of the bugs it is sent and asks for   *)
(* (Editor), for any number of bugs, commands and lengths of a page.       *)
(***************************************************************************)
EXTENDS SyncClient, Editor, FiniteSetTheorems, TLAPS

(* A stopped client never shows progress, a running one never rests at     *)
(* 'error', and an interval beats only beside a socket to be closed.       *)
Flags ==
    /\ isDestroyed => status \notin {"connecting", "reconnecting"}
    /\ ~isDestroyed => status # "error"
    /\ heartbeat => \E s \in Socket : socket[s] \in {"open", "closing"}

StatusInv == SyncTypeOK /\ Flags /\ StillTrying /\ ConnectedIsLive

-----------------------------------------------------------------------------
(* What setStatus leaves is a status, and a flag.                          *)
LEMMA SetStatusFacts ==
    ASSUME SyncTypeOK, NEW new \in ConnectionStatus, SetStatus(new)
    PROVE  /\ status' = new /\ status' \in ConnectionStatus
           /\ isStreaming' \in BOOLEAN
           /\ new = "connected" /\ ConnectedIsLive => isStreaming'
<1>1. CASE new = status
  BY <1>1 DEF SetStatus, SyncTypeOK, ConnectedIsLive
<1>2. CASE new # status /\ new = "connected"
  BY <1>2 DEF SetStatus, SyncTypeOK
<1>3. CASE new # status /\ new \in {"error", "disconnected"}
  BY <1>3 DEF SetStatus, SyncTypeOK
<1>4. CASE new # status /\ new \notin {"connected", "error", "disconnected"}
  BY <1>4 DEF SetStatus, SyncTypeOK
<1>5. QED
  BY <1>1, <1>2, <1>3, <1>4

(* The two sequences an enqueue may make.                                  *)
LEMMA EnqueueFacts ==
    ASSUME SyncTypeOK, NEW op \in Op, Enqueue(op)
    PROVE  queue' \in Seq(Op) /\ Len(queue') <= MaxQueue
<1>1. queue \in Seq(Op) /\ Len(queue) \in Nat /\ Len(queue) <= MaxQueue
  BY DEF SyncTypeOK
<1>2. CASE Len(queue) >= MaxQueue
  <2>1. queue # <<>>
    BY <1>2, <1>1, SyncAssumption
  <2>2. Tail(queue) \in Seq(Op) /\ Len(Tail(queue)) = Len(queue) - 1
    BY <1>1, <2>1
  <2>3. queue' = Append(Tail(queue), op)
    BY <1>2 DEF Enqueue
  <2>4. queue' \in Seq(Op) /\ Len(queue') = Len(Tail(queue)) + 1
    BY <2>2, <2>3
  <2>5. QED
    BY <2>2, <2>4, <1>1
<1>3. CASE ~(Len(queue) >= MaxQueue)
  <2>1. queue' = Append(queue, op)
    BY <1>3 DEF Enqueue
  <2>2. queue' \in Seq(Op) /\ Len(queue') = Len(queue) + 1
    BY <2>1, <1>1
  <2>3. QED
    BY <2>2, <1>1, <1>3, SyncAssumption
<1>4. QED
  BY <1>2, <1>3

(* SyncTypeOK by kind of variable.                                         *)
SwitchesOK ==
    /\ isDestroyed \in BOOLEAN /\ isStreaming \in BOOLEAN /\ enabled \in BOOLEAN
    /\ timer \in BOOLEAN /\ heartbeat \in BOOLEAN
    /\ status \in ConnectionStatus
SocketsOK ==
    /\ socket \in [Socket -> {"closed", "opening", "open", "closing"}]
    /\ ws \in Socket \cup {NoSocket}
CountsOK ==
    /\ awaiting \in Nat /\ strayTimers \in Nat /\ strayHeartbeats \in Nat
    /\ toggles \in Nat /\ faults \in Nat /\ starts \in Nat
OperationsOK ==
    /\ queue \in Seq(Op) /\ Len(queue) <= MaxQueue
    /\ made \in Seq(Op) /\ sent \in Seq(Op)

LEMMA TypeParts ==
    /\ SyncTypeOK <=> SwitchesOK /\ SocketsOK /\ CountsOK /\ OperationsOK
    /\ SyncTypeOK' <=> SwitchesOK' /\ SocketsOK' /\ CountsOK' /\ OperationsOK'
BY DEF SyncTypeOK, SwitchesOK, SocketsOK, CountsOK, OperationsOK

(* connect() leaves the client destroyed as it was, or on its way.         *)
LEMMA ConnectFacts ==
    ASSUME SyncTypeOK, Connect
    PROVE  /\ status' \in ConnectionStatus /\ isStreaming' \in BOOLEAN
           /\ awaiting' \in Nat
           /\ isDestroyed =>
                status' = status /\ isStreaming' = isStreaming /\ awaiting' = awaiting
           /\ ~isDestroyed => status' = "connecting" /\ awaiting' = awaiting + 1
<1>1. "connecting" \in ConnectionStatus
  BY DEF ConnectionStatus
<1>2. status \in ConnectionStatus /\ isStreaming \in BOOLEAN /\ awaiting \in Nat
  BY DEF SyncTypeOK
<1>3. CASE isDestroyed
  BY <1>2, <1>3 DEF Connect
<1>4. CASE ~isDestroyed
  <2>1. SetStatus("connecting") /\ awaiting' = awaiting + 1
    BY <1>4 DEF Connect
  <2>2. status' = "connecting" /\ isStreaming' \in BOOLEAN
    BY <1>1, <2>1, SetStatusFacts
  <2>3. QED
    BY <1>1, <1>2, <1>4, <2>1, <2>2
<1>5. QED
  BY <1>3, <1>4

(* The status and the timer that a close event leaves.                     *)
LEMMA CloseFacts ==
    ASSUME SyncTypeOK, NEW s \in Socket, NEW c \in BOOLEAN, CloseEvent(s, c)
    PROVE  /\ status' \in ConnectionStatus /\ isStreaming' \in BOOLEAN
           /\ \/ /\ ~isDestroyed /\ status' = "reconnecting" /\ timer'
                 /\ strayTimers' = IF timer THEN strayTimers + 1 ELSE strayTimers
              \/ /\ status' = "disconnected"
                 /\ timer' = timer /\ strayTimers' = strayTimers
<1>1. "reconnecting" \in ConnectionStatus /\ "disconnected" \in ConnectionStatus
  BY DEF ConnectionStatus
<1>2. CASE ~isDestroyed /\ ~c
  <2>1. SetStatus("reconnecting") /\ ScheduleReconnect
    BY <1>2 DEF CloseEvent
  <2>2. status' = "reconnecting" /\ status' \in ConnectionStatus /\ isStreaming' \in BOOLEAN
    BY <1>1, <2>1, SetStatusFacts
  <2>3. timer' /\ strayTimers' = IF timer THEN strayTimers + 1 ELSE strayTimers
    BY <2>1 DEF ScheduleReconnect
  <2>4. QED
    BY <1>2, <2>2, <2>3
<1>3. CASE ~(~isDestroyed /\ ~c)
  <2>1. SetStatus("disconnected") /\ UNCHANGED <<timer, strayTimers>>
    BY <1>3 DEF CloseEvent
  <2>2. status' = "disconnected" /\ status' \in ConnectionStatus /\ isStreaming' \in BOOLEAN
    BY <1>1, <2>1, SetStatusFacts
  <2>3. QED
    BY <2>1, <2>2
<1>4. QED
  BY <1>2, <1>3

(* Sending the queue leaves sequences of operations.                       *)
LEMMA DrainFacts ==
    ASSUME SyncTypeOK, Drain
    PROVE  /\ queue' \in Seq(Op) /\ Len(queue') <= MaxQueue /\ sent' \in Seq(Op)
           /\ CanSend' => queue' = <<>>
<1>1. queue \in Seq(Op) /\ Len(queue) <= MaxQueue /\ sent \in Seq(Op)
  BY DEF SyncTypeOK
<1>2. CASE CanSend'
  <2>1. sent' = sent \o queue /\ queue' = <<>>
    BY <1>2 DEF Drain
  <2>2. queue' \in Seq(Op) /\ Len(queue') = 0 /\ sent' \in Seq(Op)
    BY <1>1, <2>1
  <2>3. QED
    BY <2>1, <2>2, SyncAssumption
<1>3. CASE ~CanSend'
  BY <1>1, <1>3 DEF Drain
<1>4. QED
  BY <1>2, <1>3

LEMMA StatusInit == SyncInit => StatusInv
<1> SUFFICES ASSUME SyncInit PROVE StatusInv
  OBVIOUS
<1>1. socket \in [Socket -> {"closed", "opening", "open", "closing"}]
  BY DEF SyncInit, Constructed
<1>2. queue \in Seq(Op) /\ made \in Seq(Op) /\ sent \in Seq(Op) /\ Len(queue) = 0
  BY DEF SyncInit, Constructed
<1>3. MaxQueue \in Nat
  BY SyncAssumption
<1>4. /\ isDestroyed \in BOOLEAN /\ isStreaming \in BOOLEAN /\ enabled \in BOOLEAN
      /\ timer \in BOOLEAN /\ heartbeat \in BOOLEAN
      /\ status \in ConnectionStatus /\ ws \in Socket \cup {NoSocket}
  BY DEF SyncInit, Constructed, ConnectionStatus
<1>5. /\ awaiting \in Nat /\ strayTimers \in Nat /\ strayHeartbeats \in Nat
      /\ toggles \in Nat /\ faults \in Nat /\ starts \in Nat
  BY DEF SyncInit, Constructed
<1>6. SyncTypeOK
  BY <1>1, <1>2, <1>3, <1>4, <1>5 DEF SyncTypeOK
<1>7. Flags /\ StillTrying /\ ConnectedIsLive
  BY DEF SyncInit, Constructed, Flags, StillTrying, ConnectedIsLive
<1>8. QED
  BY <1>6, <1>7 DEF StatusInv

-----------------------------------------------------------------------------
(* What each action does to the variables, as far as the invariants care.  *)
LEMMA SwitchesStep == SyncTypeOK /\ [SyncNext]_vars => SwitchesOK'
<1> SUFFICES ASSUME SyncTypeOK, [SyncNext]_vars PROVE SwitchesOK'
  OBVIOUS
<1>t. /\ isDestroyed \in BOOLEAN /\ isStreaming \in BOOLEAN /\ enabled \in BOOLEAN
      /\ timer \in BOOLEAN /\ heartbeat \in BOOLEAN /\ status \in ConnectionStatus
  BY DEF SyncTypeOK
<1>1. CASE TokenArrives
  BY <1>t, <1>1 DEF TokenArrives, userVars, SwitchesOK
<1>2. CASE TokenFails
  BY <1>t, <1>2 DEF TokenFails, ScheduleReconnect, userVars, SwitchesOK, ConnectionStatus
<1>3. CASE TimerFires
  <2>1. status' \in ConnectionStatus /\ isStreaming' \in BOOLEAN
    BY <1>3, ConnectFacts DEF TimerFires
  <2>2. timer' \in BOOLEAN
    BY <1>t, <1>3 DEF TimerFires
  <2>3. QED
    BY <1>t, <1>3, <2>1, <2>2 DEF TimerFires, userVars, SwitchesOK
<1>4. CASE ToggleSync
  <2>1. CASE Stop /\ enabled' = FALSE
    BY <2>1 DEF Stop, SwitchesOK, ConnectionStatus
  <2>2. CASE Start /\ enabled' = TRUE
    <3>1. status' \in ConnectionStatus /\ isStreaming' \in BOOLEAN
      BY <2>2, ConnectFacts DEF Start
    <3>2. QED
      BY <1>t, <2>2, <3>1 DEF Start, SwitchesOK
  <2>3. QED
    BY <1>4, <2>1, <2>2 DEF ToggleSync
<1>5. ASSUME NEW s \in Socket, Opened(s) PROVE SwitchesOK'
  <2>1. SetStatus("connected") /\ "connected" \in ConnectionStatus
    BY <1>5 DEF Opened, StartHeartbeat, ConnectionStatus
  <2>2. status' \in ConnectionStatus /\ isStreaming' \in BOOLEAN
    BY <2>1, SetStatusFacts
  <2>3. QED
    BY <1>t, <1>5, <2>2 DEF Opened, StartHeartbeat, userVars, SwitchesOK
<1>6. ASSUME NEW s \in Socket, Dropped(s) PROVE SwitchesOK'
  BY <1>t, <1>6 DEF Dropped, userVars, SwitchesOK
<1>7. ASSUME NEW s \in Socket, NEW c \in BOOLEAN, CloseEvent(s, c) PROVE SwitchesOK'
  <2>1. status' \in ConnectionStatus /\ isStreaming' \in BOOLEAN /\ timer' \in BOOLEAN
    BY <1>t, <1>7, CloseFacts
  <2>2. QED
    BY <1>t, <1>7, <2>1 DEF CloseEvent, userVars, SwitchesOK
<1>8. ASSUME NEW op \in Op, Make(op) PROVE SwitchesOK'
  BY <1>t, <1>8 DEF Make, connVars, userVars, SwitchesOK
<1>9. CASE UNCHANGED vars
  BY <1>t, <1>9 DEF vars, connVars, userVars, SwitchesOK
<1>10. QED
  BY <1>1, <1>2, <1>3, <1>4, <1>5, <1>6, <1>7, <1>8, <1>9
  DEF SyncNext, SocketEvent, OpeningFails, Closed, CreateBug, SendNote, Op

LEMMA CountsStep == SyncTypeOK /\ [SyncNext]_vars => CountsOK'
<1> SUFFICES ASSUME SyncTypeOK, [SyncNext]_vars PROVE CountsOK'
  OBVIOUS
<1>t. /\ awaiting \in Nat /\ strayTimers \in Nat /\ strayHeartbeats \in Nat
      /\ toggles \in Nat /\ faults \in Nat /\ starts \in Nat
  BY DEF SyncTypeOK
<1>1. CASE TokenArrives
  BY <1>t, <1>1 DEF TokenArrives, userVars, CountsOK
<1>2. CASE TokenFails
  <2>1. strayTimers' \in Nat
    BY <1>t, <1>2 DEF TokenFails, ScheduleReconnect
  <2>2. QED
    BY <1>t, <1>2, <2>1 DEF TokenFails, Fault, userVars, CountsOK
<1>3. CASE TimerFires
  <2>1. awaiting' \in Nat
    BY <1>3, ConnectFacts DEF TimerFires
  <2>2. strayTimers' \in Nat
    BY <1>t, <1>3 DEF TimerFires
  <2>3. QED
    BY <1>t, <1>3, <2>1, <2>2 DEF TimerFires, userVars, CountsOK
<1>4. CASE ToggleSync
  <2>1. toggles' \in Nat /\ faults' \in Nat
    BY <1>t, <1>4 DEF ToggleSync
  <2>2. CASE Stop
    BY <1>t, <2>1, <2>2 DEF Stop, CountsOK
  <2>3. CASE Start
    <3>1. awaiting' \in Nat
      BY <2>3, ConnectFacts DEF Start
    <3>2. QED
      BY <1>t, <2>1, <2>3, <3>1 DEF Start, CountsOK
  <2>4. QED
    BY <1>4, <2>2, <2>3 DEF ToggleSync
<1>5. ASSUME NEW s \in Socket, Opened(s) PROVE CountsOK'
  BY <1>t, <1>5 DEF Opened, StartHeartbeat, userVars, CountsOK
<1>6. ASSUME NEW s \in Socket, Dropped(s) PROVE CountsOK'
  BY <1>t, <1>6 DEF Dropped, Fault, userVars, CountsOK
<1>7. ASSUME NEW s \in Socket, NEW c \in BOOLEAN, CloseEvent(s, c),
             faults' \in Nat
      PROVE CountsOK'
  <2>1. strayTimers' \in Nat
    BY <1>t, <1>7, CloseFacts
  <2>2. QED
    BY <1>t, <1>7, <2>1 DEF CloseEvent, userVars, CountsOK
<1>8. ASSUME NEW op \in Op, Make(op) PROVE CountsOK'
  BY <1>t, <1>8 DEF Make, connVars, userVars, CountsOK
<1>9. CASE UNCHANGED vars
  BY <1>t, <1>9 DEF vars, connVars, userVars, CountsOK
<1>10. ASSUME NEW s \in Socket, OpeningFails(s) PROVE CountsOK'
  <2>1. CloseEvent(s, FALSE) /\ faults' = faults + 1
    BY <1>10 DEF OpeningFails, Fault
  <2>2. faults' \in Nat
    BY <1>t, <2>1
  <2>3. QED
    BY <1>7, <2>1, <2>2
<1>11. ASSUME NEW s \in Socket, Closed(s) PROVE CountsOK'
  BY <1>t, <1>7, <1>11 DEF Closed
<1>12. QED
  BY <1>1, <1>2, <1>3, <1>4, <1>5, <1>6, <1>8, <1>9, <1>10, <1>11
  DEF SyncNext, SocketEvent, CreateBug, SendNote, Op

LEMMA SocketsStep == SyncTypeOK /\ [SyncNext]_vars => SocketsOK'
<1> SUFFICES ASSUME SyncTypeOK, [SyncNext]_vars PROVE SocketsOK'
  OBVIOUS
<1>t. /\ socket \in [Socket -> {"closed", "opening", "open", "closing"}]
      /\ ws \in Socket \cup {NoSocket}
  BY DEF SyncTypeOK
<1>1. CASE TokenArrives
  BY <1>t, <1>1 DEF TokenArrives, SocketsOK
<1>2. CASE UNCHANGED <<socket, ws>>
  BY <1>t, <1>2 DEF SocketsOK
<1>3. CASE Stop
  BY <1>t, <1>3 DEF Stop, SocketsOK
<1>4. ASSUME NEW s \in Socket, SocketEvent(s) PROVE SocketsOK'
  <2>1. PICK x \in {"closed", "open", "closing"} :
            socket' = [socket EXCEPT ![s] = x] /\ ws' = ws
    BY <1>4 DEF SocketEvent, Opened, StartHeartbeat, Dropped, OpeningFails, Closed, CloseEvent
  <2>2. QED
    BY <1>t, <2>1 DEF SocketsOK
<1>5. TokenFails \/ TimerFires \/ Start => UNCHANGED <<socket, ws>>
  BY DEF TokenFails, TimerFires, Start
<1>6. \A op \in Op : Make(op) => UNCHANGED <<socket, ws>>
  BY DEF Make, connVars
<1>7. UNCHANGED vars => UNCHANGED <<socket, ws>>
  BY DEF vars, connVars
<1>8. QED
  BY <1>1, <1>2, <1>3, <1>4, <1>5, <1>6, <1>7
  DEF SyncNext, ToggleSync, CreateBug, SendNote, Op

LEMMA OperationsStep == SyncTypeOK /\ [SyncNext]_vars => OperationsOK'
<1> SUFFICES ASSUME SyncTypeOK, [SyncNext]_vars PROVE OperationsOK'
  OBVIOUS
<1>t. /\ queue \in Seq(Op) /\ Len(queue) <= MaxQueue
      /\ made \in Seq(Op) /\ sent \in Seq(Op)
  BY DEF SyncTypeOK
<1>1. CASE UNCHANGED <<queue, made, sent>>
  BY <1>t, <1>1 DEF OperationsOK
<1>2. ASSUME NEW s \in Socket, Opened(s) PROVE OperationsOK'
  <2>1. CASE status = "connected"
    BY <1>1, <1>2, <2>1 DEF Opened, StartHeartbeat
  <2>2. CASE status # "connected"
    <3>1. Drain /\ made' = made
      BY <1>2, <2>2 DEF Opened, StartHeartbeat
    <3>2. QED
      BY <1>t, <3>1, DrainFacts DEF OperationsOK
  <2>3. QED
    BY <2>1, <2>2
<1>3. ASSUME NEW op \in Op, Make(op),
             \/ Enqueue(op) /\ UNCHANGED sent
             \/ UNCHANGED queue /\ sent' \in {sent, Append(sent, op)}
      PROVE  OperationsOK'
  <2>1. made' \in Seq(Op)
    BY <1>t, <1>3 DEF Make
  <2>2. CASE Enqueue(op) /\ UNCHANGED sent
    BY <1>t, <2>1, <2>2, EnqueueFacts DEF OperationsOK
  <2>3. CASE UNCHANGED queue /\ sent' \in {sent, Append(sent, op)}
    BY <1>t, <2>1, <2>3 DEF OperationsOK
  <2>4. QED
    BY <1>3, <2>2, <2>3
<1>4. ASSUME NEW r \in Report, CreateBug(r) PROVE OperationsOK'
  BY <1>3, <1>4 DEF CreateBug, Op
<1>5. ASSUME NEW n \in Note, SendNote(n) PROVE OperationsOK'
  BY <1>3, <1>5 DEF SendNote, Op
<1>6. TokenArrives \/ TokenFails \/ TimerFires \/ ToggleSync
        => UNCHANGED <<queue, made, sent>>
  BY DEF TokenArrives, TokenFails, TimerFires, ToggleSync
<1>7. \A s \in Socket : Dropped(s) \/ OpeningFails(s) \/ Closed(s)
        => UNCHANGED <<queue, made, sent>>
  BY DEF Dropped, OpeningFails, Closed, CloseEvent
<1>8. UNCHANGED vars => UNCHANGED <<queue, made, sent>>
  BY DEF vars
<1>9. QED
  BY <1>1, <1>2, <1>4, <1>5, <1>6, <1>7, <1>8 DEF SyncNext, SocketEvent

LEMMA TypeStep == SyncTypeOK /\ [SyncNext]_vars => SyncTypeOK'
BY SwitchesStep, CountsStep, SocketsStep, OperationsStep, TypeParts

-----------------------------------------------------------------------------
(* The flags, and what the status promises.                                *)
LEMMA StatusStep == StatusInv /\ [SyncNext]_vars => StatusInv'
<1> SUFFICES ASSUME StatusInv, [SyncNext]_vars
             PROVE  Flags' /\ StillTrying' /\ ConnectedIsLive'
  BY TypeStep DEF StatusInv
<1>t. /\ SyncTypeOK /\ Flags /\ StillTrying /\ ConnectedIsLive
      /\ isDestroyed \in BOOLEAN /\ heartbeat \in BOOLEAN /\ timer \in BOOLEAN
      /\ awaiting \in Nat /\ strayTimers \in Nat
      /\ socket \in [Socket -> {"closed", "opening", "open", "closing"}]
  BY DEF StatusInv, SyncTypeOK
<1>1. CASE TokenArrives
  <2>1. PICK s \in Socket :
            socket[s] = "closed" /\ socket' = [socket EXCEPT ![s] = "opening"]
    BY <1>1 DEF TokenArrives
  <2>2. /\ socket'[s] = "opening"
        /\ \A u \in Socket : socket[u] \in {"open", "closing"} => socket'[u] = socket[u]
    BY <1>t, <2>1
  <2>3. UNCHANGED <<isDestroyed, status, isStreaming, heartbeat>>
    BY <1>1 DEF TokenArrives
  <2>4. Flags'
    BY <1>t, <2>2, <2>3 DEF Flags
  <2>5. StillTrying'
    BY <2>2 DEF StillTrying
  <2>6. ConnectedIsLive'
    BY <1>t, <2>2, <2>3 DEF ConnectedIsLive
  <2>7. QED
    BY <2>4, <2>5, <2>6
<1>2. CASE TokenFails
  <2>1. UNCHANGED <<isDestroyed, socket, heartbeat>>
    BY <1>2 DEF TokenFails
  <2>2. \/ isDestroyed /\ status' = "error"
        \/ ~isDestroyed /\ status' = "reconnecting" /\ timer'
    BY <1>2 DEF TokenFails, ScheduleReconnect
  <2>3. Flags'
    BY <1>t, <2>1, <2>2 DEF Flags
  <2>4. StillTrying'
    BY <2>1, <2>2 DEF StillTrying
  <2>5. ConnectedIsLive'
    BY <2>2 DEF ConnectedIsLive
  <2>6. QED
    BY <2>3, <2>4, <2>5
<1>3. ASSUME Connect, UNCHANGED <<isDestroyed, socket, heartbeat>>
      PROVE  Flags' /\ StillTrying' /\ ConnectedIsLive'
  <2>1. CASE isDestroyed
    <3>1. UNCHANGED <<status, isStreaming>>
      BY <1>t, <1>3, <2>1, ConnectFacts
    <3>2. Flags' /\ ConnectedIsLive'
      BY <1>t, <1>3, <3>1 DEF Flags, ConnectedIsLive
    <3>3. StillTrying'
      BY <1>t, <1>3, <2>1, <3>1 DEF Flags, StillTrying
    <3>4. QED
      BY <3>2, <3>3
  <2>2. CASE ~isDestroyed
    <3>1. status' = "connecting" /\ awaiting' = awaiting + 1
      BY <1>t, <1>3, <2>2, ConnectFacts
    <3>2. Flags'
      BY <1>t, <1>3, <2>2, <3>1 DEF Flags
    <3>3. StillTrying'
      BY <1>t, <3>1 DEF StillTrying
    <3>4. ConnectedIsLive'
      BY <3>1 DEF ConnectedIsLive
    <3>5. QED
      BY <3>2, <3>3, <3>4
  <2>3. QED
    BY <2>1, <2>2
<1>4. CASE Stop
  <2>1. isDestroyed' /\ status' = "disconnected" /\ ~heartbeat'
    BY <1>4 DEF Stop
  <2>2. QED
    BY <2>1 DEF Flags, StillTrying, ConnectedIsLive
<1>5. ASSUME NEW s \in Socket, Opened(s)
      PROVE  Flags' /\ StillTrying' /\ ConnectedIsLive'
  <2>1. socket'[s] = "open" /\ heartbeat'
    BY <1>t, <1>5 DEF Opened, StartHeartbeat
  <2>2. SetStatus("connected") /\ "connected" \in ConnectionStatus
    BY <1>5 DEF Opened, StartHeartbeat, ConnectionStatus
  <2>3. status' = "connected" /\ isStreaming'
    BY <1>t, <2>2, SetStatusFacts
  <2>4. QED
    BY <2>1, <2>3 DEF Flags, StillTrying, ConnectedIsLive
<1>6. ASSUME NEW s \in Socket, Dropped(s)
      PROVE  Flags' /\ StillTrying' /\ ConnectedIsLive'
  <2>1. \A u \in Socket :
            /\ socket[u] \in {"open", "closing"} => socket'[u] \in {"open", "closing"}
            /\ socket[u] = "opening" => socket'[u] = "opening"
    BY <1>t, <1>6 DEF Dropped
  <2>2. UNCHANGED <<isDestroyed, status, isStreaming, awaiting, timer, strayTimers,
                    heartbeat>>
    BY <1>6 DEF Dropped
  <2>3. Flags'
    BY <1>t, <2>1, <2>2 DEF Flags
  <2>4. StillTrying'
    BY <1>t, <2>1, <2>2 DEF StillTrying
  <2>5. ConnectedIsLive'
    BY <1>t, <2>1, <2>2 DEF ConnectedIsLive
  <2>6. QED
    BY <2>3, <2>4, <2>5
<1>7. ASSUME NEW s \in Socket, NEW c \in BOOLEAN, CloseEvent(s, c)
      PROVE  Flags' /\ StillTrying' /\ ConnectedIsLive'
  <2>1. isDestroyed' = isDestroyed /\ ~heartbeat'
    BY <1>7 DEF CloseEvent
  <2>2. \/ ~isDestroyed /\ status' = "reconnecting" /\ timer'
        \/ status' = "disconnected"
    BY <1>t, <1>7, CloseFacts
  <2>3. QED
    BY <2>1, <2>2 DEF Flags, StillTrying, ConnectedIsLive
<1>8. CASE UNCHANGED connVars
  <2>1. UNCHANGED <<isDestroyed, status, isStreaming, awaiting, socket, timer,
                    strayTimers, heartbeat>>
    BY <1>8 DEF connVars
  <2>2. QED
    BY <1>t, <2>1 DEF Flags, StillTrying, ConnectedIsLive
<1>9. /\ TimerFires => Connect /\ UNCHANGED <<isDestroyed, socket, heartbeat>>
      /\ Start => Connect /\ UNCHANGED <<isDestroyed, socket, heartbeat>>
  BY DEF TimerFires, Start
<1>10. \A op \in Op : Make(op) => UNCHANGED connVars
  BY DEF Make
<1>11. UNCHANGED vars => UNCHANGED connVars
  BY DEF vars
<1>12. ASSUME NEW s \in Socket, SocketEvent(s)
       PROVE  Flags' /\ StillTrying' /\ ConnectedIsLive'
  BY <1>5, <1>6, <1>7, <1>12 DEF SocketEvent, OpeningFails, Closed
<1>13. QED
  BY <1>1, <1>2, <1>3, <1>4, <1>8, <1>9, <1>10, <1>11, <1>12
  DEF SyncNext, ToggleSync, CreateBug, SendNote, Op

(* Every reachable state has its types, and StatusInv.                     *)
THEOREM SyncStatus == SyncSpec => []StatusInv
<1>1. SyncInit => StatusInv
  BY StatusInit
<1>2. StatusInv /\ [SyncNext]_vars => StatusInv'
  BY StatusStep
<1>3. QED
  BY <1>1, <1>2, PTL DEF SyncSpec

(* Each variable of the client keeps its type, for any number of sockets,  *)
(* operations, toggles and faults.                                         *)
THEOREM SyncTypes == SyncSpec => []SyncTypeOK
<1>1. StatusInv => SyncTypeOK
  BY DEF StatusInv
<1>2. QED
  BY <1>1, SyncStatus, PTL

(* A client that shows progress has something under way that changes what  *)
(* it shows, through all refusals, closes and toggles.                     *)
THEOREM NeverStranded == SyncSpec => []StillTrying
<1>1. StatusInv => StillTrying
  BY DEF StatusInv
<1>2. QED
  BY <1>1, SyncStatus, PTL

(* A client that shows 'connected' has a socket, a heartbeat and a stream. *)
THEOREM ConnectedMeansLive == SyncSpec => []ConnectedIsLive
<1>1. StatusInv => ConnectedIsLive
  BY DEF StatusInv
<1>2. QED
  BY <1>1, SyncStatus, PTL

-----------------------------------------------------------------------------
(* How many attempts there are.                                            *)
LineInv == starts >= 1 /\ OneLine /\ Drained

Pending == IF timer THEN 1 ELSE 0
InUseCount == Cardinality(InUse)

LEMMA InUseFinite ==
    ASSUME SyncTypeOK
    PROVE  IsFiniteSet(InUse) /\ InUseCount \in Nat
<1>1. InUse \subseteq Socket /\ IsFiniteSet(Socket)
  BY SyncAssumption DEF InUse
<1>2. QED
  BY <1>1, FS_Subset, FS_CardinalityType DEF InUseCount

(* A socket is taken into use, goes on in use, or is done with.            *)
LEMMA InUseGrows ==
    ASSUME SyncTypeOK, NEW s \in Socket, socket[s] = "closed",
           socket' = [socket EXCEPT ![s] = "opening"]
    PROVE  InUseCount' = InUseCount + 1
<1>1. InUse' = InUse \cup {s} /\ s \notin InUse
  BY DEF InUse, SyncTypeOK
<1>2. QED
  BY <1>1, InUseFinite, FS_AddElement DEF InUseCount

LEMMA InUseSame ==
    ASSUME SyncTypeOK, NEW s \in Socket, socket[s] # "closed",
           NEW x \in {"open", "closing"}, socket' = [socket EXCEPT ![s] = x]
    PROVE  InUse' = InUse /\ InUseCount' = InUseCount
<1>1. InUse' = InUse
  BY DEF InUse, SyncTypeOK
<1>2. QED
  BY <1>1 DEF InUseCount

LEMMA InUseShrinks ==
    ASSUME SyncTypeOK, NEW s \in Socket, socket[s] # "closed",
           socket' = [socket EXCEPT ![s] = "closed"]
    PROVE  InUseCount' = InUseCount - 1
<1>1. InUse' = InUse \ {s} /\ s \in InUse
  BY DEF InUse, SyncTypeOK
<1>2. QED
  BY <1>1, InUseFinite, FS_RemoveElement DEF InUseCount

LEMMA AttemptsFacts ==
    ASSUME SyncTypeOK, SyncTypeOK'
    PROVE  /\ Attempts = awaiting + (strayTimers + Pending) + InUseCount
           /\ Attempts' = awaiting' + (strayTimers' + Pending') + InUseCount'
           /\ strayTimers + Pending \in Nat /\ strayTimers' + Pending' \in Nat
           /\ awaiting' \in Nat /\ InUseCount' \in Nat
<1>1. InUseCount \in Nat /\ InUseCount' \in Nat
  <2>1. InUse \in SUBSET Socket /\ InUse' \in SUBSET Socket /\ IsFiniteSet(Socket)
    BY SyncAssumption DEF InUse
  <2>2. QED
    BY <2>1, FS_Subset, FS_CardinalityType DEF InUseCount
<1>2. Pending \in Nat /\ Pending' \in Nat
  BY DEF Pending
<1>3. /\ awaiting \in Nat /\ strayTimers \in Nat
      /\ awaiting' \in Nat /\ strayTimers' \in Nat
  BY DEF SyncTypeOK
<1>4. /\ Attempts = awaiting + (strayTimers + Pending) + InUseCount
      /\ Attempts' = awaiting' + (strayTimers' + Pending') + InUseCount'
  BY DEF Attempts, Timers, Pending, InUseCount
<1>5. \A b, c \in Nat : b + c \in Nat
  OBVIOUS
<1>6. strayTimers + Pending \in Nat /\ strayTimers' + Pending' \in Nat
  BY <1>2, <1>3, <1>5, Zenon
<1>7. QED
  BY <1>1, <1>3, <1>4, <1>6

(* While one attempt is all there is, two sockets are not in use.          *)
LEMMA OnlySocket ==
    ASSUME SyncTypeOK, SyncTypeOK', OneLine, starts = 1,
           NEW s \in InUse, NEW u \in InUse
    PROVE  s = u
<1> SUFFICES ASSUME s # u PROVE FALSE
  OBVIOUS
<1>1. IsFiniteSet({u}) /\ Cardinality({u}) = 1
  BY FS_Singleton
<1>2. IsFiniteSet({u} \cup {s}) /\ Cardinality({u} \cup {s}) = 2
  BY <1>1, FS_AddElement
<1>3. Cardinality({u} \cup {s}) <= InUseCount
  <2>1. {u} \cup {s} \in SUBSET InUse
    OBVIOUS
  <2>2. QED
    BY <2>1, InUseFinite, FS_Subset DEF InUseCount
<1>4. Attempts <= 1 /\ awaiting \in Nat
  BY DEF OneLine, SyncTypeOK
<1>5. QED
  BY <1>2, <1>3, <1>4, InUseFinite, AttemptsFacts

(* A reconnect timer that is set is one more, whether or not one pended.   *)
LEMMA ScheduledFacts ==
    ASSUME SyncTypeOK, timer',
           strayTimers' = IF timer THEN strayTimers + 1 ELSE strayTimers
    PROVE  strayTimers' \in Nat /\ strayTimers' + Pending' = strayTimers + Pending + 1
<1>1. CASE timer
  BY <1>1 DEF SyncTypeOK, Pending
<1>2. CASE ~timer
  BY <1>2 DEF SyncTypeOK, Pending
<1>3. QED
  BY <1>1, <1>2

LEMMA LineStep == StatusInv /\ LineInv /\ [SyncNext]_vars => LineInv'
<1> SUFFICES ASSUME StatusInv, LineInv, [SyncNext]_vars PROVE LineInv'
  OBVIOUS
<1>t. /\ SyncTypeOK /\ SyncTypeOK' /\ Flags /\ ConnectedIsLive
      /\ OneLine /\ Drained /\ starts >= 1
  BY TypeStep DEF StatusInv, LineInv
<1>n. /\ awaiting \in Nat /\ strayTimers \in Nat /\ starts \in Nat
      /\ InUseCount \in Nat /\ Attempts <= starts
      /\ timer \in BOOLEAN /\ isDestroyed \in BOOLEAN
      /\ socket \in [Socket -> {"closed", "opening", "open", "closing"}]
  BY <1>t, InUseFinite DEF SyncTypeOK, OneLine
<1>b. PICK aw, ti, so \in Nat :
        /\ awaiting' = aw /\ strayTimers' + Pending' = ti /\ InUseCount' = so
        /\ Attempts' = aw + ti + so
  BY <1>t, AttemptsFacts, Zenon
<1>a. /\ Attempts = awaiting + (strayTimers + Pending) + InUseCount
      /\ strayTimers + Pending \in Nat /\ aw \in Nat /\ ti \in Nat /\ so \in Nat
      /\ awaiting' = aw /\ strayTimers' + Pending' = ti /\ InUseCount' = so
      /\ Attempts' = aw + ti + so
  BY <1>t, <1>b, AttemptsFacts
<1>1. CASE TokenArrives
  <2>1. PICK s \in Socket :
            /\ socket[s] = "closed"
            /\ socket' = [socket EXCEPT ![s] = "opening"] /\ ws' = s
    BY <1>1 DEF TokenArrives
  <2>2. /\ awaiting' = awaiting - 1
        /\ UNCHANGED <<timer, strayTimers, strayHeartbeats, starts>>
    BY <1>1 DEF TokenArrives, userVars
  <2>3. InUseCount' = InUseCount + 1
    BY <1>t, <2>1, InUseGrows
  <2>4. Attempts' = Attempts
    <3>1. Pending' = Pending
      BY <2>2 DEF Pending
    <3>2. QED
      BY <1>n, <2>2, <2>3, <3>1, <1>a
  <2>5. ~CanSend'
    BY <1>n, <2>1 DEF CanSend
  <2>6. QED
    BY <1>t, <2>2, <2>4, <2>5 DEF LineInv, OneLine, Drained
<1>2. CASE TokenFails
  <2>1. /\ awaiting' = awaiting - 1 /\ status' # "connected"
        /\ UNCHANGED <<socket, strayHeartbeats, starts>>
    BY <1>2 DEF TokenFails, userVars
  <2>2. InUseCount' = InUseCount
    BY <2>1 DEF InUse, InUseCount
  <2>3. Attempts' <= Attempts
    <3>1. CASE isDestroyed
      <4>1. UNCHANGED <<timer, strayTimers>>
        BY <1>2, <3>1 DEF TokenFails
      <4>2. Pending' = Pending
        BY <4>1 DEF Pending
      <4>3. QED
        BY <1>n, <2>1, <2>2, <4>1, <4>2, <1>a
    <3>2. CASE ~isDestroyed
      <4>1. strayTimers' \in Nat /\ strayTimers' + Pending' = strayTimers + Pending + 1
        BY <1>t, <1>2, <3>2, ScheduledFacts DEF TokenFails, ScheduleReconnect
      <4>2. QED
        BY <1>n, <2>1, <2>2, <4>1, <1>a
    <3>3. QED
      BY <3>1, <3>2
  <2>4. Attempts' \in Int /\ Attempts \in Int
    BY <1>n, <1>t, <2>1, <2>2, <1>a DEF SyncTypeOK
  <2>5. QED
    BY <1>n, <1>t, <2>1, <2>3, <2>4 DEF LineInv, OneLine, Drained
<1>3. CASE TimerFires
  <2>1. Connect /\ UNCHANGED <<socket, ws, queue, strayHeartbeats, starts>>
    BY <1>3 DEF TimerFires, userVars
  <2>2. InUseCount' = InUseCount /\ CanSend' = CanSend
    BY <2>1 DEF InUse, InUseCount, CanSend
  <2>3. strayTimers' \in Nat /\ strayTimers' + Pending' = strayTimers + Pending - 1
    BY <1>n, <1>3 DEF TimerFires, Pending
  <2>4. aw = awaiting \/ aw = awaiting + 1
    BY <1>t, <1>n, <1>a, <2>1, ConnectFacts
  <2>5. Attempts' <= starts
    <3>1. so = InUseCount
      BY <1>a, <2>2
    <3>2. ti = strayTimers + Pending - 1
      BY <1>a, <2>3
    <3>3. Pending \in Nat /\ awaiting \in Nat /\ InUseCount \in Nat /\ strayTimers \in Nat
      BY <1>n DEF Pending
    <3>4. aw + ti + so <= awaiting + (strayTimers + Pending) + InUseCount
      BY <2>4, <3>1, <3>2, <3>3
    <3>5. QED
      BY <1>n, <1>a, <3>4
  <2>6. status' = "connected" => status = "connected"
    BY <1>t, <1>n, <2>1, ConnectFacts
  <2>7. QED
    BY <1>t, <2>1, <2>2, <2>5, <2>6 DEF LineInv, OneLine, Drained
<1>4. CASE Stop
  <2>1. /\ status' = "disconnected"
        /\ ~timer' /\ UNCHANGED <<awaiting, strayTimers, strayHeartbeats, starts>>
        /\ socket' = [s \in Socket |-> IF s = ws THEN "closed" ELSE socket[s]]
    BY <1>4 DEF Stop
  <2>2. InUse' \in SUBSET InUse
    BY <2>1 DEF InUse
  <2>3. InUseCount' <= InUseCount
    BY <1>t, <2>2, InUseFinite, FS_Subset DEF InUseCount
  <2>4. Pending' = 0
    BY <2>1 DEF Pending
  <2>5. Attempts' <= starts
    <3>1. so <= InUseCount
      BY <1>a, <2>3
    <3>2. ti <= strayTimers + Pending
      BY <1>n, <1>a, <2>1, <2>4 DEF Pending
    <3>3. QED
      BY <1>n, <1>a, <2>1, <3>1, <3>2
  <2>6. QED
    BY <1>t, <2>1, <2>5 DEF LineInv, OneLine, Drained
<1>5. CASE Start /\ UNCHANGED queue
  <2>1. /\ Connect /\ UNCHANGED <<socket, ws, queue, timer, strayTimers, strayHeartbeats>>
        /\ starts' = IF isDestroyed THEN starts ELSE starts + 1
    BY <1>5 DEF Start
  <2>2. InUseCount' = InUseCount /\ CanSend' = CanSend /\ Pending' = Pending
    BY <2>1 DEF InUse, InUseCount, CanSend, Pending
  <2>3. \/ status' = status /\ awaiting' = awaiting /\ starts' = starts
        \/ status' = "connecting" /\ awaiting' = awaiting + 1 /\ starts' = starts + 1
    BY <1>t, <1>n, <2>1, ConnectFacts
  <2>4. Attempts' <= starts' /\ starts' >= starts
    BY <1>n, <2>1, <2>2, <2>3, <1>a
  <2>5. starts' = 1 => starts = 1
    BY <1>t, <1>n, <2>3
  <2>6. QED
    BY <1>t, <1>n, <2>1, <2>2, <2>3, <2>4, <2>5 DEF LineInv, OneLine, Drained
<1>6. ASSUME NEW s \in Socket, Opened(s) PROVE LineInv'
  <2>1. /\ socket[s] = "opening" /\ socket' = [socket EXCEPT ![s] = "open"]
        /\ UNCHANGED <<awaiting, timer, strayTimers, starts>>
    BY <1>6 DEF Opened, StartHeartbeat, userVars
  <2>2. InUse' = InUse /\ s \in InUse
    BY <1>t, <2>1, InUseSame DEF InUse
  <2>3. Attempts' = Attempts
    BY <2>1, <2>2 DEF Attempts, Timers
  <2>4. starts = 1 =>
            \A u \in Socket : socket[u] \notin {"open", "closing"}
    <3> SUFFICES ASSUME starts = 1, NEW u \in Socket, socket[u] \in {"open", "closing"}
                 PROVE  FALSE
      OBVIOUS
    <3>1. u \in InUse /\ u # s
      BY <2>1 DEF InUse
    <3>2. QED
      BY <1>t, <2>2, <3>1, OnlySocket
  <2>5. starts = 1 => strayHeartbeats' = 0
    <3>1. starts = 1 => ~heartbeat
      BY <1>t, <2>4 DEF Flags
    <3>2. QED
      BY <1>t, <1>6, <3>1 DEF Opened, StartHeartbeat, OneLine
  <2>6. starts = 1 /\ CanSend' => queue' = <<>>
    <3>1. starts = 1 => status # "connected"
      BY <1>t, <2>4 DEF ConnectedIsLive
    <3>2. starts = 1 => Drain
      BY <1>6, <3>1 DEF Opened, StartHeartbeat
    <3>3. QED
      BY <1>t, <3>2, DrainFacts
  <2>7. QED
    BY <1>t, <1>n, <2>1, <2>3, <2>5, <2>6 DEF LineInv, OneLine, Drained
<1>7. ASSUME NEW s \in Socket, Dropped(s) PROVE LineInv'
  <2>1. /\ socket[s] = "open" /\ socket' = [socket EXCEPT ![s] = "closing"]
        /\ UNCHANGED <<status, awaiting, ws, timer, strayTimers, strayHeartbeats,
                       starts, queue>>
    BY <1>7 DEF Dropped, userVars
  <2>2. InUse' = InUse
    BY <1>t, <2>1, InUseSame
  <2>3. Attempts' = Attempts
    BY <2>1, <2>2 DEF Attempts, Timers
  <2>4. CanSend' => CanSend
    BY <1>n, <1>t, <2>1 DEF CanSend, SyncTypeOK
  <2>5. QED
    BY <1>t, <2>1, <2>3, <2>4 DEF LineInv, OneLine, Drained
<1>8. ASSUME NEW s \in Socket, NEW c \in BOOLEAN, CloseEvent(s, c), socket[s] # "closed"
      PROVE  LineInv'
  <2>1. /\ socket' = [socket EXCEPT ![s] = "closed"]
        /\ UNCHANGED <<awaiting, strayHeartbeats, starts>>
    BY <1>8 DEF CloseEvent, userVars
  <2>2. InUseCount' = InUseCount - 1
    BY <1>t, <1>8, <2>1, InUseShrinks
  <2>3. /\ status' # "connected"
        /\ \/ timer' /\ strayTimers' = IF timer THEN strayTimers + 1 ELSE strayTimers
           \/ timer' = timer /\ strayTimers' = strayTimers
    BY <1>t, <1>8, CloseFacts
  <2>4. CASE timer' /\ strayTimers' = IF timer THEN strayTimers + 1 ELSE strayTimers
    <3>1. strayTimers' \in Nat /\ strayTimers' + Pending' = strayTimers + Pending + 1
      BY <1>t, <2>4, ScheduledFacts
    <3>2. Attempts' <= starts
      BY <1>n, <2>1, <2>2, <3>1, <1>a
    <3>3. QED
      BY <1>t, <2>1, <2>3, <3>2 DEF LineInv, OneLine, Drained
  <2>5. CASE timer' = timer /\ strayTimers' = strayTimers
    <3>1. Pending' = Pending
      BY <2>5 DEF Pending
    <3>2. Attempts' <= starts
      BY <1>n, <2>1, <2>2, <2>5, <3>1, <1>a
    <3>3. QED
      BY <1>t, <2>1, <2>3, <3>2 DEF LineInv, OneLine, Drained
  <2>6. QED
    BY <2>3, <2>4, <2>5
<1>9. ASSUME UNCHANGED connVars, UNCHANGED starts,
             status = "connected" /\ CanSend => UNCHANGED queue
      PROVE  LineInv'
  <2>1. UNCHANGED <<status, awaiting, socket, ws, timer, strayTimers, strayHeartbeats>>
    BY <1>9 DEF connVars
  <2>2. Attempts' = Attempts /\ CanSend' = CanSend
    BY <2>1 DEF Attempts, Timers, InUse, CanSend
  <2>3. QED
    BY <1>t, <1>9, <2>1, <2>2 DEF LineInv, OneLine, Drained
<1>10. ASSUME NEW r \in Report, CreateBug(r) PROVE LineInv'
  BY <1>9, <1>10 DEF CreateBug, Make, userVars
<1>11. ASSUME NEW n \in Note, SendNote(n) PROVE LineInv'
  BY <1>9, <1>11 DEF SendNote, Make, userVars
<1>12. CASE UNCHANGED vars
  BY <1>9, <1>12 DEF vars, userVars
<1>13. ASSUME NEW s \in Socket, SocketEvent(s) PROVE LineInv'
  BY <1>6, <1>7, <1>8, <1>13 DEF SocketEvent, OpeningFails, Closed
<1>14. CASE ToggleSync
  BY <1>4, <1>5, <1>14 DEF ToggleSync
<1>15. QED
  BY <1>1, <1>2, <1>3, <1>10, <1>11, <1>12, <1>13, <1>14 DEF SyncNext

LEMMA LineInit == SyncInit => LineInv
<1> SUFFICES ASSUME SyncInit PROVE LineInv
  OBVIOUS
<1>1. InUse = {}
  BY DEF SyncInit, Constructed, InUse
<1>2. Cardinality(InUse) = 0
  BY <1>1, FS_EmptySet
<1>3. Attempts = 1
  BY <1>2 DEF SyncInit, Constructed, Attempts, Timers
<1>4. QED
  BY <1>3 DEF SyncInit, Constructed, LineInv, OneLine, Drained

(* The inductive invariant: no step but start() adds an attempt, and the   *)
(* one attempt of a client started once has replayed when it can send.     *)
THEOREM SyncLine == SyncSpec => [](StatusInv /\ LineInv)
<1>1. SyncInit => StatusInv /\ LineInv
  BY StatusInit, LineInit
<1>2. StatusInv /\ LineInv /\ [SyncNext]_vars => (StatusInv /\ LineInv)'
  BY StatusStep, LineStep
<1>3. QED
  BY <1>1, <1>2, PTL DEF SyncSpec

(* There are never more attempts than calls of start(): closes, refusals   *)
(* and timers hand an attempt on and do not fork it.                       *)
THEOREM AttemptsNotForked == SyncSpec => []OneLine
<1>1. LineInv => OneLine
  BY DEF LineInv
<1>2. QED
  BY <1>1, SyncLine, PTL

(* A client started once has replayed its queue before it sends directly.  *)
THEOREM ReplayedFirst == SyncSpec => []Drained
<1>1. LineInv => Drained
  BY DEF LineInv
<1>2. QED
  BY <1>1, SyncLine, PTL

(* Who was told that sync is off has a client that was destroyed, which a  *)
(* token refused, a timer or a close finds so before it would go on: for   *)
(* any number of timers, waits and sockets that stop() did not reach.      *)
THEOREM StoppedBringsNothingUp == SyncSpec => StopBringsNothingUp
<1> DEFINE Off == ~enabled => isDestroyed
           Less == /\ awaiting' <= awaiting
                   /\ awaiting' + InUseCount' <= awaiting + InUseCount
                   /\ Timers' <= Timers
<1>1. SyncInit => Off
  BY DEF SyncInit
<1>2. ASSUME SyncTypeOK, Off, [SyncNext]_vars PROVE Off'
  <2>1. CASE ToggleSync
    BY <1>2, <2>1 DEF ToggleSync, Stop
  <2>2. CASE UNCHANGED <<isDestroyed, enabled>>
    BY <1>2, <2>2
  <2>3. QED
    BY <1>2, <2>1, <2>2
    DEF SyncNext, SocketEvent, TokenArrives, TokenFails, TimerFires, Opened, Dropped,
        OpeningFails, Closed, CloseEvent, CreateBug, SendNote, Make, connVars, userVars,
        vars
<1>3. ASSUME SyncTypeOK, Off, SyncNext, ~enabled, ~enabled' PROVE Less
  <2>t. /\ isDestroyed /\ awaiting \in Nat /\ strayTimers \in Nat /\ InUseCount \in Nat
        /\ timer \in BOOLEAN
        /\ socket \in [Socket -> {"closed", "opening", "open", "closing"}]
    BY <1>3, InUseFinite DEF SyncTypeOK
  <2>n. Timers \in Nat
    BY <2>t DEF Timers
  <2>s. ASSUME UNCHANGED <<awaiting, timer, strayTimers>>,
               InUseCount' = InUseCount \/ InUseCount' = InUseCount - 1
        PROVE  Less
    BY <2>t, <2>n, <2>s DEF Timers
  <2>k. UNCHANGED socket => InUseCount' = InUseCount
    BY DEF InUse, InUseCount
  <2>1. CASE TokenArrives
    <3>1. InUseCount' = InUseCount + 1
      BY <1>3, <2>1, InUseGrows DEF TokenArrives
    <3>2. awaiting' = awaiting - 1 /\ Timers' = Timers
      BY <2>1 DEF TokenArrives, Timers
    <3>3. QED
      BY <2>t, <2>n, <3>1, <3>2
  <2>2. CASE TokenFails
    <3>1. awaiting' = awaiting - 1 /\ Timers' = Timers
      BY <2>t, <2>2 DEF TokenFails, Timers
    <3>2. InUseCount' = InUseCount
      BY <2>2, <2>k DEF TokenFails
    <3>3. QED
      BY <2>t, <2>n, <3>1, <3>2
  <2>3. CASE TimerFires
    <3>1. awaiting' = awaiting
      BY <1>3, <2>t, <2>3, ConnectFacts DEF TimerFires
    <3>2. Timers' = Timers - 1
      BY <2>t, <2>3 DEF TimerFires, Timers
    <3>3. InUseCount' = InUseCount
      BY <2>3, <2>k DEF TimerFires
    <3>4. QED
      BY <2>t, <2>n, <3>1, <3>2, <3>3
  <2>4. ~ToggleSync \/ Stop
    BY <1>3 DEF ToggleSync
  <2>5. CASE Stop
    <3>1. awaiting' = awaiting /\ Timers' <= Timers
      BY <2>t, <2>5 DEF Stop, Timers
    <3>2. InUseCount' <= InUseCount /\ InUseCount' \in Nat
      <4>1. InUse' \in SUBSET InUse
        BY <2>t, <2>5 DEF Stop, InUse
      <4>2. QED
        BY <1>3, <4>1, InUseFinite, FS_Subset, FS_CardinalityType DEF InUseCount
    <3>3. \A x, y, z \in Nat : x <= y => z + x <= z + y /\ z <= z
      OBVIOUS
    <3>4. awaiting' <= awaiting /\ awaiting + InUseCount' <= awaiting + InUseCount
      BY <2>t, <3>1, <3>2, <3>3, Zenon
    <3>5. QED
      BY <3>1, <3>4
  <2>6. ASSUME NEW s \in Socket, SocketEvent(s) PROVE Less
    <3>1. CASE Opened(s)
      <4>1. InUseCount' = InUseCount
        BY <1>3, <3>1, InUseSame DEF Opened
      <4>2. QED
        BY <2>s, <3>1, <4>1 DEF Opened
    <3>2. CASE Dropped(s)
      <4>1. InUseCount' = InUseCount
        BY <1>3, <3>2, InUseSame DEF Dropped
      <4>2. QED
        BY <2>s, <3>2, <4>1 DEF Dropped
    <3>3. CASE OpeningFails(s) \/ Closed(s)
      <4>1. PICK c \in BOOLEAN : CloseEvent(s, c)
        BY <3>3 DEF OpeningFails, Closed
      <4>2. UNCHANGED <<awaiting, timer, strayTimers>>
        BY <2>t, <4>1 DEF CloseEvent
      <4>3. InUseCount' = InUseCount - 1
        BY <1>3, <3>3, <4>1, InUseShrinks DEF OpeningFails, Closed, CloseEvent
      <4>4. QED
        BY <2>s, <4>2, <4>3
    <3>4. QED
      BY <2>6, <3>1, <3>2, <3>3 DEF SocketEvent
  <2>7. ASSUME NEW op \in Op, Make(op) PROVE Less
    BY <2>7, <2>s, <2>k DEF Make, connVars
  <2>8. QED
    BY <1>3, <2>1, <2>2, <2>3, <2>4, <2>5, <2>6, <2>7
    DEF SyncNext, CreateBug, SendNote, Op
<1>4. SyncTypeOK /\ Off /\ [SyncNext]_vars
        => [~enabled /\ ~enabled'
            => /\ awaiting' <= awaiting
               /\ awaiting' + Cardinality(InUse') <= awaiting + Cardinality(InUse)
               /\ Timers' <= Timers]_vars
  BY <1>3 DEF InUseCount
<1>5. QED
  BY <1>1, <1>2, <1>4, SyncTypes, PTL DEF SyncSpec, StopBringsNothingUp

-----------------------------------------------------------------------------
(* Where the operations are: q the queue, m what was made, t what was sent.*)
Has(t, op) == \E k \in 1..Len(t) : t[k] = op

(* x was made before y.                                                    *)
Before(x, y, m) ==
    \A k, l \in 1..Len(m) : m[k] = x /\ m[l] = y => k < l


InOrder(t, m) == \A i, j \in 1..Len(t) : i < j => Before(t[i], t[j], m)

(* What came after the operation made as number i and was sent or queued.  *)
After(i, q, m, t) == {k \in (i + 1)..Len(m) : Has(t, m[k]) \/ Has(q, m[k])}

(* No operation was made twice; what waits was made, and waits in the order*)
(* in which it was; as many came after the one that waits at position k as *)
(* wait behind it.                                                         *)
Once(m) == \A i, j \in 1..Len(m) : m[i] = m[j] => i = j
QueuedAsMade(q, m) == \A k \in 1..Len(q) : Has(m, q[k])
Behind(q, m, t) ==
    \A k \in 1..Len(q), i \in 1..Len(m) :
        m[i] = q[k] => Cardinality(After(i, q, m, t)) >= Len(q) - k
Kept(q, m, t) ==
    \A i \in 1..Len(m) : m[i] \in Report =>
        \/ Has(t, m[i]) \/ Has(q, m[i])
        \/ Cardinality(After(i, q, m, t)) >= MaxQueue

Placed(q, m, t) ==
    /\ Once(m) /\ QueuedAsMade(q, m) /\ InOrder(q, m)
    /\ Behind(q, m, t) /\ Kept(q, m, t)

QueueInv == Placed(queue, made, sent)

(* The sequence an enqueue makes of a queue.                               *)
Enqueued(q, op) == Append(IF Len(q) >= MaxQueue THEN Tail(q) ELSE q, op)

LEMMA AppendedHas ==
    ASSUME NEW m \in Seq(Op), NEW op \in Op
    PROVE  /\ Append(m, op) \in Seq(Op) /\ Len(Append(m, op)) = Len(m) + 1
           /\ \A i \in 1..Len(m) : Append(m, op)[i] = m[i]
           /\ Append(m, op)[Len(m) + 1] = op
           /\ \A x : Has(m, x) => Has(Append(m, op), x)
           /\ Has(Append(m, op), op)
<1>1. /\ Append(m, op) \in Seq(Op) /\ Len(Append(m, op)) = Len(m) + 1
      /\ \A i \in 1..Len(m) : Append(m, op)[i] = m[i]
      /\ Append(m, op)[Len(m) + 1] = op /\ Len(m) \in Nat
  OBVIOUS
<1>2. QED
  BY <1>1 DEF Has

(* An operation that was not there is not made twice.                      *)
LEMMA MadeOnce ==
    ASSUME NEW m \in Seq(Op), NEW op \in Op, Once(m), ~Has(m, op)
    PROVE  Once(Append(m, op))
<1> DEFINE m2 == Append(m, op)
<1>1. /\ Len(m2) = Len(m) + 1 /\ m2[Len(m) + 1] = op /\ Len(m) \in Nat
      /\ \A i \in 1..Len(m) : m2[i] = m[i]
  BY AppendedHas
<1> HIDE DEF m2
<1>2. \A i \in 1..Len(m) : m[i] # op
  BY DEF Has
<1>3. \A i \in 1..Len(m2) :
          \/ i \in 1..Len(m) /\ m2[i] = m[i] /\ m2[i] # op
          \/ i = Len(m) + 1 /\ m2[i] = op
  BY <1>1, <1>2
<1>4. Once(m2)
  BY <1>3 DEF Once
<1>5. QED
  BY <1>4 DEF m2

(* What came after can be counted.                                         *)
LEMMA AfterFinite ==
    ASSUME NEW q, NEW m \in Seq(Op), NEW t, NEW i \in Nat
    PROVE  /\ IsFiniteSet(After(i, q, m, t))
           /\ Cardinality(After(i, q, m, t)) \in Nat
<1>1. IsFiniteSet((i + 1)..Len(m))
  BY FS_Interval
<1>2. After(i, q, m, t) \in SUBSET ((i + 1)..Len(m))
  BY DEF After
<1>3. IsFiniteSet(After(i, q, m, t))
  BY <1>1, <1>2, FS_Subset
<1>4. QED
  BY <1>3, FS_CardinalityType

(* A set that loses nothing, or one element, and gets another.             *)
LEMMA Counted ==
    ASSUME NEW S, NEW T, IsFiniteSet(S), IsFiniteSet(T), NEW x \in T, x \notin S
    PROVE  /\ S \subseteq T => Cardinality(T) >= Cardinality(S) + 1
           /\ \A y : S \ {y} \subseteq T => Cardinality(T) >= Cardinality(S)
<1>1. Cardinality(S) \in Nat /\ Cardinality(T) \in Nat
  BY FS_CardinalityType
<1>2. ASSUME NEW R, IsFiniteSet(R), R \subseteq T, x \notin R
      PROVE  Cardinality(T) >= Cardinality(R) + 1
  <2>1. IsFiniteSet(R \cup {x}) /\ Cardinality(R \cup {x}) = Cardinality(R) + 1
    BY <1>2, FS_AddElement
  <2>2. R \cup {x} \in SUBSET T
    BY <1>2
  <2>3. Cardinality(R \cup {x}) <= Cardinality(T)
    BY <2>2, FS_Subset
  <2>4. QED
    BY <1>1, <1>2, <2>1, <2>3, FS_CardinalityType
<1>3. ASSUME NEW y, S \ {y} \subseteq T PROVE Cardinality(T) >= Cardinality(S)
  <2>1. /\ IsFiniteSet(S \ {y}) /\ x \notin S \ {y}
        /\ Cardinality(S \ {y}) = IF y \in S THEN Cardinality(S) - 1 ELSE Cardinality(S)
    BY FS_RemoveElement
  <2>2. Cardinality(T) >= Cardinality(S \ {y}) + 1
    BY <1>2, <1>3, <2>1
  <2>3. QED
    BY <1>1, <2>1, <2>2
<1>4. QED
  BY <1>2, <1>3

(* Making another operation changes no order, and it is the last.          *)
LEMMA MadeLast ==
    ASSUME NEW m \in Seq(Op), NEW op \in Op, ~Has(m, op)
    PROVE  /\ \A x, y : Has(m, x) /\ Has(m, y) /\ Before(x, y, m)
                          => Before(x, y, Append(m, op))
           /\ \A x : Has(m, x) => Before(x, op, Append(m, op))
<1> DEFINE m2 == Append(m, op)
<1>1. /\ Len(m2) = Len(m) + 1 /\ m2[Len(m) + 1] = op /\ Len(m) \in Nat
      /\ \A i \in 1..Len(m) : m2[i] = m[i]
  BY AppendedHas
<1> HIDE DEF m2
<1>2. ASSUME NEW x, Has(m, x), NEW k \in 1..Len(m2), m2[k] = x
      PROVE  k \in 1..Len(m) /\ m[k] = x
  <2>1. x # op
    BY <1>2
  <2>2. QED
    BY <1>1, <1>2, <2>1
<1>3. ASSUME NEW x, NEW y, Has(m, x), Has(m, y), Before(x, y, m) PROVE Before(x, y, m2)
  BY <1>2, <1>3 DEF Before
<1>4. ASSUME NEW x, Has(m, x) PROVE Before(x, op, m2)
  <2> SUFFICES ASSUME NEW k \in 1..Len(m2), NEW l \in 1..Len(m2), m2[k] = x, m2[l] = op
               PROVE  k < l
    BY DEF Before
  <2>1. k \in 1..Len(m)
    BY <1>2, <1>4
  <2>2. l = Len(m) + 1
    <3>1. l \in 1..Len(m) => m[l] = op
      BY <1>1
    <3>2. l \notin 1..Len(m)
      BY <3>1 DEF Has
    <3>3. QED
      BY <1>1, <3>2
  <2>3. QED
    BY <1>1, <2>1, <2>2
<1>5. QED
  BY <1>3, <1>4 DEF m2

(* What an enqueue leaves: d operations fewer at the head, one more at the *)
(* end.                                                                    *)
Room(q) == IF Len(q) >= MaxQueue THEN 1 ELSE 0

LEMMA EnqueuedFacts ==
    ASSUME NEW q \in Seq(Op), NEW op \in Op, Len(q) <= MaxQueue
    PROVE  /\ Room(q) \in {0, 1} /\ (Room(q) = 1 => Len(q) = MaxQueue)
           /\ Len(Enqueued(q, op)) = Len(q) - Room(q) + 1
           /\ Enqueued(q, op)[Len(Enqueued(q, op))] = op
           /\ \A k \in 1..(Len(q) - Room(q)) : Enqueued(q, op)[k] = q[k + Room(q)]
           /\ \A k \in 1..Len(Enqueued(q, op)) :
                 \/ k = Len(Enqueued(q, op)) /\ Enqueued(q, op)[k] = op
                 \/ /\ k + Room(q) \in 1..Len(q)
                    /\ Enqueued(q, op)[k] = q[k + Room(q)]
<1>1. MaxQueue \in Nat /\ MaxQueue >= 1 /\ Len(q) \in Nat
  BY SyncAssumption
<1>2. CASE Len(q) >= MaxQueue
  <2>1. q # <<>>
    BY <1>1, <1>2
  <2>2. /\ Tail(q) \in Seq(Op) /\ Len(Tail(q)) = Len(q) - 1
        /\ \A k \in 1..(Len(q) - 1) : Tail(q)[k] = q[k + 1]
    BY <1>1, <2>1
  <2>3. Enqueued(q, op) = Append(Tail(q), op) /\ Room(q) = 1
    BY <1>2 DEF Enqueued, Room
  <2>4. QED
    BY <1>1, <1>2, <2>2, <2>3
<1>3. CASE ~(Len(q) >= MaxQueue)
  <2>1. Enqueued(q, op) = Append(q, op) /\ Room(q) = 0
    BY <1>3 DEF Enqueued, Room
  <2>2. QED
    BY <1>1, <1>3, <2>1
<1>4. QED
  BY <1>2, <1>3

(* A queue that makes room at its head stays in order.                     *)
LEMMA EnqueueInOrder ==
    ASSUME NEW q \in Seq(Op), NEW m \in Seq(Op), NEW op \in Op,
           InOrder(q, m), QueuedAsMade(q, m), ~Has(m, op), Len(q) <= MaxQueue
    PROVE  InOrder(Enqueued(q, op), Append(m, op))
<1> DEFINE m2 == Append(m, op)
           q2 == Enqueued(q, op)
           d == Room(q)
<1>1. /\ \A x : Has(m, x) => Before(x, op, m2)
      /\ \A x, y : Has(m, x) /\ Has(m, y) /\ Before(x, y, m) => Before(x, y, m2)
  BY MadeLast
<1>2. /\ d \in {0, 1} /\ Len(q) \in Nat /\ Len(q2) = Len(q) - d + 1
      /\ \A k \in 1..Len(q2) :
            \/ k = Len(q2) /\ q2[k] = op
            \/ k + d \in 1..Len(q) /\ q2[k] = q[k + d]
  BY EnqueuedFacts
<1> HIDE DEF m2, q2, d
<1>3. ASSUME NEW i \in 1..Len(q2), NEW j \in 1..Len(q2), i < j
      PROVE  Before(q2[i], q2[j], m2)
  <2>1. i + d \in 1..Len(q) /\ q2[i] = q[i + d]
    BY <1>2, <1>3
  <2>2. CASE q2[j] = op
    BY <1>1, <2>1, <2>2 DEF QueuedAsMade
  <2>3. CASE j + d \in 1..Len(q) /\ q2[j] = q[j + d]
    <3>1. i + d < j + d
      BY <1>2, <1>3
    <3>2. Before(q[i + d], q[j + d], m)
      BY <2>1, <2>3, <3>1 DEF InOrder
    <3>3. QED
      BY <1>1, <2>1, <2>3, <3>2 DEF QueuedAsMade
  <2>4. QED
    BY <1>2, <2>2, <2>3
<1>4. InOrder(q2, m2)
  BY <1>3 DEF InOrder
<1>5. QED
  BY <1>4 DEF q2, m2

(* An operation put at the end of the queue, with or without room made: it *)
(* came after all that were made, and what it pushed out came before all   *)
(* that wait.                                                              *)
LEMMA EnqueuePlaces ==
    ASSUME NEW q \in Seq(Op), NEW m \in Seq(Op), NEW t \in Seq(Op), NEW op \in Op,
           Placed(q, m, t), ~Has(m, op), Len(q) <= MaxQueue
    PROVE  Placed(Enqueued(q, op), Append(m, op), t)
<1> DEFINE m2 == Append(m, op)
           q2 == Enqueued(q, op)
           d == Room(q)
           n == Len(m) + 1
<1>1. /\ m2 \in Seq(Op) /\ Len(m2) = n /\ m2[n] = op
      /\ \A i \in 1..Len(m) : m2[i] = m[i]
      /\ \A x : Has(m, x) => Has(m2, x)
      /\ Has(m2, op)
  BY AppendedHas
<1>2. MaxQueue \in Nat /\ MaxQueue >= 1 /\ Len(q) \in Nat /\ Len(m) \in Nat
  BY SyncAssumption
<1>3. /\ d \in {0, 1} /\ (d = 1 => Len(q) = MaxQueue)
      /\ Len(q2) = Len(q) - d + 1 /\ q2[Len(q2)] = op
      /\ \A k \in 1..(Len(q) - d) : q2[k] = q[k + d]
  BY EnqueuedFacts
<1>4. \A k \in 1..Len(q2) :
        \/ k = Len(q2) /\ q2[k] = op
        \/ k + d \in 1..Len(q) /\ q2[k] = q[k + d]
  BY EnqueuedFacts
<1>5. Once(m2) /\ InOrder(q2, m2)
  BY MadeOnce, EnqueueInOrder DEF Placed
<1>p. /\ Once(m) /\ QueuedAsMade(q, m) /\ InOrder(q, m)
      /\ Behind(q, m, t) /\ Kept(q, m, t)
  BY DEF Placed
<1> HIDE DEF m2, q2, d
<1>6. QueuedAsMade(q2, m2)
  BY <1>1, <1>4, <1>p DEF QueuedAsMade
<1>7. Has(q2, op)
  <2>1. Len(q2) \in 1..Len(q2)
    BY <1>2, <1>3
  <2>2. QED
    BY <1>3, <2>1 DEF Has
<1>8. ASSUME NEW x, Has(q, x)
      PROVE  Has(q2, x) \/ (d = 1 /\ x = q[1] /\ Len(q) >= 1)
  <2>1. PICK k \in 1..Len(q) : q[k] = x
    BY <1>8 DEF Has
  <2>2. CASE k - d \in 1..(Len(q) - d)
    <3>1. q2[k - d] = q[k] /\ k - d \in 1..Len(q2)
      BY <1>2, <1>3, <2>2
    <3>2. QED
      BY <2>1, <3>1 DEF Has
  <2>3. CASE k - d \notin 1..(Len(q) - d)
    <3>1. k = 1 /\ d = 1
      BY <1>2, <1>3, <2>3
    <3>2. QED
      BY <2>1, <3>1
  <2>4. QED
    BY <2>2, <2>3
<1>9. ASSUME NEW i \in 1..Len(m)
      PROVE  /\ IsFiniteSet(After(i, q, m, t)) /\ IsFiniteSet(After(i, q2, m2, t))
             /\ n \in After(i, q2, m2, t) /\ n \notin After(i, q, m, t)
             /\ Cardinality(After(i, q, m, t)) \in Nat
             /\ Cardinality(After(i, q2, m2, t)) \in Nat
             /\ \A k \in After(i, q, m, t) :
                   /\ k \in (i + 1)..Len(m)
                   /\ k \in After(i, q2, m2, t)
                      \/ (d = 1 /\ m[k] = q[1] /\ Len(q) >= 1)
  <2>1. i \in Nat /\ n \in (i + 1)..Len(m2) /\ n \notin (i + 1)..Len(m)
    BY <1>1, <1>2
  <2>2. n \in After(i, q2, m2, t) /\ n \notin After(i, q, m, t)
    BY <1>1, <1>7, <2>1 DEF After
  <2>3. ASSUME NEW k \in After(i, q, m, t)
        PROVE  /\ k \in (i + 1)..Len(m)
               /\ k \in After(i, q2, m2, t)
                  \/ (d = 1 /\ m[k] = q[1] /\ Len(q) >= 1)
    <3>1. k \in (i + 1)..Len(m) /\ (Has(t, m[k]) \/ Has(q, m[k]))
      BY DEF After
    <3>2. k \in (i + 1)..Len(m2) /\ m2[k] = m[k]
      BY <1>1, <1>2, <3>1
    <3>3. QED
      BY <1>8, <3>1, <3>2 DEF After
  <2>4. QED
    BY <1>1, <2>1, <2>2, <2>3, AfterFinite
<1>10. Behind(q2, m2, t)
  <2> SUFFICES ASSUME NEW k \in 1..Len(q2), NEW i \in 1..Len(m2), m2[i] = q2[k]
               PROVE  Cardinality(After(i, q2, m2, t)) >= Len(q2) - k
    BY DEF Behind
  <2>1. CASE k = Len(q2)
    BY <1>1, <1>2, <1>3, <2>1, AfterFinite
  <2>2. CASE k + d \in 1..Len(q) /\ q2[k] = q[k + d]
    <3>1. i \in 1..Len(m) /\ m[i] = q[k + d]
      <4>1. Has(m, q[k + d])
        BY <1>p, <2>2 DEF QueuedAsMade
      <4>2. i # n
        BY <1>1, <2>2, <4>1
      <4>3. QED
        BY <1>1, <1>2, <2>2, <4>2
    <3>2. Cardinality(After(i, q, m, t)) >= Len(q) - (k + d)
      BY <1>p, <2>2, <3>1 DEF Behind
    <3>3. After(i, q, m, t) \subseteq After(i, q2, m2, t)
      <4> SUFFICES ASSUME NEW j \in After(i, q, m, t), d = 1, m[j] = q[1], Len(q) >= 1
                   PROVE  FALSE
        BY <1>9, <3>1
      <4>1. j \in 1..Len(m) /\ i < j
        BY <1>2, <1>9, <3>1
      <4>2. 1 \in 1..Len(q) /\ 1 < k + d
        BY <1>2, <1>3
      <4>3. Before(q[1], q[k + d], m)
        BY <1>p, <2>2, <4>2 DEF InOrder
      <4>4. j < i
        BY <3>1, <4>1, <4>3 DEF Before
      <4>5. QED
        BY <1>2, <4>1, <4>4
    <3>4. Cardinality(After(i, q2, m2, t)) >= Cardinality(After(i, q, m, t)) + 1
      BY <1>9, <3>1, <3>3, Counted
    <3>5. QED
      BY <1>2, <1>3, <1>9, <3>1, <3>2, <3>4
  <2>3. QED
    BY <1>4, <2>1, <2>2
<1>11. Kept(q2, m2, t)
  <2> SUFFICES ASSUME NEW i \in 1..Len(m2), m2[i] \in Report
               PROVE  \/ Has(t, m2[i]) \/ Has(q2, m2[i])
                      \/ Cardinality(After(i, q2, m2, t)) >= MaxQueue
    BY DEF Kept
  <2>1. CASE i = n
    BY <1>1, <1>7, <2>1
  <2>2. CASE i \in 1..Len(m)
    <3>1. m2[i] = m[i]
      BY <1>1, <2>2
    <3>2. CASE Cardinality(After(i, q, m, t)) >= MaxQueue
      <4>1. PICK y : After(i, q, m, t) \ {y} \subseteq After(i, q2, m2, t)
        <5>1. CASE d = 1 /\ Len(q) >= 1
          <6>1. PICK y \in 1..Len(m) : m[y] = q[1]
            BY <1>2, <1>p, <5>1 DEF QueuedAsMade, Has
          <6>2. \A k \in After(i, q, m, t) : m[k] = q[1] => k = y
            <7>1. \A k \in After(i, q, m, t) : k \in 1..Len(m)
              BY <1>2, <1>9, <2>2
            <7>2. QED
              BY <1>p, <6>1, <7>1 DEF Once
          <6>3. QED
            BY <1>9, <2>2, <6>2
        <5>2. CASE ~(d = 1 /\ Len(q) >= 1)
          BY <1>9, <2>2, <5>2
        <5>3. QED
          BY <5>1, <5>2
      <4>2. Cardinality(After(i, q2, m2, t)) >= Cardinality(After(i, q, m, t))
        BY <1>9, <2>2, <4>1, Counted
      <4>3. QED
        BY <1>2, <1>9, <2>2, <3>2, <4>2
    <3>3. CASE Has(q, m[i]) /\ ~Has(q2, m[i])
      <4>1. d = 1 /\ m[i] = q[1] /\ 1 \in 1..Len(q) /\ Len(q) = MaxQueue
        BY <1>2, <1>3, <1>8, <3>3
      <4>2. Cardinality(After(i, q, m, t)) >= MaxQueue - 1
        BY <1>p, <2>2, <4>1 DEF Behind
      <4>3. After(i, q, m, t) \subseteq After(i, q2, m2, t)
        <5> SUFFICES ASSUME NEW j \in After(i, q, m, t), m[j] = q[1] PROVE FALSE
          BY <1>9, <2>2
        <5>1. j \in 1..Len(m) /\ i < j
          BY <1>2, <1>9, <2>2
        <5>2. j = i
          BY <1>p, <2>2, <4>1, <5>1 DEF Once
        <5>3. QED
          BY <1>2, <5>1, <5>2
      <4>4. Cardinality(After(i, q2, m2, t)) >= Cardinality(After(i, q, m, t)) + 1
        BY <1>9, <2>2, <4>3, Counted
      <4>5. QED
        BY <1>2, <1>9, <2>2, <4>2, <4>4
    <3>4. QED
      BY <1>p, <2>2, <3>1, <3>2, <3>3 DEF Kept
  <2>3. QED
    BY <1>1, <1>2, <2>1, <2>2
<1>12. Placed(q2, m2, t)
  BY <1>5, <1>6, <1>10, <1>11 DEF Placed
<1>13. QED
  BY <1>12 DEF m2, q2

(* Nothing that came after is lost: what was made, sent or queued still is.*)
LEMMA AfterGrows ==
    ASSUME NEW q, NEW m \in Seq(Op), NEW t, NEW q2, NEW m2 \in Seq(Op), NEW t2,
           Len(m) <= Len(m2), \A k \in 1..Len(m) : m2[k] = m[k],
           \A x : Has(t, x) \/ Has(q, x) => Has(t2, x) \/ Has(q2, x),
           NEW i \in Nat
    PROVE  /\ Cardinality(After(i, q, m, t)) \in Nat
           /\ Cardinality(After(i, q2, m2, t2)) \in Nat
           /\ Cardinality(After(i, q2, m2, t2)) >= Cardinality(After(i, q, m, t))
<1>1. Len(m) \in Nat /\ Len(m2) \in Nat
  OBVIOUS
<1>2. ASSUME NEW k \in After(i, q, m, t) PROVE k \in After(i, q2, m2, t2)
  <2>1. k \in (i + 1)..Len(m) /\ (Has(t, m[k]) \/ Has(q, m[k]))
    BY DEF After
  <2>2. k \in (i + 1)..Len(m2) /\ k \in 1..Len(m)
    BY <1>1, <2>1
  <2>3. QED
    BY <2>1, <2>2 DEF After
<1>3. After(i, q, m, t) \in SUBSET After(i, q2, m2, t2)
  BY <1>2
<1>4. QED
  BY <1>3, AfterFinite, FS_Subset

(* An operation that goes past the queue: sent, or not one to be kept.     *)
LEMMA SendPlaces ==
    ASSUME NEW q \in Seq(Op), NEW m \in Seq(Op), NEW t \in Seq(Op), NEW op \in Op,
           NEW t2, Placed(q, m, t), ~Has(m, op),
           t2 = Append(t, op) \/ (t2 = t /\ op \notin Report)
    PROVE  Placed(q, Append(m, op), t2)
<1> DEFINE m2 == Append(m, op)
<1>1. /\ m2 \in Seq(Op) /\ Len(m2) = Len(m) + 1 /\ m2[Len(m) + 1] = op
      /\ \A i \in 1..Len(m) : m2[i] = m[i]
      /\ \A x : Has(m, x) => Has(m2, x)
  BY AppendedHas
<1>2. MaxQueue \in Nat /\ Len(q) \in Nat /\ Len(m) \in Nat
  BY SyncAssumption
<1>3. /\ \A x : Has(t, x) => Has(t2, x)
      /\ op \in Report => Has(t2, op)
  <2>1. CASE t2 = Append(t, op)
    <3>1. Has(Append(t, op), op) /\ \A x : Has(t, x) => Has(Append(t, op), x)
      BY AppendedHas
    <3>2. QED
      BY <2>1, <3>1
  <2>2. CASE t2 = t /\ op \notin Report
    BY <2>2
  <2>3. QED
    BY <2>1, <2>2
<1>p. /\ Once(m) /\ QueuedAsMade(q, m) /\ InOrder(q, m)
      /\ Behind(q, m, t) /\ Kept(q, m, t)
  BY DEF Placed
<1>4. Once(m2) /\ InOrder(q, m2)
  BY <1>p, MadeOnce, MadeLast DEF InOrder, QueuedAsMade
<1> HIDE DEF m2
<1>5. \A i \in 1..Len(m2) : i \in 1..Len(m) \/ i = Len(m) + 1
  BY <1>1, <1>2
<1>6. QueuedAsMade(q, m2)
  BY <1>1, <1>p DEF QueuedAsMade
<1>7. ASSUME NEW i \in 1..Len(m)
      PROVE  /\ Cardinality(After(i, q, m, t)) \in Nat
             /\ Cardinality(After(i, q, m2, t2)) \in Nat
             /\ Cardinality(After(i, q, m2, t2)) >= Cardinality(After(i, q, m, t))
  <2>1. Len(m) <= Len(m2) /\ i \in Nat
    BY <1>1, <1>2
  <2>2. QED
    BY <1>1, <1>3, <2>1, AfterGrows
<1>8. Behind(q, m2, t2)
  <2> SUFFICES ASSUME NEW k \in 1..Len(q), NEW i \in 1..Len(m2), m2[i] = q[k]
               PROVE  Cardinality(After(i, q, m2, t2)) >= Len(q) - k
    BY DEF Behind
  <2>1. i \in 1..Len(m) /\ m[i] = q[k]
    BY <1>1, <1>5, <1>p DEF QueuedAsMade
  <2>2. Cardinality(After(i, q, m, t)) >= Len(q) - k
    BY <1>p, <2>1 DEF Behind
  <2>3. QED
    BY <1>2, <1>7, <2>1, <2>2
<1>9. Kept(q, m2, t2)
  <2> SUFFICES ASSUME NEW i \in 1..Len(m2), m2[i] \in Report
               PROVE  \/ Has(t2, m2[i]) \/ Has(q, m2[i])
                      \/ Cardinality(After(i, q, m2, t2)) >= MaxQueue
    BY DEF Kept
  <2>1. CASE i = Len(m) + 1
    BY <1>1, <1>3, <2>1
  <2>2. CASE i \in 1..Len(m)
    <3>1. \/ Has(t, m[i]) \/ Has(q, m[i])
          \/ Cardinality(After(i, q, m, t)) >= MaxQueue
      BY <1>1, <1>p, <2>2 DEF Kept
    <3>2. QED
      BY <1>1, <1>2, <1>3, <1>7, <2>2, <3>1
  <2>3. QED
    BY <1>5, <2>1, <2>2
<1>10. Placed(q, m2, t2)
  BY <1>4, <1>6, <1>8, <1>9 DEF Placed
<1>11. QED
  BY <1>10 DEF m2

(* All that waited, sent.                                                  *)
LEMMA DrainPlaces ==
    ASSUME NEW q \in Seq(Op), NEW m \in Seq(Op), NEW t \in Seq(Op), Placed(q, m, t)
    PROVE  Placed(<<>>, m, t \o q)
<1>1. /\ Len(t) \in Nat /\ Len(q) \in Nat /\ Len(t \o q) = Len(t) + Len(q)
      /\ \A k \in 1..Len(t) : (t \o q)[k] = t[k]
      /\ \A k \in 1..Len(q) : (t \o q)[Len(t) + k] = q[k]
  OBVIOUS
<1>2. \A x : Has(t, x) \/ Has(q, x) => Has(t \o q, x)
  <2>1. ASSUME NEW x, Has(t, x) PROVE Has(t \o q, x)
    BY <1>1, <2>1 DEF Has
  <2>2. ASSUME NEW x, Has(q, x) PROVE Has(t \o q, x)
    <3>1. PICK k \in 1..Len(q) : q[k] = x
      BY <2>2 DEF Has
    <3>2. Len(t) + k \in 1..Len(t \o q) /\ (t \o q)[Len(t) + k] = x
      BY <1>1, <3>1
    <3>3. QED
      BY <3>2 DEF Has
  <2>3. QED
    BY <2>1, <2>2
<1>3. Len(<<>>) = 0
  OBVIOUS
<1>4. QueuedAsMade(<<>>, m) /\ Behind(<<>>, m, t \o q) /\ InOrder(<<>>, m)
  BY <1>3 DEF QueuedAsMade, Behind, InOrder
<1>5. Kept(<<>>, m, t \o q)
  <2> SUFFICES ASSUME NEW i \in 1..Len(m), m[i] \in Report
               PROVE  \/ Has(t \o q, m[i])
                      \/ Cardinality(After(i, <<>>, m, t \o q)) >= MaxQueue
    BY DEF Kept
  <2>1. \/ Has(t \o q, m[i])
        \/ Cardinality(After(i, q, m, t)) >= MaxQueue
    BY <1>2 DEF Placed, Kept
  <2>2. /\ Cardinality(After(i, q, m, t)) \in Nat
        /\ Cardinality(After(i, <<>>, m, t \o q)) \in Nat
        /\ Cardinality(After(i, <<>>, m, t \o q)) >= Cardinality(After(i, q, m, t))
    BY <1>2, AfterGrows
  <2>3. QED
    BY <2>1, <2>2, SyncAssumption
<1>6. QED
  BY <1>4, <1>5 DEF Placed

LEMMA QueueStep == SyncTypeOK /\ QueueInv /\ [SyncNext]_vars => QueueInv'
<1> SUFFICES ASSUME SyncTypeOK, QueueInv, [SyncNext]_vars PROVE QueueInv'
  OBVIOUS
<1>t. /\ queue \in Seq(Op) /\ made \in Seq(Op) /\ sent \in Seq(Op)
      /\ Len(queue) <= MaxQueue /\ Placed(queue, made, sent)
  BY DEF SyncTypeOK, QueueInv
<1>1. CASE UNCHANGED <<queue, made, sent>>
  BY <1>t, <1>1 DEF QueueInv
<1>2. ASSUME NEW s \in Socket, Opened(s) PROVE QueueInv'
  <2>1. CASE UNCHANGED <<queue, sent>>
    BY <1>1, <1>2, <2>1 DEF Opened, StartHeartbeat
  <2>2. CASE queue' = <<>> /\ sent' = sent \o queue
    <3>1. made' = made
      BY <1>2 DEF Opened, StartHeartbeat
    <3>2. QED
      BY <1>t, <2>2, <3>1, DrainPlaces DEF QueueInv
  <2>3. QED
    BY <1>2, <2>1, <2>2 DEF Opened, StartHeartbeat, Drain
<1>3. ASSUME NEW op \in Op, Make(op)
      PROVE  made' = Append(made, op) /\ ~Has(made, op)
  BY <1>3 DEF Make, Has
<1>4. ASSUME NEW op \in Op, Make(op), Enqueue(op), UNCHANGED sent PROVE QueueInv'
  <2>1. queue' = Enqueued(queue, op)
    BY <1>4 DEF Enqueue, Enqueued
  <2>2. QED
    BY <1>t, <1>3, <1>4, <2>1, EnqueuePlaces DEF QueueInv
<1>5. ASSUME NEW op \in Op, Make(op), UNCHANGED queue,
             sent' = Append(sent, op) \/ (sent' = sent /\ op \notin Report)
      PROVE  QueueInv'
  <2>1. made' = Append(made, op) /\ ~Has(made, op)
    BY <1>3, <1>5
  <2>2. \A t2 : t2 = Append(sent, op) \/ (t2 = sent /\ op \notin Report)
                => Placed(queue, Append(made, op), t2)
    BY <1>t, <1>5, <2>1, SendPlaces
  <2>3. Placed(queue, Append(made, op), sent')
    BY <1>5, <2>2
  <2>4. queue' = queue /\ Placed(queue', made', sent')
    BY <1>5, <2>1, <2>3
  <2>5. QED
    BY <2>4 DEF QueueInv
<1>6. ASSUME NEW r \in Report, CreateBug(r) PROVE QueueInv'
  <2>1. r \in Op
    BY DEF Op
  <2>2. /\ Make(r)
        /\ \/ UNCHANGED queue /\ sent' = Append(sent, r)
           \/ UNCHANGED sent /\ Enqueue(r)
    BY <1>6 DEF CreateBug
  <2>3. CASE UNCHANGED sent /\ Enqueue(r)
    BY <1>4, <2>1, <2>2, <2>3
  <2>4. CASE UNCHANGED queue /\ sent' = Append(sent, r)
    <3>1. Make(r) /\ UNCHANGED queue
      BY <2>2, <2>4
    <3>2. sent' = Append(sent, r) \/ (sent' = sent /\ r \notin Report)
      BY <2>4
    <3>3. QED
      BY <1>5, <2>1, <3>1, <3>2, Zenon
  <2>5. QED
    BY <2>2, <2>3, <2>4
<1>7. ASSUME NEW n \in Note, SendNote(n) PROVE QueueInv'
  <2>1. n \in Op /\ n \notin Report
    BY SyncAssumption DEF Op
  <2>2. /\ Make(n)
        /\ \/ UNCHANGED queue /\ (sent' = Append(sent, n) \/ sent' = sent)
           \/ UNCHANGED sent /\ Enqueue(n)
    BY <1>7 DEF SendNote
  <2>3. CASE UNCHANGED sent /\ Enqueue(n)
    BY <1>4, <2>1, <2>2, <2>3
  <2>4. CASE UNCHANGED queue /\ (sent' = Append(sent, n) \/ sent' = sent)
    BY <1>5, <2>1, <2>2, <2>4
  <2>5. QED
    BY <2>2, <2>3, <2>4
<1>8. TokenArrives \/ TokenFails \/ TimerFires \/ ToggleSync
        => UNCHANGED <<queue, made, sent>>
  BY DEF TokenArrives, TokenFails, TimerFires, ToggleSync
<1>9. \A s \in Socket : Dropped(s) \/ OpeningFails(s) \/ Closed(s)
        => UNCHANGED <<queue, made, sent>>
  BY DEF Dropped, OpeningFails, Closed, CloseEvent
<1>10. UNCHANGED vars => UNCHANGED <<queue, made, sent>>
  BY DEF vars
<1>11. QED
  BY <1>1, <1>2, <1>6, <1>7, <1>8, <1>9, <1>10 DEF SyncNext, SocketEvent

(* A report is sent, or waits, or at least MaxQueue operations that came   *)
(* after it were sent or wait: no drop, stop, overlap of sockets or replay *)
(* loses one, and an overflow no more than it has to.                      *)
THEOREM ReportsNotLost == SyncSpec => []ReportsKept
<1>1. ASSUME SyncInit PROVE QueueInv
  <2>1. Len(queue) = 0 /\ Len(made) = 0
    BY <1>1 DEF SyncInit, Constructed
  <2>2. QED
    BY <2>1 DEF QueueInv, Placed, Once, InOrder, QueuedAsMade, Behind, Kept
<1>2. StatusInv /\ QueueInv /\ [SyncNext]_vars => QueueInv'
  BY QueueStep DEF StatusInv
<1>3. QueueInv => ReportsKept
  BY DEF QueueInv, Placed, Kept, Has, After, Found, ReportsKept
<1>4. QED
  BY <1>1, <1>2, <1>3, SyncStatus, PTL DEF SyncSpec

-----------------------------------------------------------------------------
(* In which order they are.                                                *)
SentAsMade(m, t) == \A i \in 1..Len(t) : Has(m, t[i])
SentFirst(q, m, t) ==
    \A i \in 1..Len(t), j \in 1..Len(q) : Before(t[i], q[j], m)

Ordered(q, m, t) ==
    SentAsMade(m, t) /\ InOrder(t, m) /\ InOrder(q, m) /\ SentFirst(q, m, t)

OrderInv == starts = 1 => Ordered(queue, made, sent)

(* Whatever was made is in the same order after another is made.           *)
LEMMA OrderKept ==
    ASSUME NEW q \in Seq(Op), NEW m \in Seq(Op), NEW t \in Seq(Op), NEW op \in Op,
           Ordered(q, m, t), QueuedAsMade(q, m), ~Has(m, op)
    PROVE  Ordered(q, Append(m, op), t)
<1>1. SentAsMade(Append(m, op), t)
  BY AppendedHas DEF Ordered, SentAsMade
<1>2. InOrder(t, Append(m, op))
  BY MadeLast DEF Ordered, SentAsMade, InOrder
<1>3. InOrder(q, Append(m, op))
  BY MadeLast DEF Ordered, QueuedAsMade, InOrder
<1>4. SentFirst(q, Append(m, op), t)
  BY MadeLast DEF Ordered, SentAsMade, QueuedAsMade, SentFirst
<1>5. QED
  BY <1>1, <1>2, <1>3, <1>4 DEF Ordered

(* An operation that has to wait waits behind the others.                  *)
LEMMA EnqueueOrders ==
    ASSUME NEW q \in Seq(Op), NEW m \in Seq(Op), NEW t \in Seq(Op), NEW op \in Op,
           Ordered(q, m, t), QueuedAsMade(q, m), ~Has(m, op), Len(q) <= MaxQueue
    PROVE  Ordered(Enqueued(q, op), Append(m, op), t)
<1> DEFINE m2 == Append(m, op)
           q2 == Enqueued(q, op)
           d == Room(q)
<1>1. Ordered(q, m2, t)
  BY OrderKept
<1>2. \A x : Has(m, x) => Before(x, op, m2)
  BY MadeLast
<1>3. /\ d \in {0, 1} /\ Len(q) \in Nat /\ Len(q2) = Len(q) - d + 1
      /\ \A k \in 1..Len(q2) :
            \/ k = Len(q2) /\ q2[k] = op
            \/ k + d \in 1..Len(q) /\ q2[k] = q[k + d]
  BY EnqueuedFacts
<1> HIDE DEF m2, q2, d
<1>4. InOrder(q2, m2)
  BY EnqueueInOrder DEF Ordered, q2, m2
<1>5. SentFirst(q2, m2, t)
  <2> SUFFICES ASSUME NEW i \in 1..Len(t), NEW j \in 1..Len(q2)
               PROVE  Before(t[i], q2[j], m2)
    BY DEF SentFirst
  <2>1. CASE q2[j] = op
    BY <1>2, <2>1 DEF Ordered, SentAsMade
  <2>2. CASE j + d \in 1..Len(q) /\ q2[j] = q[j + d]
    BY <1>1, <2>2 DEF Ordered, SentFirst
  <2>3. QED
    BY <1>3, <2>1, <2>2
<1>6. Ordered(q2, m2, t)
  BY <1>1, <1>4, <1>5 DEF Ordered
<1>7. QED
  BY <1>6 DEF q2, m2

(* An operation that is sent when nothing waits is the last.               *)
LEMMA SendOrders ==
    ASSUME NEW m \in Seq(Op), NEW t \in Seq(Op), NEW op \in Op,
           Ordered(<<>>, m, t), ~Has(m, op)
    PROVE  Ordered(<<>>, Append(m, op), Append(t, op))
<1> DEFINE m2 == Append(m, op)
           t2 == Append(t, op)
<1>1. Len(<<>>) = 0 /\ <<>> \in Seq(Op)
  OBVIOUS
<1>2. Ordered(<<>>, m2, t) /\ Has(m2, op)
  <2>1. QueuedAsMade(<<>>, m)
    BY <1>1 DEF QueuedAsMade
  <2>2. Ordered(<<>>, Append(m, op), t)
    BY <1>1, <2>1, OrderKept
  <2>3. Has(Append(m, op), op)
    BY AppendedHas
  <2>4. QED
    BY <2>2, <2>3
<1>3. \A x : Has(m, x) => Before(x, op, m2)
  BY MadeLast
<1>4. /\ Len(t) \in Nat /\ Len(t2) = Len(t) + 1 /\ t2[Len(t) + 1] = op
      /\ \A i \in 1..Len(t) : t2[i] = t[i]
  BY AppendedHas
<1> HIDE DEF m2, t2
<1>5. \A i \in 1..Len(t2) :
          \/ i = Len(t) + 1 /\ t2[i] = op
          \/ i \in 1..Len(t) /\ t2[i] = t[i]
  BY <1>4
<1>6. SentAsMade(m2, t2)
  BY <1>2, <1>5 DEF Ordered, SentAsMade
<1>7. InOrder(t2, m2)
  <2> SUFFICES ASSUME NEW i \in 1..Len(t2), NEW j \in 1..Len(t2), i < j
               PROVE  Before(t2[i], t2[j], m2)
    BY DEF InOrder
  <2>1. i \in 1..Len(t) /\ t2[i] = t[i]
    BY <1>4, <1>5
  <2>2. CASE t2[j] = op
    BY <1>3, <2>1, <2>2 DEF Ordered, SentAsMade
  <2>3. CASE j \in 1..Len(t) /\ t2[j] = t[j]
    BY <1>2, <2>1, <2>3 DEF Ordered, InOrder
  <2>4. QED
    BY <1>5, <2>2, <2>3
<1>8. SentFirst(<<>>, m2, t2) /\ InOrder(<<>>, m2)
  BY <1>1 DEF SentFirst, InOrder
<1>9. Ordered(<<>>, m2, t2)
  BY <1>6, <1>7, <1>8 DEF Ordered
<1>10. QED
  BY <1>9 DEF m2, t2

(* The replay sends what waited in the order in which it waited.           *)
LEMMA DrainOrders ==
    ASSUME NEW q \in Seq(Op), NEW m \in Seq(Op), NEW t \in Seq(Op),
           Ordered(q, m, t), QueuedAsMade(q, m)
    PROVE  Ordered(<<>>, m, t \o q)
<1> DEFINE t2 == t \o q
<1>1. /\ Len(t) \in Nat /\ Len(q) \in Nat /\ Len(t2) = Len(t) + Len(q)
      /\ \A i \in 1..Len(t2) :
            \/ i \in 1..Len(t) /\ t2[i] = t[i]
            \/ i > Len(t) /\ i - Len(t) \in 1..Len(q) /\ t2[i] = q[i - Len(t)]
  OBVIOUS
<1> HIDE DEF t2
<1>2. SentAsMade(m, t2)
  BY <1>1 DEF Ordered, SentAsMade, QueuedAsMade
<1>3. InOrder(t2, m)
  <2> SUFFICES ASSUME NEW i \in 1..Len(t2), NEW j \in 1..Len(t2), i < j
               PROVE  Before(t2[i], t2[j], m)
    BY DEF InOrder
  <2>1. CASE j \in 1..Len(t) /\ t2[j] = t[j]
    <3>1. i \in 1..Len(t) /\ t2[i] = t[i]
      BY <1>1, <2>1
    <3>2. QED
      BY <2>1, <3>1 DEF Ordered, InOrder
  <2>2. CASE j > Len(t) /\ j - Len(t) \in 1..Len(q) /\ t2[j] = q[j - Len(t)]
    <3>1. CASE i \in 1..Len(t) /\ t2[i] = t[i]
      BY <2>2, <3>1 DEF Ordered, SentFirst
    <3>2. CASE i > Len(t) /\ i - Len(t) \in 1..Len(q) /\ t2[i] = q[i - Len(t)]
      <4>1. i - Len(t) < j - Len(t)
        BY <1>1
      <4>2. QED
        BY <2>2, <3>2, <4>1 DEF Ordered, InOrder
    <3>3. QED
      BY <1>1, <3>1, <3>2
  <2>3. QED
    BY <1>1, <2>1, <2>2
<1>4. Len(<<>>) = 0
  OBVIOUS
<1>5. SentFirst(<<>>, m, t2) /\ InOrder(<<>>, m)
  BY <1>4 DEF SentFirst, InOrder
<1>6. Ordered(<<>>, m, t2)
  BY <1>2, <1>3, <1>5 DEF Ordered
<1>7. QED
  BY <1>6 DEF t2

LEMMA OrderStep ==
    StatusInv /\ LineInv /\ QueueInv /\ OrderInv /\ [SyncNext]_vars => OrderInv'
<1> SUFFICES ASSUME StatusInv, LineInv, QueueInv, OrderInv, [SyncNext]_vars, starts' = 1
             PROVE  Ordered(queue', made', sent')
  BY DEF OrderInv
<1>t. /\ queue \in Seq(Op) /\ made \in Seq(Op) /\ sent \in Seq(Op)
      /\ Len(queue) <= MaxQueue /\ QueuedAsMade(queue, made)
      /\ starts \in Nat /\ starts >= 1 /\ Drained
  BY DEF StatusInv, SyncTypeOK, LineInv, QueueInv, Placed
<1>s. starts = 1
  <2>1. CASE ToggleSync
    BY <1>t, <2>1 DEF ToggleSync, Stop, Start
  <2>2. CASE ~ToggleSync
    <3>1. UNCHANGED starts
      BY <2>2 DEF SyncNext, SocketEvent, TokenArrives, TokenFails, TimerFires, Opened,
                  Dropped, OpeningFails, Closed, CloseEvent, CreateBug, SendNote, Make,
                  userVars, vars
    <3>2. QED
      BY <3>1
  <2>3. QED
    BY <2>1, <2>2
<1>o. Ordered(queue, made, sent)
  BY <1>s DEF OrderInv
<1>1. CASE UNCHANGED <<queue, made, sent>>
  BY <1>o, <1>1
<1>2. ASSUME NEW s \in Socket, Opened(s) PROVE Ordered(queue', made', sent')
  <2>1. made' = made
    BY <1>2 DEF Opened
  <2>2. CASE UNCHANGED <<queue, sent>>
    BY <1>o, <2>1, <2>2
  <2>3. CASE queue' = <<>> /\ sent' = sent \o queue
    BY <1>t, <1>o, <2>1, <2>3, DrainOrders
  <2>4. QED
    BY <1>2, <2>2, <2>3 DEF Opened, Drain
<1>3. ASSUME NEW op \in Op, Make(op),
             \/ Enqueue(op) /\ UNCHANGED sent
             \/ UNCHANGED <<queue, sent>>
             \/ CanSend /\ status = "connected" /\ UNCHANGED queue /\ sent' = Append(sent, op)
      PROVE  Ordered(queue', made', sent')
  <2>1. made' = Append(made, op) /\ ~Has(made, op)
    BY <1>3 DEF Make, Has
  <2>2. CASE Enqueue(op) /\ UNCHANGED sent
    <3>1. queue' = Enqueued(queue, op)
      BY <2>2 DEF Enqueue, Enqueued
    <3>2. QED
      BY <1>t, <1>o, <2>1, <2>2, <3>1, EnqueueOrders
  <2>3. CASE UNCHANGED <<queue, sent>>
    BY <1>t, <1>o, <2>1, <2>3, OrderKept
  <2>4. CASE /\ CanSend /\ status = "connected"
             /\ UNCHANGED queue /\ sent' = Append(sent, op)
    <3>1. queue = <<>>
      BY <1>t, <1>s, <2>4 DEF Drained
    <3>2. QED
      BY <1>t, <1>o, <2>1, <2>4, <3>1, SendOrders
  <2>5. QED
    BY <1>3, <2>2, <2>3, <2>4
<1>4. ASSUME NEW r \in Report, CreateBug(r) PROVE Ordered(queue', made', sent')
  BY <1>3, <1>4 DEF CreateBug, Op
<1>5. ASSUME NEW n \in Note, SendNote(n) PROVE Ordered(queue', made', sent')
  BY <1>3, <1>5 DEF SendNote, Op
<1>6. TokenArrives \/ TokenFails \/ TimerFires \/ ToggleSync
        => UNCHANGED <<queue, made, sent>>
  BY DEF TokenArrives, TokenFails, TimerFires, ToggleSync
<1>7. \A s \in Socket : Dropped(s) \/ OpeningFails(s) \/ Closed(s)
        => UNCHANGED <<queue, made, sent>>
  BY DEF Dropped, OpeningFails, Closed, CloseEvent
<1>8. UNCHANGED vars => UNCHANGED <<queue, made, sent>>
  BY DEF vars
<1>9. QED
  BY <1>1, <1>2, <1>4, <1>5, <1>6, <1>7, <1>8 DEF SyncNext, SocketEvent

(* A client started once sends what its user made in the order in which it *)
(* was made, over any number of drops and replays: direct sends find an    *)
(* empty queue, and a replay sends what is later than all that was sent.   *)
THEOREM SentAsOrdered == SyncSpec => []SentInOrder
<1> DEFINE Inv == StatusInv /\ LineInv /\ QueueInv /\ OrderInv
<1>1. ASSUME SyncInit PROVE Inv
  <2>1. Len(queue) = 0 /\ Len(made) = 0 /\ Len(sent) = 0
    BY <1>1 DEF SyncInit, Constructed
  <2>2. QueueInv
    BY <2>1 DEF QueueInv, Placed, Once, InOrder, QueuedAsMade, Behind, Kept
  <2>3. OrderInv
    BY <2>1 DEF OrderInv, Ordered, SentAsMade, InOrder, SentFirst
  <2>4. QED
    BY <1>1, <2>2, <2>3, StatusInit, LineInit
<1>2. Inv /\ [SyncNext]_vars => Inv'
  BY StatusStep, LineStep, QueueStep, OrderStep DEF StatusInv
<1>3. Inv => SentInOrder
  BY DEF OrderInv, Ordered, InOrder, Before, SentInOrder
<1>4. QED
  BY <1>1, <1>2, <1>3, PTL DEF SyncSpec

-----------------------------------------------------------------------------
(* What the editor shows of the bugs (Editor).  An answered list is the    *)
(* newest page of the bugs there were at some moment, and the command has  *)
(* noted every announced bug that is newer.                                *)
PageKnown(j, stored, told) ==
    j.pc = "answered" /\ j.what = "list" =>
        \E m \in 0..stored : /\ j.page = Newest(m)
                             /\ \A b \in told : b > m => b \in j.since

ShownInv ==
    /\ created \in 0..MaxBugs /\ tree \in Seq(Bug) /\ job \in [Task -> Job]
    /\ \A b \in announced : b \in Bug /\ b <= created
    /\ \A t \in Task : PageKnown(job[t], created, announced)
    /\ AnnotationsMatchTree

(* A page is a sequence of bugs without repetition; what is older than it  *)
(* leaves it full of newer ones.                                           *)
LEMMA NewestFacts ==
    ASSUME NEW m \in 0..MaxBugs
    PROVE  /\ Newest(m) \in Seq(Bug) /\ IsInjective(Newest(m))
           /\ \A b \in 1..m : b \notin Range(Newest(m)) =>
                /\ Len(Newest(m)) = Page
                /\ \A i \in 1..Page : Newest(m)[i] > b
<1> DEFINE k == IF m < Page THEN m ELSE Page
<1>1. /\ m \in Nat /\ MaxBugs \in Nat /\ m <= MaxBugs /\ Page \in Nat /\ k \in Nat
      /\ k <= m /\ k <= Page
  BY EditorAssumption
<1>2. /\ DOMAIN Newest(m) = 1..k
      /\ \A i \in 1..k : Newest(m)[i] = m + 1 - i
  BY DEF Newest
<1>3. \A i \in 1..k : m + 1 - i \in Bug
  BY <1>1 DEF Bug
<1>4. Newest(m) \in Seq(Bug) /\ Len(Newest(m)) = k
  <2>1. Newest(m) \in [1..k -> Bug]
    BY <1>2, <1>3 DEF Newest
  <2> QED
    BY <1>1, <2>1
<1>5. IsInjective(Newest(m))
  BY <1>1, <1>2 DEF IsInjective
<1>6. ASSUME NEW b \in 1..m, b \notin Range(Newest(m))
      PROVE  /\ Len(Newest(m)) = Page
             /\ \A i \in 1..Page : Newest(m)[i] > b
  <2>1. \A i \in 1..k : m + 1 - i # b
    BY <1>2, <1>6 DEF Range
  <2>2. m + 1 - b \notin 1..k
    BY <1>1, <2>1
  <2>3. m + 1 - b > k /\ k = Page
    BY <1>1, <2>2
  <2>4. \A i \in 1..k : m + 1 - i > b
    BY <1>1, <2>3
  <2> QED
    BY <1>2, <1>4, <2>3, <2>4
<1> QED
  BY <1>4, <1>5, <1>6

(* Where nothing is listed, nothing is annotated.                          *)
LEMMA InFilesEmpty == InFiles(<<>>) = <<>>
<1> DEFINE Steps(g) ==
             g = [n \in 0..Len(<<>>) |->
                    IF n = 0 THEN <<>>
                    ELSE IF <<>>[n] \in InFile THEN Append(g[n - 1], <<>>[n])
                    ELSE g[n - 1]]
           only == [n \in 0..Len(<<>>) |-> <<>>]
<1>1. 0..Len(<<>>) = {0}
  OBVIOUS
<1>2. Steps(only)
  BY <1>1
<1>3. Steps(CHOOSE g : Steps(g))
  BY <1>2
<1>4. (CHOOSE g : Steps(g))[0] = <<>>
  BY <1>1, <1>3
<1>5. InFiles(<<>>) = (CHOOSE g : Steps(g))[Len(<<>>)]
  BY DEF InFiles
<1> QED
  BY <1>4, <1>5

LEMMA SameBugs ==
    ASSUME NEW s \in Seq(Bug), NEW q \in Seq(Bug), Len(s) = Len(q),
           \A i \in 1..Len(s) : s[i] = q[i]
    PROVE  s = q
OBVIOUS

(* A bug that is put first moves the part that is annotated by one.        *)
LEMMA FirstMovesRest ==
    ASSUME NEW s \in Seq(Bug), NEW b \in Bug, NEW n \in 0..Len(s)
    PROVE  /\ <<b>> \o s \in Seq(Bug) /\ Len(<<b>> \o s) = Len(s) + 1
           /\ SubSeq(<<b>> \o s, n + 2, Len(s) + 1) = SubSeq(s, n + 1, Len(s))
           /\ Range(<<b>> \o s) = Range(s) \cup {b}
           /\ b \notin Range(s) /\ IsInjective(s) => IsInjective(<<b>> \o s)
<1> DEFINE p == <<b>> \o s
<1>1. /\ p \in Seq(Bug) /\ Len(p) = Len(s) + 1 /\ Len(s) \in Nat /\ n \in Nat
      /\ p[1] = b /\ \A i \in 1..Len(s) : p[i + 1] = s[i]
  OBVIOUS
<1>2. /\ DOMAIN p = 1..(Len(s) + 1) /\ DOMAIN s = 1..Len(s)
      /\ \A i \in 1..(Len(s) + 1) : i = 1 \/ (i - 1 \in 1..Len(s) /\ p[i] = s[i - 1])
  <2>1. \A i \in 1..(Len(s) + 1) : i # 1 => i - 1 \in 1..Len(s) /\ p[(i - 1) + 1] = s[i - 1]
    BY <1>1
  <2> QED
    BY <1>1, <2>1
<1> HIDE DEF p
<1>3. SubSeq(p, n + 2, Len(s) + 1) = SubSeq(s, n + 1, Len(s))
  <2>1. /\ SubSeq(p, n + 2, Len(s) + 1) \in Seq(Bug)
        /\ SubSeq(s, n + 1, Len(s)) \in Seq(Bug)
        /\ Len(SubSeq(p, n + 2, Len(s) + 1)) = Len(s) - n
        /\ Len(SubSeq(s, n + 1, Len(s))) = Len(s) - n
    BY <1>1
  <2>2. \A i \in 1..(Len(s) - n) :
            SubSeq(p, n + 2, Len(s) + 1)[i] = SubSeq(s, n + 1, Len(s))[i]
    <3> SUFFICES ASSUME NEW i \in 1..(Len(s) - n)
                 PROVE  SubSeq(p, n + 2, Len(s) + 1)[i] = SubSeq(s, n + 1, Len(s))[i]
      OBVIOUS
    <3>1. n + i \in 1..Len(s) /\ n + i + 1 \in 1..(Len(s) + 1)
      BY <1>1
    <3>2. SubSeq(p, n + 2, Len(s) + 1)[i] = p[n + i + 1]
      BY <1>1
    <3>3. SubSeq(s, n + 1, Len(s))[i] = s[n + i]
      BY <1>1
    <3> QED
      BY <1>1, <3>1, <3>2, <3>3
  <2> QED
    BY <2>1, <2>2, SameBugs
<1>4. Range(p) = Range(s) \cup {b}
  BY <1>1, <1>2 DEF Range
<1>5. ASSUME b \notin Range(s), IsInjective(s) PROVE IsInjective(p)
  <2>1. \A i \in 1..Len(s) : s[i] # b
    BY <1>2, <1>5 DEF Range
  <2> SUFFICES ASSUME NEW i \in 1..(Len(s) + 1), NEW j \in 1..(Len(s) + 1), p[i] = p[j]
               PROVE  i = j
    BY <1>2 DEF IsInjective
  <2>2. CASE i = 1 \/ j = 1
    BY <1>1, <1>2, <2>1, <2>2
  <2>3. CASE i # 1 /\ j # 1
    BY <1>1, <1>2, <1>5, <2>3 DEF IsInjective
  <2> QED
    BY <2>2, <2>3
<1> QED
  BY <1>1, <1>3, <1>4, <1>5 DEF p

LEMMA WholeIsItself ==
    ASSUME NEW s \in Seq(Bug)
    PROVE  SubSeq(s, 0 + 1, Len(s)) = s
OBVIOUS

(* An event puts its bug first, if it is not listed.                       *)
LEMMA AddKeeps ==
    ASSUME tree \in Seq(Bug), AnnotationsMatchTree, NEW b \in Bug, AddBug(b),
           diagnostics' = diagnostics
    PROVE  /\ tree' \in Seq(Bug) /\ AnnotationsMatchTree'
           /\ \A c \in Range(tree) : c \in Range(tree')
<1>1. CASE tree' = tree
  BY <1>1 DEF AnnotationsMatchTree
<1>2. CASE b \notin Range(tree) /\ tree' = <<b>> \o tree
  <2>1. PICK n \in 0..Len(tree) : diagnostics = InFiles(SubSeq(tree, n + 1, Len(tree)))
    BY DEF AnnotationsMatchTree
  <2>2. /\ tree' \in Seq(Bug) /\ Len(tree') = Len(tree) + 1
        /\ SubSeq(tree', n + 2, Len(tree) + 1) = SubSeq(tree, n + 1, Len(tree))
        /\ Range(tree') = Range(tree) \cup {b} /\ IsInjective(tree')
    BY <1>2, FirstMovesRest DEF AnnotationsMatchTree
  <2>3. n + 1 \in 0..Len(tree') /\ (n + 1) + 1 = n + 2 /\ Len(tree') = Len(tree) + 1
    BY <2>2
  <2>4. diagnostics' = InFiles(SubSeq(tree', (n + 1) + 1, Len(tree')))
    BY <2>1, <2>2, <2>3
  <2> QED
    BY <2>2, <2>3, <2>4 DEF AnnotationsMatchTree
<1>3. Contains(tree, b) <=> b \in Range(tree)
  BY DEF Contains, Range
<1> QED
  BY <1>1, <1>2, <1>3 DEF AddBug

(* A command goes on, and the others stand where they stood.               *)
LEMMA JobReplaced ==
    ASSUME ShownInv, NEW t \in Task, NEW r \in Job, PageKnown(r, created, announced),
           job' = [job EXCEPT ![t] = r], UNCHANGED <<created, announced>>,
           tree' \in Seq(Bug), AnnotationsMatchTree'
    PROVE  ShownInv'
<1>1. job' \in [Task -> Job] /\ job'[t] = r /\ \A u \in Task : u # t => job'[u] = job[u]
  BY DEF ShownInv
<1>2. \A u \in Task : PageKnown(job'[u], created, announced)
  BY <1>1 DEF ShownInv
<1> QED
  BY <1>1, <1>2 DEF ShownInv

LEMMA ShownStep == ShownInv /\ [EditorNext]_editorVars => ShownInv'
<1> SUFFICES ASSUME ShownInv, [EditorNext]_editorVars PROVE ShownInv'
  OBVIOUS
<1>i. /\ created \in 0..MaxBugs /\ tree \in Seq(Bug) /\ job \in [Task -> Job]
      /\ \A b \in announced : b \in Bug /\ b <= created
      /\ \A t \in Task : PageKnown(job[t], created, announced)
      /\ AnnotationsMatchTree
  BY DEF ShownInv
<1>n. /\ NoJob \in Job /\ NoJob.pc = "none" /\ MaxBugs \in Nat
      /\ <<>> \in Seq(Bug) /\ {} \in SUBSET Bug
  BY EditorAssumption DEF NoJob, Job
<1>s. UNCHANGED <<tree, diagnostics>> => tree' \in Seq(Bug) /\ AnnotationsMatchTree'
  BY <1>i DEF AnnotationsMatchTree
<1>1. ASSUME NEW t \in Task, RefreshBugs(t) \/ ShowBugDetails(t)
      PROVE  ShownInv'
  <2>1. PICK what \in {"list", "details"}, b \in 0..MaxBugs : Begins(t, what, b)
    BY <1>1, <1>i, <1>n DEF RefreshBugs, ShowBugDetails, Bug
  <2>2. [pc |-> "token", what |-> what, bug |-> b, page |-> <<>>, since |-> {}] \in Job
    BY <1>n DEF Job
  <2> QED
    BY <1>s, <2>1, <2>2, JobReplaced DEF Begins, screen, PageKnown
<1>2. ASSUME NEW t \in Task, TokenReturned(t)
      PROVE  ShownInv'
  <2>1. job' = [job EXCEPT ![t] = [job[t] EXCEPT !.pc = "asked"]]
    BY <1>2 DEF TokenReturned
  <2>2. job[t] \in Job
    BY <1>i
  <2>3. [job[t] EXCEPT !.pc = "asked"] \in Job /\ [job[t] EXCEPT !.pc = "asked"].pc = "asked"
    BY <2>2 DEF Job
  <2> QED
    BY <1>2, <1>s, <2>1, <2>3, JobReplaced DEF TokenReturned, screen, PageKnown
<1>3. ASSUME NEW t \in Task, ApiAnswers(t)
      PROVE  ShownInv'
  <2> DEFINE page == IF job[t].what = "list" THEN Newest(created) ELSE <<>>
             m == [job EXCEPT ![t] = [job[t] EXCEPT !.pc = "answered"]]
             r == [pc |-> "answered", what |-> job[t].what, bug |-> job[t].bug,
                   page |-> page, since |-> job[t].since]
  <2>1. job' = [m EXCEPT ![t] = [m[t] EXCEPT !.page = page]]
    BY <1>3 DEF ApiAnswers
  <2>2. job[t] \in Job
    BY <1>i
  <2>3. [job[t] EXCEPT !.pc = "answered"] =
            [pc |-> "answered", what |-> job[t].what, bug |-> job[t].bug,
             page |-> job[t].page, since |-> job[t].since]
    BY <2>2 DEF Job
  <2>m. m[t] = [pc |-> "answered", what |-> job[t].what, bug |-> job[t].bug,
                page |-> job[t].page, since |-> job[t].since]
    BY <1>i, <2>3
  <2>4. [m[t] EXCEPT !.page = page] = r
    BY <2>m
  <2>5. job' = [job EXCEPT ![t] = r]
    BY <1>i, <2>1, <2>4
  <2>6. page \in Seq(Bug)
    BY <1>i, <1>n, NewestFacts
  <2>7. r \in Job
    BY <2>2, <2>6 DEF Job
  <2>8. PageKnown(r, created, announced)
    <3>1. created \in 0..created /\ \A b \in announced : ~(b > created)
      BY <1>i, <1>n DEF Bug
    <3> QED
      BY <3>1 DEF PageKnown
  <2> QED
    BY <1>3, <1>s, <2>5, <2>7, <2>8, JobReplaced DEF ApiAnswers, screen
<1>4. ASSUME NEW t \in Task, AnswerArrives(t)
      PROVE  ShownInv'
  <2>1. /\ job[t].pc = "answered" /\ job' = [job EXCEPT ![t] = NoJob]
        /\ UNCHANGED <<created, announced>>
    BY <1>4 DEF AnswerArrives
  <2>2. PageKnown(NoJob, created, announced)
    BY <1>n DEF PageKnown
  <2>3. CASE job[t].what = "list" /\ Repopulate(job[t].page)
    <3>1. PICK m \in 0..created : job[t].page = Newest(m)
      BY <1>i, <2>1, <2>3 DEF PageKnown
    <3>2. m \in 0..MaxBugs
      BY <1>i, <1>n
    <3>3. tree' \in Seq(Bug) /\ IsInjective(tree') /\ diagnostics' = InFiles(tree')
      BY <2>3, <3>1, <3>2, NewestFacts DEF Repopulate
    <3>4. 0 \in 0..Len(tree') /\ SubSeq(tree', 0 + 1, Len(tree')) = tree'
      BY <3>3, WholeIsItself
    <3>5. AnnotationsMatchTree'
      BY <3>3, <3>4 DEF AnnotationsMatchTree
    <3> QED
      BY <1>n, <2>1, <2>2, <3>3, <3>5, JobReplaced
  <2>4. CASE CreateOrShow(job[t].bug)
    BY <1>n, <1>s, <2>1, <2>2, <2>4, JobReplaced DEF CreateOrShow
  <2> QED
    BY <1>4, <2>3, <2>4 DEF AnswerArrives
<1>5. ASSUME NEW t \in Task, CommandFails(t)
      PROVE  ShownInv'
  BY <1>5, <1>n, <1>s, JobReplaced DEF CommandFails, screen, PageKnown
<1>6. CASE Create
  <2>1. created' \in 0..MaxBugs /\ created <= created'
    BY <1>6, <1>i, <1>n DEF Create
  <2>2. \A m \in 0..created : m \in 0..created'
    BY <1>i, <1>n, <2>1
  <2>3. \A t \in Task : PageKnown(job[t], created', announced)
    BY <1>i, <2>2 DEF PageKnown
  <2>4. \A b \in announced : b \in Bug /\ b <= created'
    BY <1>i, <1>n, <2>1 DEF Bug
  <2> QED
    BY <1>6, <1>i, <1>s, <2>1, <2>3, <2>4 DEF Create, ShownInv
<1>7. ASSUME NEW b \in Bug, BugCreated(b)
      PROVE  ShownInv'
  <2>1. /\ b <= created /\ announced' = announced \cup {b} /\ AddBug(b)
        /\ UNCHANGED <<created, diagnostics>>
        /\ job' = [t \in Task |-> IF job[t].pc = "answered" /\ job[t].what = "list"
                                  THEN [job[t] EXCEPT !.since = @ \cup {b}] ELSE job[t]]
    BY <1>7 DEF BugCreated
  <2>2. tree' \in Seq(Bug) /\ AnnotationsMatchTree'
    BY <1>i, <2>1, AddKeeps
  <2>3. ASSUME NEW t \in Task
        PROVE  job'[t] \in Job /\ PageKnown(job'[t], created, announced')
    <3>0. job[t] \in Job /\ PageKnown(job[t], created, announced)
      BY <1>i
    <3>1. CASE job[t].pc = "answered" /\ job[t].what = "list"
      <4> DEFINE r == [job[t] EXCEPT !.since = @ \cup {b}]
      <4>1. job'[t] = r
        BY <2>1, <3>1
      <4>2. r \in Job /\ r.page = job[t].page /\ r.since = job[t].since \cup {b}
        BY <3>0 DEF Job
      <4> HIDE DEF r
      <4>3. PICK m \in 0..created : /\ job[t].page = Newest(m)
                                    /\ \A c \in announced : c > m => c \in job[t].since
        BY <3>0, <3>1 DEF PageKnown
      <4>4. \A c \in announced' : c > m => c \in r.since
        BY <2>1, <4>2, <4>3
      <4> QED
        BY <4>1, <4>2, <4>3, <4>4 DEF PageKnown
    <3>2. CASE ~(job[t].pc = "answered" /\ job[t].what = "list")
      BY <2>1, <3>0, <3>2 DEF PageKnown
    <3> QED
      BY <3>1, <3>2
  <2>4. job' \in [Task -> Job]
    BY <2>1, <2>3
  <2> QED
    BY <1>i, <2>1, <2>2, <2>3, <2>4 DEF ShownInv
<1>8. CASE ClosePanel
  BY <1>8, <1>i, <1>s DEF ClosePanel, ShownInv
<1>9. CASE RestartEditor
  <2>1. tree' = <<>> /\ diagnostics' = InFiles(<<>>) /\ 0 \in 0..Len(<<>>)
    BY <1>9, InFilesEmpty DEF RestartEditor
  <2>2. SubSeq(tree', 0 + 1, Len(tree')) = <<>> /\ IsInjective(tree')
    BY <1>n, <2>1, WholeIsItself DEF IsInjective
  <2>3. AnnotationsMatchTree'
    BY <2>1, <2>2 DEF AnnotationsMatchTree
  <2>4. \A t \in Task : job'[t] = NoJob
    BY <1>9 DEF RestartEditor
  <2> QED
    BY <1>9, <1>i, <1>n, <2>1, <2>3, <2>4 DEF RestartEditor, ShownInv, PageKnown
<1>10. CASE UNCHANGED editorVars
  BY <1>10, <1>i, <1>s DEF editorVars, ShownInv
<1> QED
  BY <1>1, <1>2, <1>3, <1>4, <1>5, <1>6, <1>7, <1>8, <1>9, <1>10 DEF EditorNext

LEMMA ShownInvariant == EditorSpec => []ShownInv
<1>1. ASSUME EditorInit PROVE ShownInv
  <2>1. NoJob \in Job /\ NoJob.pc = "none" /\ created \in 0..MaxBugs
    BY <1>1, EditorAssumption DEF NoJob, Job, EditorInit
  <2>2. tree = <<>> /\ diagnostics = InFiles(<<>>) /\ 0 \in 0..Len(<<>>)
    BY <1>1, InFilesEmpty DEF EditorInit
  <2>3. tree \in Seq(Bug) /\ SubSeq(tree, 0 + 1, Len(tree)) = <<>> /\ IsInjective(tree)
    BY <2>2, WholeIsItself DEF IsInjective
  <2>4. AnnotationsMatchTree
    BY <2>2, <2>3 DEF AnnotationsMatchTree
  <2> QED
    BY <1>1, <2>1, <2>3, <2>4 DEF EditorInit, ShownInv, PageKnown
<1> QED
  BY <1>1, ShownStep, PTL DEF EditorSpec

(* A bug is listed once, and annotated in its file once if and only if the *)
(* last refresh brought it: however refreshes overlap each other and the   *)
(* events (extension.ts, refreshBugs; sidebar.ts, setBugs and addBug).     *)
THEOREM AnnotatedAsListed == EditorSpec => []AnnotationsMatchTree
<1>1. ShownInv => AnnotationsMatchTree
  BY DEF ShownInv
<1> QED
  BY <1>1, ShownInvariant, PTL

(* A bug leaves the list only by a refresh that could not know of it, or   *)
(* whose page is full of newer ones, or by a restart.                      *)
THEOREM ListedStays == EditorSpec => BugsStayListed
<1>1. ASSUME ShownInv, [EditorNext]_editorVars
      PROVE  [\A b \in Range(tree) \ Range(tree') :
                \/ RestartEditor
                \/ \E t \in Task : /\ AnswerArrives(t)
                                   /\ \/ b \in job[t].since
                                      \/ b \notin announced
                                      \/ Len(tree') = Page /\ \A i \in 1..Page : tree'[i] > b
             ]_editorVars
  <2> SUFFICES ASSUME EditorNext, ~RestartEditor, NEW b \in Range(tree) \ Range(tree')
               PROVE  \E t \in Task :
                         /\ AnswerArrives(t)
                         /\ \/ b \in job[t].since
                            \/ b \notin announced
                            \/ Len(tree') = Page /\ \A i \in 1..Page : tree'[i] > b
    BY <1>1
  <2>1. tree' # tree
    OBVIOUS
  <2>2. \A t \in Task : ~(RefreshBugs(t) \/ ShowBugDetails(t) \/ TokenReturned(t)
                            \/ ApiAnswers(t) \/ CommandFails(t))
    BY <2>1 DEF RefreshBugs, ShowBugDetails, Begins, TokenReturned, ApiAnswers,
                CommandFails, screen
  <2>3. \A c \in Bug : ~BugCreated(c)
    <3> SUFFICES ASSUME NEW c \in Bug, BugCreated(c) PROVE FALSE
      OBVIOUS
    <3>1. AddBug(c) /\ UNCHANGED diagnostics
      BY DEF BugCreated
    <3> QED
      BY <1>1, <3>1, AddKeeps DEF ShownInv
  <2>4. ~Create /\ ~ClosePanel
    BY <2>1 DEF Create, ClosePanel
  <2>5. PICK t \in Task : AnswerArrives(t)
    BY <2>2, <2>3, <2>4 DEF EditorNext
  <2>6. job[t].pc = "answered" /\ job[t].what = "list" /\ tree' = job[t].page
    BY <2>1, <2>5 DEF AnswerArrives, Repopulate, CreateOrShow
  <2>7. PICK m \in 0..created : /\ job[t].page = Newest(m)
                                /\ \A c \in announced : c > m => c \in job[t].since
    BY <1>1, <2>6 DEF ShownInv, PageKnown
  <2>8. b \in Bug /\ m \in 0..MaxBugs /\ MaxBugs \in Nat
    BY <1>1, EditorAssumption DEF ShownInv, Range
  <2>9. CASE b \in 1..m
    <3>1. Len(tree') = Page /\ \A i \in 1..Page : tree'[i] > b
      BY <2>6, <2>7, <2>8, <2>9, NewestFacts
    <3> QED
      BY <2>5, <3>1
  <2>10. CASE b \notin 1..m
    <3>1. b > m
      BY <2>8, <2>10 DEF Bug
    <3> QED
      BY <2>5, <2>7, <3>1
  <2> QED
    BY <2>9, <2>10
<1> QED
  BY <1>1, ShownInvariant, PTL DEF EditorSpec, BugsStayListed
=============================================================================
