------------------------------ MODULE HubProofs ------------------------------
(***************************************************************************)
(* Proofs about Hub: its types, the registry, whom an event reaches, and   *)
(* the order in which operations get on the stream.                        *)
(***************************************************************************)
EXTENDS Hub, TLAPS

-----------------------------------------------------------------------------
(* What goes into an inbox is a sequence of messages.                      *)
LEMMA OpenedMessages ==
    ASSUME NEW q \in Seq(Operation)
    PROVE  <<Subscribe>> \o q \in Seq(Message)
<1>1. q \in Seq(Message)
  BY DEF Message
<1>2. Subscribe \in Message
  BY DEF Message
<1>3. QED
  BY <1>1, <1>2

LEMMA NewMessage ==
    ASSUME NEW q \in Seq(Message), NEW n \in Nat
    PROVE  /\ n + 1 \in Operation
           /\ Append(q, n + 1) \in Seq(Message)
           /\ q # <<>> => Tail(q) \in Seq(Message) /\ Head(q) \in Message
           /\ \A k \in 0..Len(q) : SubSeq(q, 1, k) \in Seq(Message)
<1>1. n + 1 \in Operation
  BY DEF Operation
<1>2. n + 1 \in Message
  BY <1>1 DEF Message
<1>3. QED
  BY <1>1, <1>2

(* The types by kind of variable.                                          *)
ReplicasOK ==
    /\ up \in [Replica -> BOOLEAN] /\ js \in [Replica -> BOOLEAN]
    /\ subscribed \in [Replica -> SUBSET HubSubject]
    /\ sessions \in [Replica -> SUBSET Socket]
    /\ orgIndex \in [Replica -> [Org -> SUBSET Socket]]
SocketsOK ==
    /\ user \in [Socket -> Editor] /\ at \in [Socket -> Replica]
    /\ nth \in [Socket -> Nat]
    /\ near \in [Socket -> {"closed", "opening", "open"}]
    /\ far \in [Socket -> {"closed", "open", "refused"}]
    /\ broken \in [Socket -> BOOLEAN]
    /\ inbox \in [Socket -> Seq(Message)]
    /\ watchedFiles \in [Socket -> SUBSET Pattern]
EditorsOK ==
    /\ link \in [Editor -> Socket \cup {NoSocket}]
    /\ refused \in [Editor -> BOOLEAN] /\ queue \in [Editor -> Seq(Operation)]
    /\ made \in [Editor -> Nat] /\ connects \in [Editor -> Nat]
StreamOK ==
    /\ requests \in Seq(Request)
    /\ eventState \in [Event -> {"new", "pending", "acked"}]
    /\ received \in [Editor -> SUBSET Event]
    /\ promised \subseteq Socket \X Event

LEMMA TypesByKind ==
    HubTypeOK <=> ReplicasOK /\ SocketsOK /\ EditorsOK /\ StreamOK /\ faults \in 0..MaxFaults
  BY DEF HubTypeOK, ReplicasOK, SocketsOK, EditorsOK, StreamOK

LEMMA FaultCounted ==
    ASSUME faults \in 0..MaxFaults, Fault
    PROVE  faults' \in 0..MaxFaults
  BY HubAssumption DEF Fault

LEMMA RemoveTypes ==
    ASSUME HubTypeOK, NEW h \in Replica, NEW s \in Socket, Remove(h, s)
    PROVE  /\ sessions' \in [Replica -> SUBSET Socket]
           /\ orgIndex' \in [Replica -> [Org -> SUBSET Socket]]
<1>1. user[s] \in Editor /\ OrgOf[user[s]] \in Org
  BY HubAssumption DEF HubTypeOK
<1>2. orgIndex[h] \in [Org -> SUBSET Socket]
  BY DEF HubTypeOK
<1>3. QED
  BY <1>1, <1>2 DEF Remove, HubTypeOK

LEMMA CrashTypes ==
    ASSUME HubTypeOK, NEW h \in Replica, Crash(h)
    PROVE  /\ ReplicasOK' /\ SocketsOK' /\ EditorsOK'
           /\ promised' \in SUBSET (Socket \X Event)
           /\ UNCHANGED eventState
<1>1. ReplicasOK'
  BY DEF Crash, HubTypeOK, ReplicasOK
<1>2. SocketsOK'
  <2>1. <<>> \in Seq(Message) /\ {} \in SUBSET Pattern
    OBVIOUS
  <2>2. far' \in [Socket -> {"closed", "open", "refused"}]
    BY DEF Crash, HubTypeOK
  <2>3. broken' \in [Socket -> BOOLEAN]
    BY Zenon DEF Crash, HubTypeOK
  <2>4. inbox' \in [Socket -> Seq(Message)]
    BY <2>1 DEF Crash, HubTypeOK
  <2>5. watchedFiles' \in [Socket -> SUBSET Pattern]
    BY <2>1 DEF Crash, HubTypeOK
  <2>6. QED
    BY <2>2, <2>3, <2>4, <2>5 DEF Crash, HubTypeOK, SocketsOK
<1>3. EditorsOK' /\ promised' \in SUBSET (Socket \X Event) /\ UNCHANGED eventState
  BY DEF Crash, Excuse, editorVars, HubTypeOK, EditorsOK
<1>4. QED
  BY <1>1, <1>2, <1>3

LEMMA SendTypes ==
    ASSUME HubTypeOK, NEW v \in Event, NEW S, Send(v, S)
    PROVE  received' \in [Editor -> SUBSET Event]
  BY DEF Send, HubTypeOK

LEMMA ForwardedIsRequest ==
    ASSUME HubTypeOK, NEW s \in Socket, inbox[s] # <<>>, Head(inbox[s]) \in Operation
    PROVE  Forwarded(s) \in Request /\ Append(requests, Forwarded(s)) \in Seq(Request)
<1>1. Forwarded(s) \in Request
  BY DEF Forwarded, Request, HubTypeOK
<1>2. QED
  BY <1>1 DEF HubTypeOK

(* Init and each action keep the types.                                    *)
LEMMA TypesInit == HubInit => HubTypeOK
<1> SUFFICES ASSUME HubInit PROVE HubTypeOK
  OBVIOUS
<1>1. (CHOOSE e \in Editor : TRUE) \in Editor /\ (CHOOSE h \in Replica : TRUE) \in Replica
  BY HubAssumption, Zenon
<1>2. user \in [Socket -> Editor] /\ at \in [Socket -> Replica]
  BY <1>1 DEF HubInit
<1>3. ReplicasOK
  BY DEF HubInit, ReplicasOK
<1>4. SocketsOK
  BY <1>2 DEF HubInit, SocketsOK
<1>5. EditorsOK /\ StreamOK
  BY HubAssumption DEF HubInit, EditorsOK, StreamOK
<1>6. faults \in 0..MaxFaults
  BY HubAssumption DEF HubInit
<1>7. QED
  BY <1>3, <1>4, <1>5, <1>6, TypesByKind

LEMMA TypesStep == HubTypeOK /\ [HubNext]_vars => HubTypeOK'
<1> SUFFICES ASSUME HubTypeOK, [HubNext]_vars PROVE HubTypeOK'
  OBVIOUS
<1>t. ReplicasOK /\ SocketsOK /\ EditorsOK /\ StreamOK /\ faults \in 0..MaxFaults
  BY TypesByKind
<1>f. ASSUME Fault PROVE faults' \in 0..MaxFaults
  BY <1>t, <1>f, FaultCounted
<1>u. UNCHANGED faults => faults' \in 0..MaxFaults
  BY <1>t
<1>r. UNCHANGED replicaVars => ReplicasOK'
  BY <1>t DEF replicaVars, ReplicasOK
<1>s. UNCHANGED socketVars => SocketsOK'
  BY <1>t DEF socketVars, SocketsOK
<1>e. UNCHANGED editorVars => EditorsOK'
  BY <1>t DEF editorVars, EditorsOK
<1>m. UNCHANGED streamVars => StreamOK'
  BY <1>t DEF streamVars, StreamOK
<1>q. ReplicasOK' /\ SocketsOK' /\ EditorsOK' /\ StreamOK' /\ faults' \in 0..MaxFaults
        => HubTypeOK'
  BY DEF HubTypeOK, ReplicasOK, SocketsOK, EditorsOK, StreamOK
<1>1. ASSUME NEW h \in Replica, Boot(h) PROVE HubTypeOK'
  <2>0. \A n \in 0..(Len(subjects) - 1) : {subjects[i] : i \in 1..n} \in SUBSET HubSubject
    BY DEF HubSubject, subjects
  <2>1. ReplicasOK'
    <3>1. subscribed' \in [Replica -> SUBSET HubSubject]
      BY <1>t, <1>1, <2>0 DEF Boot, ReplicasOK
    <3>2. QED
      BY <1>t, <1>1, <3>1 DEF Boot, ReplicasOK
  <2>2. QED
    BY <1>1, <1>f, <1>u, <1>s, <1>e, <1>m, <1>q, <2>1 DEF Boot
<1>2. ASSUME NEW e \in Editor, NEW s \in Socket, NEW h \in Replica,
             NEW state \in {"open", "refused"}, NewSocket(e, s, h, state)
      PROVE  SocketsOK' /\ EditorsOK' /\ StreamOK' /\ UNCHANGED <<up, js, subscribed>>
  <2>1. SocketsOK'
    BY <1>t, <1>2, SMTT(30) DEF NewSocket, SocketsOK, EditorsOK
  <2>2. EditorsOK'
    BY <1>t, <1>2 DEF NewSocket, EditorsOK
  <2>3. QED
    BY <1>2, <1>m, <2>1, <2>2 DEF NewSocket
<1>3. ASSUME NEW e \in Editor, NEW s \in Socket, NEW h \in Replica, Accept(e, s, h)
      PROVE  HubTypeOK'
  <2>1. SocketsOK' /\ EditorsOK' /\ StreamOK' /\ UNCHANGED <<up, js, subscribed>>
    BY <1>2, <1>3 DEF Accept
  <2>2. OrgOf[e] \in Org
    BY HubAssumption
  <2>3. ReplicasOK'
    BY <1>t, <1>3, <2>1, <2>2 DEF Accept, Add, ReplicasOK
  <2>4. QED
    BY <1>3, <1>q, <1>u, <2>1, <2>3 DEF Accept
<1>4. ASSUME NEW e \in Editor, NEW s \in Socket, NEW h \in Replica, Refuse(e, s, h)
      PROVE  HubTypeOK'
  <2>1. SocketsOK' /\ EditorsOK' /\ StreamOK' /\ UNCHANGED <<up, js, subscribed>>
    BY <1>2, <1>4 DEF Refuse
  <2>2. ReplicasOK'
    BY <1>t, <1>4, <2>1 DEF Refuse, ReplicasOK
  <2>3. QED
    BY <1>4, <1>q, <1>f, <2>1, <2>2 DEF Refuse
<1>5. ASSUME NEW s \in Socket, HubCloses(s) PROVE HubTypeOK'
  <2>1. at[s] \in Replica
    BY <1>t DEF SocketsOK
  <2>2. ReplicasOK'
    BY <1>t, <1>5, <2>1, RemoveTypes DEF HubCloses, ReplicasOK
  <2>3. SocketsOK'
    BY <1>t, <1>5 DEF HubCloses, SocketsOK
  <2>4. QED
    BY <1>5, <1>e, <1>m, <1>q, <1>u, <2>2, <2>3 DEF HubCloses
<1>6. ASSUME NEW s \in Socket, HubErrs(s) PROVE HubTypeOK'
  <2>1. at[s] \in Replica
    BY <1>t DEF SocketsOK
  <2>2. ReplicasOK'
    BY <1>t, <1>6, <2>1, RemoveTypes DEF HubErrs, ReplicasOK
  <2>3. QED
    BY <1>6, <1>s, <1>e, <1>m, <1>q, <1>u, <2>2 DEF HubErrs
<1>7. ASSUME NEW h \in Replica, Crash(h), Fault,
             requests' \in Seq(Request), received' \in [Editor -> SUBSET Event]
      PROVE  HubTypeOK'
  <2>1. ReplicasOK' /\ SocketsOK' /\ EditorsOK'
        /\ promised' \in SUBSET (Socket \X Event) /\ UNCHANGED eventState
    BY <1>7, CrashTypes
  <2>2. StreamOK'
    BY <1>t, <1>7, <2>1 DEF StreamOK
  <2>3. QED
    BY <1>7, <1>f, <1>q, <2>1, <2>2
<1>8. ASSUME NEW h \in Replica, Stop(h) PROVE HubTypeOK'
  BY <1>t, <1>7, <1>8 DEF Stop, StreamOK
<1>9. ASSUME NEW s \in Socket, HubReads(s) PROVE HubTypeOK'
  <2>1. inbox[s] \in Seq(Message) /\ user[s] \in Editor /\ WatchOf[user[s]] \in SUBSET Pattern
    BY <1>t, HubAssumption DEF SocketsOK
  <2>2. Tail(inbox[s]) \in Seq(Message)
    BY <1>9, <2>1, NewMessage DEF HubReads, HandleClientMessage
  <2>3. SocketsOK'
    BY <1>t, <1>9, <2>1, <2>2 DEF HubReads, HandleClientMessage, SocketsOK
  <2>4. requests' \in Seq(Request)
    BY <1>t, <1>9, ForwardedIsRequest DEF HubReads, HandleClientMessage, StreamOK
  <2>5. StreamOK'
    BY <1>t, <1>9, <2>4 DEF HubReads, HandleClientMessage, StreamOK
  <2>6. QED
    BY <1>9, <1>r, <1>e, <1>q, <1>u, <2>3, <2>5 DEF HubReads, HandleClientMessage
<1>10. ASSUME NEW s \in Socket, PublishRejected(s) PROVE HubTypeOK'
  <2>1. at[s] \in Replica
    BY <1>t DEF SocketsOK
  <2>2. requests' \in Seq(Request) /\ received' \in [Editor -> SUBSET Event]
    BY <1>t, <1>10, ForwardedIsRequest DEF PublishRejected, StreamOK
  <2>3. QED
    BY <1>7, <1>10, <2>1, <2>2 DEF PublishRejected
<1>11. ASSUME NEW h \in Replica, NEW v \in Event, Broadcast(h, v) PROVE HubTypeOK'
  <2>1. received' \in [Editor -> SUBSET Event]
    BY <1>11, SendTypes DEF Broadcast
  <2>2. StreamOK'
    BY <1>t, <1>11, <2>1 DEF Broadcast, StreamOK
  <2>3. QED
    BY <1>11, <1>r, <1>s, <1>e, <1>q, <1>u, <2>2 DEF Broadcast
<1>12. ASSUME NEW h \in Replica, NEW v \in Event, BroadcastCut(h, v) PROVE HubTypeOK'
  <2>1. received' \in [Editor -> SUBSET Event]
    BY <1>12, SendTypes DEF BroadcastCut
  <2>2. QED
    BY <1>t, <1>7, <1>12, <2>1 DEF BroadcastCut, StreamOK
<1>13. ASSUME NEW v \in Event, PublishEvent(v) PROVE HubTypeOK'
  <2>1. StreamOK'
    BY <1>t, <1>13 DEF PublishEvent, StreamOK
  <2>2. QED
    BY <1>13, <1>r, <1>s, <1>e, <1>q, <1>u, <2>1 DEF PublishEvent
<1>14. ASSUME NEW s \in Socket, Break(s) PROVE HubTypeOK'
  <2>1. PICK n \in 0..Len(inbox[s]) : inbox' = [inbox EXCEPT ![s] = SubSeq(@, 1, n)]
    BY <1>14 DEF Break
  <2>2. inbox[s] \in Seq(Message)
    BY <1>t DEF SocketsOK
  <2>3. SubSeq(inbox[s], 1, n) \in Seq(Message)
    BY <2>1, <2>2, NewMessage
  <2>4. SocketsOK'
    BY <1>t, <1>14, <2>1, <2>3 DEF Break, SocketsOK
  <2>5. StreamOK'
    BY <1>t, <1>14 DEF Break, Excuse, StreamOK
  <2>6. QED
    BY <1>14, <1>f, <1>r, <1>e, <1>q, <2>4, <2>5 DEF Break
<1>15. ASSUME NEW s \in Socket, Opened(s) PROVE HubTypeOK'
  <2>1. user[s] \in Editor /\ queue[user[s]] \in Seq(Operation)
    BY <1>t DEF SocketsOK, EditorsOK
  <2>2. <<Subscribe>> \o queue[user[s]] \in Seq(Message)
    BY <2>1, OpenedMessages
  <2>3. SocketsOK'
    BY <1>t, <1>15, <2>2 DEF Opened, SocketsOK
  <2>4. EditorsOK'
    BY <1>t, <1>15, <2>1 DEF Opened, EditorsOK
  <2>5. QED
    BY <1>15, <1>r, <1>m, <1>q, <1>u, <2>3, <2>4 DEF Opened
<1>16. ASSUME NEW s \in Socket, EditorCloses(s) PROVE HubTypeOK'
  <2>1. user[s] \in Editor
    BY <1>t DEF SocketsOK
  <2>2. SocketsOK'
    BY <1>t, <1>16 DEF EditorCloses, SocketsOK
  <2>3. EditorsOK'
    BY <1>t, <1>16, <2>1 DEF EditorCloses, EditorsOK
  <2>4. QED
    BY <1>16, <1>r, <1>m, <1>q, <1>u, <2>2, <2>3 DEF EditorCloses
<1>17. ASSUME NEW e \in Editor, Make(e) PROVE HubTypeOK'
  <2>1. made[e] \in Nat /\ link[e] \in Socket \cup {NoSocket}
        /\ queue[e] \in Seq(Operation)
    BY <1>t DEF EditorsOK
  <2>2. Append(queue[e], made[e] + 1) \in Seq(Operation)
    <3>1. made[e] + 1 \in Operation
      BY <2>1 DEF Operation
    <3>2. QED
      BY <2>1, <3>1
  <2>3. link[e] \in Socket => Append(inbox[link[e]], made[e] + 1) \in Seq(Message)
    BY <1>t, <2>1, NewMessage DEF SocketsOK
  <2>4. SocketsOK'
    <3>1. CASE UNCHANGED inbox
      BY <1>t, <1>17, <3>1 DEF Make, SocketsOK
    <3>2. CASE /\ link[e] \in Socket
               /\ inbox' = [inbox EXCEPT ![link[e]] = Append(@, made[e] + 1)]
      <4>1. inbox' \in [Socket -> Seq(Message)]
        BY <1>t, <2>3, <3>2 DEF SocketsOK
      <4>2. QED
        BY <1>t, <1>17, <4>1 DEF Make, SocketsOK
    <3>3. QED
      BY <1>17, <2>1, <3>1, <3>2 DEF Make
  <2>5. EditorsOK'
    <3>1. queue' = queue \/ queue' = [queue EXCEPT ![e] = Append(@, made[e] + 1)]
      BY <1>17 DEF Make
    <3>2. queue' \in [Editor -> Seq(Operation)]
      BY <1>t, <2>2, <3>1 DEF EditorsOK
    <3>3. made' = [made EXCEPT ![e] = made[e] + 1] /\ UNCHANGED <<link, refused, connects>>
      BY <1>17 DEF Make
    <3>4. made' \in [Editor -> Nat]
      BY <1>t, <2>1, <3>3 DEF EditorsOK
    <3>5. QED
      BY <1>t, <3>2, <3>3, <3>4 DEF EditorsOK
  <2>6. QED
    BY <1>17, <1>r, <1>m, <1>q, <1>u, <2>4, <2>5 DEF Make
<1>18. UNCHANGED vars => HubTypeOK'
  BY <1>r, <1>s, <1>e, <1>m, <1>q, <1>u DEF vars
<1>19. QED
  BY <1>1, <1>3, <1>4, <1>5, <1>6, <1>8, <1>9, <1>10, <1>11, <1>12, <1>13, <1>14,
     <1>15, <1>16, <1>17, <1>18
  DEF HubNext

(* Each variable of the hub, its editors and the stream keeps its type, for*)
(* any number of replicas, editors, sockets, events and faults.            *)
THEOREM HubTypes == HubSpec => []HubTypeOK
  BY TypesInit, TypesStep, PTL DEF HubSpec

-----------------------------------------------------------------------------
(* RegistryExact, socket by socket.                                        *)
Indexed == \A r \in Replica, o \in Org, t \in Socket :
              t \in orgIndex[r][o] <=> t \in sessions[r] /\ OrgOf[user[t]] = o
Live == \A r \in Replica, t \in Socket :
              t \in sessions[r] => at[t] = r /\ far[t] = "open"
Reachable == \A t \in Socket :
              far[t] = "open" /\ ~broken[t] => t \in sessions[at[t]]

LEMMA RegistryBySocket ==
    ASSUME HubTypeOK
    PROVE  RegistryExact <=> Indexed /\ Live /\ Reachable
<1>1. \A r \in Replica : sessions[r] \in SUBSET Socket
  BY DEF HubTypeOK
<1>2. \A r \in Replica, o \in Org : orgIndex[r][o] \in SUBSET Socket
  BY DEF HubTypeOK
<1>3. ASSUME Indexed, NEW r \in Replica, NEW o \in Org
      PROVE  orgIndex[r][o] = {s \in sessions[r] : OrgOf[user[s]] = o}
  BY <1>1, <1>2, <1>3 DEF Indexed
<1>4. RegistryExact => Indexed
  BY DEF RegistryExact, Indexed
<1>5. RegistryExact => Live /\ Reachable
  BY DEF RegistryExact, Live, Reachable
<1>6. Live => \A r \in Replica : \A s \in sessions[r] : at[s] = r /\ far[s] = "open"
  BY <1>1 DEF Live
<1>7. QED
  BY <1>3, <1>4, <1>5, <1>6 DEF RegistryExact, Reachable

(* What a crash and a removal leave of the registry.                       *)
LEMMA CrashKeepsRegistry ==
    ASSUME HubTypeOK, Indexed, Live, Reachable, NEW h \in Replica, Crash(h)
    PROVE  Indexed' /\ Live' /\ Reachable'
<1>1. user' = user /\ at' = at
  BY DEF Crash
<1>2. \A r \in Replica : sessions'[r] = IF r = h THEN {} ELSE sessions[r]
  BY DEF Crash, HubTypeOK
<1>3. \A r \in Replica, o \in Org :
        orgIndex'[r][o] = IF r = h THEN {} ELSE orgIndex[r][o]
  BY DEF Crash, HubTypeOK
<1>4. \A t \in Socket : at[t] # h => far'[t] = far[t] /\ (~broken'[t] => ~broken[t])
  BY DEF Crash
<1>5. \A t \in Socket : at[t] = h => far'[t] = "closed"
  BY DEF Crash, HubTypeOK
<1>6. Indexed'
  BY <1>1, <1>2, <1>3 DEF Indexed
<1>7. Live'
  BY <1>1, <1>2, <1>4 DEF Live
<1>8. Reachable'
  BY <1>1, <1>2, <1>4, <1>5 DEF Reachable, HubTypeOK
<1>9. QED
  BY <1>6, <1>7, <1>8

LEMMA RemoveKeepsIndex ==
    ASSUME HubTypeOK, Indexed, Live, NEW s \in Socket, Remove(at[s], s)
    PROVE  /\ \A r \in Replica, t \in Socket :
                 t \in sessions'[r] <=> t \in sessions[r] /\ t # s
           /\ \A r \in Replica, o \in Org, t \in Socket :
                 t \in orgIndex'[r][o] <=> t \in sessions'[r] /\ OrgOf[user[t]] = o
<1>1. at[s] \in Replica /\ OrgOf[user[s]] \in Org
  BY HubAssumption DEF HubTypeOK
<1>2. \A r \in Replica : s \in sessions[r] => r = at[s]
  BY DEF Live
<1>3. \A r \in Replica :
        sessions'[r] = IF r = at[s] THEN sessions[r] \ {s} ELSE sessions[r]
  BY <1>1 DEF Remove, HubTypeOK
<1>4. \A r \in Replica, t \in Socket : t \in sessions'[r] <=> t \in sessions[r] /\ t # s
  BY <1>2, <1>3
<1>5. CASE s \in sessions[at[s]]
  <2>1. \A r \in Replica, o \in Org :
          orgIndex'[r][o] = IF r = at[s] /\ o = OrgOf[user[s]]
                            THEN orgIndex[r][o] \ {s} ELSE orgIndex[r][o]
    BY <1>1, <1>5 DEF Remove, HubTypeOK
  <2>2. \A r \in Replica, o \in Org : s \notin orgIndex'[r][o]
    <3>1. \A r \in Replica, o \in Org :
            s \in orgIndex[r][o] => r = at[s] /\ o = OrgOf[user[s]]
      BY <1>2 DEF Indexed
    <3>2. QED
      BY <2>1, <3>1
  <2>3. \A r \in Replica, o \in Org, t \in Socket :
          t # s => (t \in orgIndex'[r][o] <=> t \in orgIndex[r][o])
    BY <2>1
  <2>4. QED
    BY <1>4, <2>2, <2>3 DEF Indexed
<1>6. CASE s \notin sessions[at[s]]
  <2>1. orgIndex' = orgIndex
    BY <1>6 DEF Remove
  <2>2. \A r \in Replica : s \notin sessions[r]
    BY <1>2, <1>6
  <2>3. QED
    BY <1>4, <2>1, <2>2 DEF Indexed
<1>7. QED
  BY <1>4, <1>5, <1>6

LEMMA RegistryStep == HubTypeOK /\ RegistryExact /\ [HubNext]_vars => RegistryExact'
<1> SUFFICES ASSUME HubTypeOK, RegistryExact, [HubNext]_vars PROVE RegistryExact'
  OBVIOUS
<1>r. Indexed /\ Live /\ Reachable
  BY RegistryBySocket
<1>t. HubTypeOK'
  BY TypesStep
<1>q. ASSUME Indexed', Live', Reachable' PROVE RegistryExact'
  <2>1. /\ \A r \in Replica : sessions'[r] \in SUBSET Socket
        /\ \A r \in Replica, o \in Org : orgIndex'[r][o] \in SUBSET Socket
    BY <1>t DEF HubTypeOK
  <2>2. ASSUME NEW r \in Replica, NEW o \in Org
        PROVE  orgIndex'[r][o] = {s \in sessions'[r] : OrgOf[user'[s]] = o}
    BY <1>q, <2>1 DEF Indexed
  <2>3. \A r \in Replica : \A s \in sessions'[r] : at'[s] = r /\ far'[s] = "open"
    BY <1>q, <2>1 DEF Live
  <2>4. \A s \in Socket : far'[s] = "open" /\ ~broken'[s] => s \in sessions'[at'[s]]
    BY <1>q DEF Reachable
  <2>5. QED
    BY <2>2, <2>3, <2>4 DEF RegistryExact
<1>1. CASE UNCHANGED <<sessions, orgIndex, user, at, far, broken>>
  BY <1>1 DEF RegistryExact
<1>2. ASSUME NEW e \in Editor, NEW s \in Socket, NEW h \in Replica,
             NEW state \in {"open", "refused"}, NewSocket(e, s, h, state)
      PROVE  /\ \A r \in Replica : s \notin sessions[r]
             /\ \A t \in Socket : t # s => /\ user'[t] = user[t] /\ at'[t] = at[t]
                                           /\ far'[t] = far[t]
                                           /\ broken'[t] = broken[t]
             /\ user'[s] = e /\ at'[s] = h /\ far'[s] = state
  <2>1. \A r \in Replica : s \notin sessions[r]
    BY <1>r, <1>2 DEF NewSocket, Free, Live
  <2>2. QED
    BY <1>2, <2>1 DEF NewSocket, HubTypeOK
<1>3. ASSUME NEW e \in Editor, NEW s \in Socket, NEW h \in Replica, Accept(e, s, h)
      PROVE  RegistryExact'
  <2>1. /\ \A r \in Replica : s \notin sessions[r]
        /\ \A t \in Socket : t # s => /\ user'[t] = user[t] /\ at'[t] = at[t]
                                      /\ far'[t] = far[t] /\ broken'[t] = broken[t]
        /\ user'[s] = e /\ at'[s] = h /\ far'[s] = "open"
    BY <1>2, <1>3 DEF Accept
  <2>2. OrgOf[e] \in Org
    BY HubAssumption
  <2>3. /\ sessions' = [sessions EXCEPT ![h] = @ \cup {s}]
        /\ orgIndex' = [orgIndex EXCEPT ![h][OrgOf[e]] = @ \cup {s}]
    BY <1>3 DEF Accept, Add
  <2>m. ASSUME NEW r \in Replica, NEW t \in Socket
        PROVE  t \in sessions'[r] <=> t \in sessions[r] \/ (t = s /\ r = h)
    <3>1. CASE r = h
      BY <2>3, <3>1 DEF HubTypeOK
    <3>2. CASE r # h
      BY <2>3, <3>2 DEF HubTypeOK
    <3>3. QED
      BY <3>1, <3>2
  <2>i. ASSUME NEW r \in Replica, NEW o \in Org, NEW t \in Socket
        PROVE  t \in orgIndex'[r][o]
                    <=> t \in orgIndex[r][o] \/ (t = s /\ r = h /\ o = OrgOf[e])
    <3>1. CASE r = h /\ o = OrgOf[e]
      BY <2>2, <2>3, <3>1 DEF HubTypeOK
    <3>2. CASE r = h /\ o # OrgOf[e]
      BY <2>2, <2>3, <3>2 DEF HubTypeOK
    <3>3. CASE r # h
      BY <2>3, <3>3 DEF HubTypeOK
    <3>4. QED
      BY <3>1, <3>2, <3>3
  <2>k. \A r \in Replica, o \in Org : s \notin orgIndex[r][o]
    BY <1>r, <2>1 DEF Indexed
  <2>n. /\ \A r \in Replica : s \in sessions'[r] <=> r = h
        /\ \A r \in Replica, o \in Org :
              s \in orgIndex'[r][o] <=> (r = h /\ o = OrgOf[e])
    BY <2>1, <2>m, <2>i, <2>k
  <2>o. ASSUME NEW t \in Socket, t # s
        PROVE  /\ \A r \in Replica : t \in sessions'[r] <=> t \in sessions[r]
               /\ \A r \in Replica, o \in Org :
                     t \in orgIndex'[r][o] <=> t \in orgIndex[r][o]
    BY <2>m, <2>i, <2>o
  <2>4. Indexed'
    <3> SUFFICES ASSUME NEW r \in Replica, NEW o \in Org, NEW t \in Socket
                 PROVE  t \in orgIndex'[r][o] <=> (t \in sessions'[r] /\ OrgOf[user'[t]] = o)
      BY DEF Indexed
    <3>1. CASE t = s
      BY <2>1, <2>n, <3>1
    <3>2. CASE t # s
      BY <1>r, <2>1, <2>o, <3>2 DEF Indexed
    <3>3. QED
      BY <3>1, <3>2
  <2>5. Live'
    <3> SUFFICES ASSUME NEW r \in Replica, NEW t \in Socket, t \in sessions'[r]
                 PROVE  at'[t] = r /\ far'[t] = "open"
      BY DEF Live
    <3>1. CASE t = s
      BY <2>1, <2>n, <3>1
    <3>2. CASE t # s
      BY <1>r, <2>1, <2>o, <3>2 DEF Live
    <3>3. QED
      BY <3>1, <3>2
  <2>6. Reachable'
    <3> SUFFICES ASSUME NEW t \in Socket, far'[t] = "open", ~broken'[t]
                 PROVE  t \in sessions'[at'[t]]
      BY DEF Reachable
    <3>1. CASE t = s
      BY <2>1, <2>n, <3>1
    <3>2. CASE t # s
      <4>1. at[t] \in Replica /\ t \in sessions[at[t]] /\ at'[t] = at[t]
        BY <1>r, <2>1, <3>2 DEF Reachable, HubTypeOK
      <4>2. QED
        BY <2>o, <3>2, <4>1
    <3>3. QED
      BY <3>1, <3>2
  <2>7. QED
    BY <1>q, <2>4, <2>5, <2>6
<1>4. ASSUME NEW e \in Editor, NEW s \in Socket, NEW h \in Replica, Refuse(e, s, h)
      PROVE  RegistryExact'
  <2>1. /\ \A r \in Replica : s \notin sessions[r]
        /\ \A t \in Socket : t # s => /\ user'[t] = user[t] /\ at'[t] = at[t]
                                      /\ far'[t] = far[t] /\ broken'[t] = broken[t]
        /\ far'[s] = "refused"
    BY <1>2, <1>4 DEF Refuse
  <2>2. UNCHANGED <<sessions, orgIndex>>
    BY <1>4 DEF Refuse
  <2>3. Indexed' /\ Live'
    BY <1>r, <2>1, <2>2 DEF Indexed, Live
  <2>4. Reachable'
    BY <1>r, <2>1, <2>2 DEF Reachable
  <2>5. QED
    BY <1>q, <2>3, <2>4
<1>5. ASSUME NEW s \in Socket, HubCloses(s) PROVE RegistryExact'
  <2>1. /\ user' = user /\ at' = at /\ broken' = broken
        /\ \A t \in Socket : far'[t] = IF t = s THEN "closed" ELSE far[t]
    BY <1>5 DEF HubCloses, HubTypeOK
  <2>2. CASE Remove(at[s], s)
    <3>1. /\ \A r \in Replica, t \in Socket :
                t \in sessions'[r] <=> t \in sessions[r] /\ t # s
          /\ \A r \in Replica, o \in Org, t \in Socket :
                t \in orgIndex'[r][o] <=> t \in sessions'[r] /\ OrgOf[user[t]] = o
      BY <1>r, <2>2, RemoveKeepsIndex
    <3>2. Indexed' /\ Live'
      BY <1>r, <2>1, <3>1 DEF Indexed, Live
    <3>3. Reachable'
      BY <1>r, <2>1, <3>1 DEF Reachable, HubTypeOK
    <3>4. QED
      BY <1>q, <3>2, <3>3
  <2>3. CASE far[s] = "refused" /\ UNCHANGED <<sessions, orgIndex>>
    <3>1. Indexed' /\ Live'
      BY <1>r, <2>1, <2>3 DEF Indexed, Live
    <3>2. Reachable'
      BY <1>r, <2>1, <2>3 DEF Reachable
    <3>3. QED
      BY <1>q, <3>1, <3>2
  <2>4. QED
    BY <1>5, <2>2, <2>3 DEF HubCloses
<1>6. ASSUME NEW s \in Socket, HubErrs(s) PROVE RegistryExact'
  <2>1. broken[s] /\ UNCHANGED <<user, at, far, broken>>
    BY <1>6 DEF HubErrs, socketVars
  <2>2. /\ \A r \in Replica, t \in Socket :
              t \in sessions'[r] <=> t \in sessions[r] /\ t # s
        /\ \A r \in Replica, o \in Org, t \in Socket :
              t \in orgIndex'[r][o] <=> t \in sessions'[r] /\ OrgOf[user[t]] = o
    BY <1>r, <1>6, RemoveKeepsIndex DEF HubErrs
  <2>3. Indexed' /\ Live'
    BY <1>r, <2>1, <2>2 DEF Indexed, Live
  <2>4. Reachable'
    BY <1>r, <2>1, <2>2 DEF Reachable, HubTypeOK
  <2>5. QED
    BY <1>q, <2>3, <2>4
<1>7. ASSUME NEW h \in Replica, Crash(h) PROVE RegistryExact'
  BY <1>r, <1>q, <1>7, CrashKeepsRegistry
<1>8. ASSUME NEW s \in Socket, PublishRejected(s) PROVE RegistryExact'
  <2>1. at[s] \in Replica
    BY DEF HubTypeOK
  <2>2. QED
    BY <1>7, <1>8, <2>1 DEF PublishRejected
<1>9. ASSUME NEW s \in Socket, Break(s) PROVE RegistryExact'
  <2>1. /\ UNCHANGED <<sessions, orgIndex, user, at, far>>
        /\ \A t \in Socket : broken[t] => broken'[t]
    BY <1>9 DEF Break, replicaVars, HubTypeOK
  <2>2. QED
    BY <2>1 DEF RegistryExact
<1>10. \A h \in Replica : Boot(h) => UNCHANGED <<sessions, orgIndex, user, at, far, broken>>
  BY DEF Boot, socketVars
<1>11. \A s \in Socket : HubReads(s) \/ Opened(s) \/ EditorCloses(s)
         => UNCHANGED <<sessions, orgIndex, user, at, far, broken>>
  BY DEF HubReads, HandleClientMessage, Opened, EditorCloses, replicaVars
<1>12. \A h \in Replica, v \in Event : Broadcast(h, v)
         => UNCHANGED <<sessions, orgIndex, user, at, far, broken>>
  BY DEF Broadcast, replicaVars, socketVars
<1>13. \A v \in Event : PublishEvent(v)
         => UNCHANGED <<sessions, orgIndex, user, at, far, broken>>
  BY DEF PublishEvent, replicaVars, socketVars
<1>14. \A e \in Editor : Make(e)
         => UNCHANGED <<sessions, orgIndex, user, at, far, broken>>
  BY DEF Make, replicaVars
<1>15. UNCHANGED vars => UNCHANGED <<sessions, orgIndex, user, at, far, broken>>
  BY DEF vars, replicaVars, socketVars
<1>16. QED
  BY <1>1, <1>3, <1>4, <1>5, <1>6, <1>7, <1>8, <1>9, <1>10, <1>11, <1>12, <1>13,
     <1>14, <1>15
  DEF HubNext, Stop, BroadcastCut

(* A replica's registry has the sessions it can reach, each in the index of*)
(* its organisation: closes, errors, crashes and reconnections leave none  *)
(* behind and drop none that lives.                                        *)
THEOREM RegistryKept == HubSpec => []RegistryExact
<1>1. HubInit => RegistryExact
  BY DEF HubInit, RegistryExact
<1>2. QED
  BY <1>1, RegistryStep, HubTypes, PTL DEF HubSpec

-----------------------------------------------------------------------------
(* What CreationsReachEditors rests on: a promised socket still carries to *)
(* an interested editor, its event is on the way, and no session has a     *)
(* filter of another editor's.                                             *)
Created(v) == SubjectOf[v] = "bug.created"

PromisesKept == \A s \in Socket, v \in Event :
    <<s, v>> \in promised =>
        /\ near[s] # "closed" /\ far[s] = "open" /\ ~broken[s]
        /\ Interested(user[s], v)
        /\ Created(v) => eventState[v] = "pending"

WatchKept == \A s \in Socket : watchedFiles[s] = {} \/ watchedFiles[s] = WatchOf[user[s]]

ReachInv == PromisesKept /\ WatchKept

(* A promised socket is in the audience of its event at its replica.       *)
LEMMA PromisedInAudience ==
    ASSUME HubTypeOK, RegistryExact, ReachInv, NEW s \in Socket, NEW v \in Event,
           <<s, v>> \in promised, Created(v)
    PROVE  s \in Audience(at[s], v)
<1>1. /\ far[s] = "open" /\ ~broken[s] /\ OrgOf[user[s]] = BugOrg[v]
      /\ \/ WatchOf[user[s]] = {} \/ BugFile[v] = NoFile
         \/ \E p \in WatchOf[user[s]] : BugFile[v] \in Covers[p]
  BY DEF ReachInv, PromisesKept, Interested
<1>2. EventOrg(v) = BugOrg[v] /\ EventFile(v) = BugFile[v]
  BY DEF EventOrg, EventFile, Created
<1>3. BugOrg[v] \in Org /\ at[s] \in Replica
  BY HubAssumption DEF HubTypeOK
<1>4. s \in sessions[at[s]]
  BY <1>1 DEF RegistryExact
<1>5. s \in orgIndex[at[s]][BugOrg[v]]
  BY <1>1, <1>3, <1>4 DEF RegistryExact
<1>6. Matches(watchedFiles[s], BugFile[v])
  BY <1>1 DEF ReachInv, WatchKept, Matches
<1>7. QED
  BY <1>1, <1>2, <1>3, <1>4, <1>5, <1>6 DEF Audience, ByOrg

LEMMA ReachStep ==
    HubTypeOK /\ RegistryExact /\ ReachInv /\ [HubNext]_vars => ReachInv'
<1> SUFFICES ASSUME HubTypeOK, RegistryExact, ReachInv, [HubNext]_vars PROVE ReachInv'
  OBVIOUS
<1>r. PromisesKept /\ WatchKept
  BY DEF ReachInv
<1>k. ASSUME \A s \in Socket, v \in Event : <<s, v>> \in promised' =>
                /\ <<s, v>> \in promised
                /\ near'[s] # "closed" /\ far'[s] = "open" /\ ~broken'[s]
                /\ user'[s] = user[s] /\ eventState'[v] = eventState[v]
      PROVE  PromisesKept'
  BY <1>r, <1>k DEF PromisesKept, Interested
<1>w. ASSUME \A s \in Socket : watchedFiles'[s] = {}
                \/ (watchedFiles'[s] = watchedFiles[s] /\ user'[s] = user[s])
      PROVE  WatchKept'
  BY <1>r, <1>w DEF WatchKept
<1>1. ASSUME UNCHANGED <<near, far, broken, user, promised, eventState, watchedFiles>>
      PROVE  ReachInv'
  <2>1. PromisesKept'
    BY <1>r, <1>1, <1>k DEF PromisesKept
  <2>2. WatchKept'
    BY <1>1, <1>w
  <2>3. QED
    BY <2>1, <2>2 DEF ReachInv
<1>2. ASSUME NEW e \in Editor, NEW s \in Socket, NEW h \in Replica,
             NEW state \in {"open", "refused"}, NewSocket(e, s, h, state)
      PROVE  ReachInv'
  <2>1. /\ promised' = promised /\ eventState' = eventState /\ near[s] = "closed"
        /\ watchedFiles'[s] = {}
        /\ \A t \in Socket : t # s =>
              /\ near'[t] = near[t] /\ far'[t] = far[t] /\ broken'[t] = broken[t]
              /\ user'[t] = user[t] /\ watchedFiles'[t] = watchedFiles[t]
    BY <1>2 DEF NewSocket, Free, streamVars, HubTypeOK
  <2>2. PromisesKept'
    BY <1>r, <1>k, <2>1 DEF PromisesKept
  <2>3. WatchKept'
    BY <1>w, <2>1
  <2>4. QED
    BY <2>2, <2>3 DEF ReachInv
<1>3. ASSUME NEW s \in Socket, HubCloses(s) PROVE ReachInv'
  <2>1. /\ UNCHANGED <<user, near, broken, promised, eventState>>
        /\ broken[s] \/ far[s] # "open"
        /\ watchedFiles'[s] = {}
        /\ \A t \in Socket : t # s =>
              far'[t] = far[t] /\ watchedFiles'[t] = watchedFiles[t]
    BY <1>3 DEF HubCloses, streamVars, HubTypeOK
  <2>2. PromisesKept'
    BY <1>r, <1>k, <2>1 DEF PromisesKept
  <2>3. WatchKept'
    BY <1>w, <2>1
  <2>4. QED
    BY <2>2, <2>3 DEF ReachInv
<1>4. ASSUME NEW h \in Replica, Crash(h) PROVE ReachInv'
  <2>1. /\ UNCHANGED <<user, at, near, eventState>>
        /\ \A t \in Socket : \/ at[t] # h /\ far'[t] = far[t] /\ broken'[t] = broken[t]
                             \/ at[t] = h
        /\ \A t \in Socket : watchedFiles'[t] = {} \/ watchedFiles'[t] = watchedFiles[t]
    BY <1>4 DEF Crash, HubTypeOK
  <2>2. \A s \in Socket, v \in Event : <<s, v>> \in promised' =>
            <<s, v>> \in promised /\ ~(at[s] = h /\ far[s] # "closed")
    BY <1>4 DEF Crash, Excuse
  <2>3. PromisesKept'
    BY <1>r, <1>k, <2>1, <2>2 DEF PromisesKept
  <2>4. WatchKept'
    BY <1>w, <2>1
  <2>5. QED
    BY <2>3, <2>4 DEF ReachInv
<1>5. ASSUME NEW s \in Socket, HubReads(s) PROVE ReachInv'
  <2>1. /\ UNCHANGED <<user, near, far, broken, promised, eventState>>
        /\ \A t \in Socket : \/ watchedFiles'[t] = watchedFiles[t]
                             \/ watchedFiles'[t] = WatchOf[user[t]]
    BY <1>5 DEF HubReads, HandleClientMessage, HubTypeOK
  <2>2. PromisesKept'
    BY <1>r, <1>k, <2>1 DEF PromisesKept
  <2>3. WatchKept'
    BY <1>r, <2>1 DEF WatchKept
  <2>4. QED
    BY <2>2, <2>3 DEF ReachInv
<1>6. ASSUME NEW h \in Replica, NEW v \in Event, Broadcast(h, v) PROVE ReachInv'
  <2>1. /\ UNCHANGED <<user, at, near, far, broken, watchedFiles>>
        /\ \A u \in Event : u # v => eventState'[u] = eventState[u]
        /\ promised' = {p \in promised :
              p[2] = v => at[p[1]] = h /\ v \notin received'[user[p[1]]]}
        /\ Send(v, Audience(h, v))
    BY <1>6 DEF Broadcast, socketVars, HubTypeOK
  <2>2. ASSUME NEW s \in Socket, <<s, v>> \in promised', Created(v) PROVE FALSE
    <3>1. <<s, v>> \in promised /\ at[s] = h /\ v \notin received'[user[s]]
      BY <2>1, <2>2
    <3>2. s \in Audience(h, v)
      BY <2>2, <3>1, PromisedInAudience
    <3>3. near[s] # "closed" /\ ~broken[s] /\ user[s] \in Editor
      BY <1>r, <3>1 DEF PromisesKept, HubTypeOK
    <3>4. v \in received'[user[s]]
      BY <2>1, <3>2, <3>3 DEF Send
    <3>5. QED
      BY <3>1, <3>4
  <2>3. \A s \in Socket, u \in Event : <<s, u>> \in promised' => <<s, u>> \in promised
    BY <2>1
  <2>4. PromisesKept'
    BY <1>r, <2>1, <2>2, <2>3 DEF PromisesKept, Interested
  <2>5. WatchKept'
    BY <1>w, <2>1
  <2>6. QED
    BY <2>4, <2>5 DEF ReachInv
<1>7. ASSUME NEW v \in Event, PublishEvent(v) PROVE ReachInv'
  <2>1. /\ UNCHANGED <<user, near, far, broken, watchedFiles>>
        /\ eventState'[v] = "pending"
        /\ \A u \in Event : u # v => eventState'[u] = eventState[u]
    BY <1>7 DEF PublishEvent, socketVars, HubTypeOK
  <2>2. \A s \in Socket, u \in Event : <<s, u>> \in promised' =>
            \/ <<s, u>> \in promised
            \/ u = v /\ Carries(s) /\ Interested(user[s], v)
    BY <1>7 DEF PublishEvent
  <2>3. PromisesKept'
    BY <1>r, <2>1, <2>2 DEF PromisesKept, Interested, Carries
  <2>4. WatchKept'
    BY <1>w, <2>1
  <2>5. QED
    BY <2>3, <2>4 DEF ReachInv
<1>8. ASSUME NEW s \in Socket, Break(s) PROVE ReachInv'
  <2>1. /\ UNCHANGED <<user, near, far, watchedFiles, eventState>>
        /\ \A t \in Socket : t # s => broken'[t] = broken[t]
        /\ \A t \in Socket, v \in Event :
              <<t, v>> \in promised' => <<t, v>> \in promised /\ t # s
    BY <1>8 DEF Break, Excuse, HubTypeOK
  <2>2. PromisesKept'
    BY <1>r, <1>k, <2>1 DEF PromisesKept
  <2>3. WatchKept'
    BY <1>w, <2>1
  <2>4. QED
    BY <2>2, <2>3 DEF ReachInv
<1>9. ASSUME NEW s \in Socket, Opened(s) \/ EditorCloses(s) PROVE ReachInv'
  <2>1. /\ UNCHANGED <<user, far, broken, watchedFiles, promised, eventState>>
        /\ near'[s] # "closed" \/ broken[s] \/ far[s] # "open"
        /\ \A t \in Socket : t # s => near'[t] = near[t]
    BY <1>9 DEF Opened, EditorCloses, streamVars, HubTypeOK
  <2>2. PromisesKept'
    BY <1>r, <1>k, <2>1 DEF PromisesKept
  <2>3. WatchKept'
    BY <1>w, <2>1
  <2>4. QED
    BY <2>2, <2>3 DEF ReachInv
<1>10. ASSUME NEW e \in Editor, NEW s \in Socket, NEW h \in Replica,
              Accept(e, s, h) \/ Refuse(e, s, h)
       PROVE  ReachInv'
  BY <1>2, <1>10 DEF Accept, Refuse
<1>11. ASSUME NEW s \in Socket, PublishRejected(s) PROVE ReachInv'
  <2>1. at[s] \in Replica
    BY DEF HubTypeOK
  <2>2. QED
    BY <1>4, <1>11, <2>1 DEF PublishRejected
<1>12. ASSUME NEW h \in Replica, Boot(h) PROVE ReachInv'
  BY <1>1, <1>12 DEF Boot, socketVars, streamVars
<1>13. ASSUME NEW s \in Socket, HubErrs(s) PROVE ReachInv'
  BY <1>1, <1>13 DEF HubErrs, socketVars, streamVars
<1>14. ASSUME NEW e \in Editor, Make(e) PROVE ReachInv'
  BY <1>1, <1>14 DEF Make, streamVars
<1>15. ASSUME UNCHANGED vars PROVE ReachInv'
  BY <1>1, <1>15 DEF vars, socketVars, streamVars
<1>16. QED
  BY <1>3, <1>4, <1>5, <1>6, <1>7, <1>8, <1>9, <1>10, <1>11, <1>12, <1>13, <1>14, <1>15
  DEF HubNext, Stop, BroadcastCut

(* With any number of replicas, editors and faults, the creation of a bug  *)
(* is sent to every editor that may see it over a connection that lasts to *)
(* the ack of its own replica.                                             *)
THEOREM CreationsReach == HubSpec => []CreationsReachEditors
<1>1. HubInit => ReachInv
  BY DEF HubInit, ReachInv, PromisesKept, WatchKept
<1>2. HubTypeOK /\ ReachInv => CreationsReachEditors
  <2> SUFFICES ASSUME HubTypeOK, ReachInv, NEW p \in promised,
                      SubjectOf[p[2]] = "bug.created"
               PROVE  eventState[p[2]] # "acked"
    BY DEF CreationsReachEditors
  <2>1. p[1] \in Socket /\ p[2] \in Event /\ p = <<p[1], p[2]>>
    BY DEF HubTypeOK
  <2>2. QED
    BY <2>1 DEF ReachInv, PromisesKept, Created
<1>3. QED
  BY <1>1, <1>2, ReachStep, RegistryKept, HubTypes, PTL DEF HubSpec

-----------------------------------------------------------------------------
(* What UnwatchedOnlyAtFirst rests on: an end of a socket that is not      *)
(* closed is its editor's link; a replica with an open end listens, and    *)
(* without a stream it consumes nothing; and a session has its editor's    *)
(* files, or its subscribe message is still to be read, or was dropped by  *)
(* a replica without a stream.                                             *)
Linked ==
    /\ \A s \in Socket : near[s] # "closed" => link[user[s]] = s
    /\ \A e \in Editor : link[e] # NoSocket =>
            user[link[e]] = e /\ near[link[e]] # "closed"

Listening ==
    /\ \A s \in Socket : far[s] = "open" => up[at[s]]
    /\ \A h \in Replica : /\ ~up[h] => ~js[h]
                          /\ ~js[h] => subscribed[h] = {}

SubscribeWaits(s) == \E i \in 1..Len(inbox[s]) : inbox[s][i] = Subscribe

Watching ==
    \A s \in Socket : near[s] = "open" /\ far[s] = "open" /\ ~broken[s] =>
        \/ watchedFiles[s] = WatchOf[user[s]]
        \/ SubscribeWaits(s)
        \/ ~js[at[s]]

WatchInv == Linked /\ Listening /\ Watching

-----------------------------------------------------------------------------
(* What ForwardedInOrder rests on.  The operations in a sequence of        *)
(* messages, and those forwarded for an editor, in all and over its k-th   *)
(* connection.                                                             *)
OpsIn(q) == {q[i] : i \in 1..Len(q)} \ {Subscribe}

Ascending(q) ==
    \A i, j \in 1..Len(q) :
        i < j /\ q[i] # Subscribe /\ q[j] # Subscribe => q[i] < q[j]

Sent(q, e) == {q[i].op : i \in {j \in 1..Len(q) : q[j].editor = e}}

SentOver(q, e, k) ==
    {q[i].op : i \in {j \in 1..Len(q) : q[j].editor = e /\ q[j].over = k}}

(* Operations are numbered as they are made.                               *)
Counted ==
    /\ \A e \in Editor : OpsIn(queue[e]) \cup Sent(requests, e) \subseteq 1..made[e]
    /\ \A s \in Socket : OpsIn(inbox[s]) \subseteq 1..made[user[s]]

(* An operation is in one place: the queue, a socket, or the stream.       *)
Apart ==
    /\ \A e \in Editor : \A n \in OpsIn(queue[e]) : n \notin Sent(requests, e)
    /\ \A s \in Socket : \A n \in OpsIn(inbox[s]) :
            n \notin OpsIn(queue[user[s]]) /\ n \notin Sent(requests, user[s])
    /\ \A s, t \in Socket : s # t /\ user[s] = user[t] =>
            \A n \in OpsIn(inbox[s]) : n \notin OpsIn(inbox[t])

(* Each place is in order, and what a socket carries comes after what was  *)
(* forwarded over it.                                                      *)
Orderly ==
    /\ \A e \in Editor : Ascending(queue[e])
    /\ \A s \in Socket : /\ Ascending(inbox[s])
                         /\ \A m \in SentOver(requests, user[s], nth[s]) :
                                \A n \in OpsIn(inbox[s]) : m < n

(* Connections are numbered as they are made; one that opens has carried   *)
(* nothing.                                                                *)
Numbered ==
    /\ \A s \in Socket : /\ nth[s] <= connects[user[s]]
                         /\ nth[s] = 0 => near[s] = "closed" /\ inbox[s] = <<>>
                         /\ near[s] = "opening" =>
                                inbox[s] = <<>> /\ SentOver(requests, user[s], nth[s]) = {}
    /\ \A s, t \in Socket : s # t /\ user[s] = user[t] /\ nth[s] = nth[t] => nth[s] = 0
    /\ \A e \in Editor : \A k \in Nat : k > connects[e] => SentOver(requests, e, k) = {}

OrderInv == Linked /\ Counted /\ Apart /\ Orderly /\ Numbered /\ ForwardedInOrder

-----------------------------------------------------------------------------
(* What the larger actions do to the sockets.                              *)
LEMMA NewSocketFacts ==
    ASSUME HubTypeOK, NEW e \in Editor, NEW s \in Socket, NEW h \in Replica,
           NEW state \in {"open", "refused"}, NewSocket(e, s, h, state)
    PROVE  /\ link[e] = NoSocket /\ near[s] = "closed" /\ far[s] = "closed" /\ up[h]
           /\ user'[s] = e /\ at'[s] = h /\ nth'[s] = connects[e] + 1
           /\ near'[s] = "opening" /\ far'[s] = state /\ inbox'[s] = <<>>
           /\ link'[e] = s /\ connects'[e] = connects[e] + 1
           /\ \A t \in Socket : t # s =>
                /\ user'[t] = user[t] /\ at'[t] = at[t] /\ nth'[t] = nth[t]
                /\ near'[t] = near[t] /\ far'[t] = far[t] /\ broken'[t] = broken[t]
                /\ inbox'[t] = inbox[t] /\ watchedFiles'[t] = watchedFiles[t]
           /\ \A d \in Editor : d # e => link'[d] = link[d] /\ connects'[d] = connects[d]
           /\ UNCHANGED <<up, js, subscribed, queue, made, requests, received>>
<1>1. /\ link' = [link EXCEPT ![e] = s] /\ connects' = [connects EXCEPT ![e] = @ + 1]
      /\ link \in [Editor -> Socket \cup {NoSocket}] /\ connects \in [Editor -> Nat]
      /\ link[e] = NoSocket /\ near[s] = "closed" /\ far[s] = "closed" /\ up[h]
      /\ UNCHANGED <<up, js, subscribed, queue, made, requests, received>>
  BY DEF NewSocket, HubTypeOK, Free, streamVars
<1>2. /\ user' = [user EXCEPT ![s] = e] /\ at' = [at EXCEPT ![s] = h]
      /\ nth' = [nth EXCEPT ![s] = connects[e] + 1]
      /\ near' = [near EXCEPT ![s] = "opening"] /\ far' = [far EXCEPT ![s] = state]
      /\ broken' = [broken EXCEPT ![s] = FALSE] /\ inbox' = [inbox EXCEPT ![s] = <<>>]
      /\ watchedFiles' = [watchedFiles EXCEPT ![s] = {}]
  BY DEF NewSocket
<1>3. SocketsOK
  BY TypesByKind
<1> QED
  BY <1>1, <1>2, <1>3 DEF SocketsOK

LEMMA CrashFacts ==
    ASSUME HubTypeOK, NEW h \in Replica, Crash(h)
    PROVE  /\ UNCHANGED <<user, at, nth, near, link, queue, made, connects>>
           /\ ~up'[h] /\ ~js'[h] /\ subscribed'[h] = {}
           /\ \A g \in Replica : g # h =>
                up'[g] = up[g] /\ js'[g] = js[g] /\ subscribed'[g] = subscribed[g]
           /\ \A t \in Socket :
                \/ far'[t] = "closed" /\ broken'[t] /\ inbox'[t] = <<>>
                \/ /\ at[t] = h => far[t] = "closed"
                   /\ far'[t] = far[t] /\ broken'[t] = broken[t]
                   /\ inbox'[t] = inbox[t] /\ watchedFiles'[t] = watchedFiles[t]
<1>1. UNCHANGED <<user, at, nth, near, link, queue, made, connects>>
  BY DEF Crash, editorVars
<1>2. /\ up' = [up EXCEPT ![h] = FALSE] /\ js' = [js EXCEPT ![h] = FALSE]
      /\ subscribed' = [subscribed EXCEPT ![h] = {}]
  BY DEF Crash
<1> DEFINE S == {s \in Socket : at[s] = h /\ far[s] # "closed"}
<1>3. /\ far' = [s \in Socket |-> IF s \in S THEN "closed" ELSE far[s]]
      /\ broken' = [s \in Socket |-> broken[s] \/ s \in S]
      /\ inbox' = [s \in Socket |-> IF s \in S THEN <<>> ELSE inbox[s]]
      /\ watchedFiles' = [s \in Socket |-> IF s \in S THEN {} ELSE watchedFiles[s]]
  BY DEF Crash
<1>4. ASSUME NEW t \in Socket, t \in S
      PROVE  far'[t] = "closed" /\ broken'[t] /\ inbox'[t] = <<>>
  BY <1>3, <1>4
<1>5. ASSUME NEW t \in Socket, t \notin S
      PROVE  /\ at[t] = h => far[t] = "closed"
             /\ far'[t] = far[t] /\ inbox'[t] = inbox[t]
             /\ watchedFiles'[t] = watchedFiles[t]
             /\ broken'[t] = (broken[t] \/ FALSE)
  BY <1>3, <1>5, Zenon
<1>6. \A t \in Socket : broken[t] \in BOOLEAN
  BY DEF HubTypeOK
<1> QED
  BY <1>1, <1>2, <1>4, <1>5, <1>6 DEF HubTypeOK

LEMMA LinkedStep == HubTypeOK /\ Linked /\ [HubNext]_vars => Linked'
<1> SUFFICES ASSUME HubTypeOK, Linked, [HubNext]_vars PROVE Linked'
  OBVIOUS
<1>k. UNCHANGED <<near, user, link>> => Linked'
  BY DEF Linked
<1>t. /\ user \in [Socket -> Editor] /\ link \in [Editor -> Socket \cup {NoSocket}]
      /\ near \in [Socket -> {"closed", "opening", "open"}] /\ NoSocket \notin Socket
  BY HubAssumption DEF HubTypeOK
<1>1. ASSUME NEW e \in Editor, NEW s \in Socket, NEW h \in Replica,
             NEW state \in {"open", "refused"}, NewSocket(e, s, h, state)
      PROVE  Linked'
  <2>1. /\ link[e] = NoSocket /\ near[s] = "closed"
        /\ user'[s] = e /\ near'[s] = "opening" /\ link'[e] = s
        /\ \A t \in Socket : t # s => user'[t] = user[t] /\ near'[t] = near[t]
        /\ \A d \in Editor : d # e => link'[d] = link[d]
    BY <1>1, NewSocketFacts
  <2>2. ASSUME NEW t \in Socket, near'[t] # "closed"
        PROVE  link'[user'[t]] = t
    BY <1>t, <2>1, <2>2 DEF Linked
  <2>3. ASSUME NEW d \in Editor, link'[d] # NoSocket
        PROVE  user'[link'[d]] = d /\ near'[link'[d]] # "closed"
    BY <1>t, <2>1, <2>3 DEF Linked
  <2> QED
    BY <2>2, <2>3 DEF Linked
<1>2. ASSUME NEW s \in Socket, Opened(s) PROVE Linked'
  <2>1. /\ UNCHANGED <<user, link>> /\ near[s] = "opening"
        /\ near' = [near EXCEPT ![s] = "open"]
    BY <1>2 DEF Opened
  <2> QED
    BY <1>t, <2>1 DEF Linked
<1>3. ASSUME NEW s \in Socket, EditorCloses(s) PROVE Linked'
  <2>1. /\ UNCHANGED user /\ near[s] # "closed"
        /\ near' = [near EXCEPT ![s] = "closed"]
        /\ link' = [link EXCEPT ![user[s]] = NoSocket]
    BY <1>3 DEF EditorCloses
  <2>2. ASSUME NEW t \in Socket, near'[t] # "closed"
        PROVE  link'[user'[t]] = t
    BY <1>t, <2>1, <2>2 DEF Linked
  <2>3. ASSUME NEW d \in Editor, link'[d] # NoSocket
        PROVE  user'[link'[d]] = d /\ near'[link'[d]] # "closed"
    BY <1>t, <2>1, <2>3 DEF Linked
  <2> QED
    BY <2>2, <2>3 DEF Linked
<1>4. \A h \in Replica : Crash(h) => Linked'
  BY <1>k, CrashFacts
<1>5. \A s \in Socket : at[s] \in Replica
  BY DEF HubTypeOK
<1>6. \A h \in Replica : Boot(h) => Linked'
  BY <1>k DEF Boot, socketVars, editorVars
<1>7. \A s \in Socket : HubReads(s) \/ HubErrs(s) \/ HubCloses(s) \/ Break(s) => Linked'
  BY <1>k DEF HubReads, HandleClientMessage, HubErrs, HubCloses, Break, socketVars, editorVars
<1>8. \A v \in Event : PublishEvent(v) \/ (\E h \in Replica : Broadcast(h, v)) => Linked'
  BY <1>k DEF PublishEvent, Broadcast, socketVars, editorVars
<1>9. \A e \in Editor : Make(e) => Linked'
  BY <1>k DEF Make
<1>10. UNCHANGED vars => Linked'
  BY <1>k DEF vars, socketVars, editorVars
<1> QED
  BY <1>1, <1>2, <1>3, <1>4, <1>5, <1>6, <1>7, <1>8, <1>9, <1>10
  DEF HubNext, Accept, Refuse, Stop, PublishRejected, BroadcastCut

LEMMA ListeningStep == HubTypeOK /\ Listening /\ [HubNext]_vars => Listening'
<1> SUFFICES ASSUME HubTypeOK, Listening, [HubNext]_vars PROVE Listening'
  OBVIOUS
<1>t. ReplicasOK /\ SocketsOK
  BY TypesByKind
<1>k. ASSUME UNCHANGED <<up, js, subscribed, at>>,
             \A s \in Socket : far'[s] = "open" => far[s] = "open"
      PROVE  Listening'
  BY <1>k DEF Listening
<1>1. ASSUME NEW e \in Editor, NEW s \in Socket, NEW h \in Replica,
             NEW state \in {"open", "refused"}, NewSocket(e, s, h, state)
      PROVE  Listening'
  <2>1. /\ up[h] /\ at'[s] = h /\ UNCHANGED <<up, js, subscribed>>
        /\ \A t \in Socket : t # s => at'[t] = at[t] /\ far'[t] = far[t]
    BY <1>1, NewSocketFacts
  <2> QED
    BY <2>1 DEF Listening
<1>2. ASSUME NEW h \in Replica, Boot(h) PROVE Listening'
  <2>1. /\ UNCHANGED <<at, far>> /\ ~up[h] /\ up' = [up EXCEPT ![h] = TRUE]
        /\ \/ js' = [js EXCEPT ![h] = TRUE]
              /\ \E S : subscribed' = [subscribed EXCEPT ![h] = S]
           \/ UNCHANGED <<js, subscribed>>
    BY <1>2 DEF Boot, socketVars
  <2>2. \A s \in Socket : far[s] = "open" => up[at[s]] /\ at[s] \in Replica /\ at[s] # h
    BY <1>t, <2>1 DEF Listening, SocketsOK
  <2>3. up'[h] /\ \A g \in Replica : g # h =>
            up'[g] = up[g] /\ js'[g] = js[g] /\ subscribed'[g] = subscribed[g]
    BY <1>t, <2>1 DEF ReplicasOK
  <2>4. ~js'[h] => subscribed'[h] = {}
    BY <1>t, <2>1 DEF ReplicasOK, Listening
  <2> QED
    BY <2>1, <2>2, <2>3, <2>4 DEF Listening
<1>3. ASSUME NEW h \in Replica, Crash(h) PROVE Listening'
  <2>1. /\ UNCHANGED at /\ ~up'[h] /\ ~js'[h] /\ subscribed'[h] = {}
        /\ \A g \in Replica : g # h =>
                up'[g] = up[g] /\ js'[g] = js[g] /\ subscribed'[g] = subscribed[g]
        /\ \A t \in Socket : far'[t] = "open" => far[t] = "open" /\ at[t] # h
    BY <1>3, CrashFacts
  <2> QED
    BY <1>t, <2>1 DEF Listening, SocketsOK
<1>4. \A s \in Socket : at[s] \in Replica
  BY <1>t DEF SocketsOK
<1>5. ASSUME NEW s \in Socket, HubCloses(s) PROVE Listening'
  <2>1. UNCHANGED <<up, js, subscribed, at>> /\ far' = [far EXCEPT ![s] = "closed"]
    BY <1>5 DEF HubCloses
  <2> QED
    BY <1>k, <1>t, <2>1 DEF SocketsOK
<1>6. \A s \in Socket : HubReads(s) \/ HubErrs(s) \/ Break(s) \/ Opened(s) \/ EditorCloses(s)
        => Listening'
  BY <1>k DEF HubReads, HandleClientMessage, HubErrs, Break, Opened, EditorCloses,
     replicaVars, socketVars
<1>7. \A v \in Event : PublishEvent(v) \/ (\E h \in Replica : Broadcast(h, v)) => Listening'
  BY <1>k DEF PublishEvent, Broadcast, replicaVars, socketVars
<1>8. \A e \in Editor : Make(e) => Listening'
  BY <1>k DEF Make, replicaVars
<1>9. UNCHANGED vars => Listening'
  BY <1>k DEF vars, replicaVars, socketVars
<1> QED
  BY <1>1, <1>2, <1>3, <1>4, <1>5, <1>6, <1>7, <1>8, <1>9
  DEF HubNext, Accept, Refuse, Stop, PublishRejected, BroadcastCut

(* Messages that wait go on waiting when others come after them.           *)
LEMMA OpenedWaits ==
    ASSUME NEW q \in Seq(Operation)
    PROVE  \E i \in 1..Len(<<Subscribe>> \o q) : (<<Subscribe>> \o q)[i] = Subscribe
<1>1. <<Subscribe>> \in Seq({Subscribe}) /\ Len(<<Subscribe>>) = 1
  OBVIOUS
<1>2. Len(<<Subscribe>> \o q) = 1 + Len(q) /\ (<<Subscribe>> \o q)[1] = Subscribe
  BY <1>1
<1>3. 1 \in 1..Len(<<Subscribe>> \o q)
  BY <1>2
<1> QED
  BY <1>2, <1>3

LEMMA AppendWaits ==
    ASSUME NEW q \in Seq(Message), NEW n,
           \E i \in 1..Len(q) : q[i] = Subscribe
    PROVE  \E i \in 1..Len(Append(q, n)) : Append(q, n)[i] = Subscribe
  OBVIOUS

LEMMA TailWaits ==
    ASSUME NEW q \in Seq(Message), q # <<>>, Head(q) # Subscribe,
           \E i \in 1..Len(q) : q[i] = Subscribe
    PROVE  \E i \in 1..Len(Tail(q)) : Tail(q)[i] = Subscribe
<1>1. PICK i \in 1..Len(q) : q[i] = Subscribe
  OBVIOUS
<1>2. i # 1 /\ Len(Tail(q)) = Len(q) - 1
  BY <1>1
<1>3. i - 1 \in 1..Len(Tail(q)) /\ Tail(q)[i - 1] = q[i]
  BY <1>2
<1> QED
  BY <1>1, <1>3

LEMMA WatchingStep ==
    HubTypeOK /\ Linked /\ Listening /\ Watching /\ [HubNext]_vars => Watching'
<1> SUFFICES ASSUME HubTypeOK, Linked, Listening, Watching, [HubNext]_vars
             PROVE  Watching'
  OBVIOUS
<1>t. ReplicasOK /\ SocketsOK /\ EditorsOK
  BY TypesByKind
(* A socket stays as it is, or is closed or broken at either end.          *)
<1> DEFINE Same(t) == /\ near'[t] = "open" /\ far'[t] = "open" /\ ~broken'[t] =>
                            near[t] = "open" /\ far[t] = "open" /\ ~broken[t]
                      /\ watchedFiles'[t] = watchedFiles[t] /\ user'[t] = user[t]
                      /\ inbox'[t] = inbox[t] /\ at'[t] = at[t]
                      /\ far'[t] = "open" => js'[at[t]] = js[at[t]]
           Shut(t) == near'[t] # "open" \/ far'[t] # "open" \/ broken'[t]
<1>k. ASSUME \A t \in Socket : Same(t) \/ Shut(t)
      PROVE  Watching'
  BY <1>k DEF Watching, SubscribeWaits
<1>1. ASSUME NEW e \in Editor, NEW s \in Socket, NEW h \in Replica,
             NEW state \in {"open", "refused"}, NewSocket(e, s, h, state)
      PROVE  Watching'
  BY <1>1, <1>k, NewSocketFacts
<1>2. ASSUME NEW h \in Replica, Boot(h) PROVE Watching'
  <2>1. /\ UNCHANGED socketVars /\ ~up[h]
        /\ \A g \in Replica : g # h => js'[g] = js[g]
    BY <1>2 DEF Boot, HubTypeOK
  <2>2. \A t \in Socket : far[t] = "open" => js'[at[t]] = js[at[t]]
    BY <1>t, <2>1 DEF Listening, SocketsOK
  <2> QED
    BY <1>k, <2>1, <2>2 DEF socketVars
<1>3. ASSUME NEW h \in Replica, Crash(h) PROVE Watching'
  <2>1. ASSUME NEW t \in Socket
        PROVE  Same(t) \/ Shut(t)
    <3>1. at[t] \in Replica /\ at[t] # h => js'[at[t]] = js[at[t]]
      BY <1>3, <1>t, CrashFacts DEF SocketsOK
    <3>2. \/ far'[t] = "closed"
          \/ /\ at[t] = h => far[t] = "closed"
             /\ far'[t] = far[t] /\ broken'[t] = broken[t]
             /\ inbox'[t] = inbox[t] /\ watchedFiles'[t] = watchedFiles[t]
      BY <1>3, CrashFacts
    <3>3. UNCHANGED <<user, at, near>> /\ at[t] \in Replica
      BY <1>3, <1>t, CrashFacts DEF SocketsOK
    <3> QED
      BY <3>1, <3>2, <3>3
  <2> QED
    BY <1>k, <2>1
<1>4. ASSUME NEW s \in Socket, HubReads(s) PROVE Watching'
  <2>1. /\ UNCHANGED <<near, far, broken, user, at, js>>
        /\ inbox[s] # <<>> /\ inbox' = [inbox EXCEPT ![s] = Tail(@)]
        /\ js[at[s]] => watchedFiles' = IF Head(inbox[s]) = Subscribe
                            THEN [watchedFiles EXCEPT ![s] = WatchOf[user[s]]]
                            ELSE watchedFiles
        /\ ~js[at[s]] => watchedFiles' = watchedFiles
    BY <1>4 DEF HubReads, HandleClientMessage, replicaVars
  <2>2. inbox[s] \in Seq(Message) /\ inbox'[s] = Tail(inbox[s])
    BY <1>t, <2>1 DEF SocketsOK
  <2>3. SubscribeWaits(s) /\ Head(inbox[s]) # Subscribe => SubscribeWaits(s)'
    BY <2>1, <2>2, TailWaits DEF SubscribeWaits
  <2>4. \A t \in Socket : t # s => watchedFiles'[t] = watchedFiles[t] /\ inbox'[t] = inbox[t]
    BY <1>t, <2>1 DEF SocketsOK
  <2>5. js[at[s]] => watchedFiles'[s] = IF Head(inbox[s]) = Subscribe
                                        THEN WatchOf[user[s]] ELSE watchedFiles[s]
    BY <1>t, <2>1 DEF SocketsOK
  <2>6. ASSUME NEW t \in Socket, near'[t] = "open", far'[t] = "open", ~broken'[t]
        PROVE  \/ watchedFiles'[t] = WatchOf[user'[t]] \/ SubscribeWaits(t)'
               \/ ~js'[at'[t]]
    <3>1. CASE t # s
      BY <2>1, <2>4, <2>6, <3>1 DEF Watching, SubscribeWaits
    <3>2. CASE t = s
      BY <2>1, <2>3, <2>5, <2>6, <3>2 DEF Watching
    <3> QED
      BY <3>1, <3>2
  <2> QED
    BY <2>6 DEF Watching
<1>5. ASSUME NEW s \in Socket, Opened(s) PROVE Watching'
  <2>1. /\ UNCHANGED <<far, broken, user, at, js, watchedFiles>>
        /\ near' = [near EXCEPT ![s] = "open"]
        /\ inbox' = [inbox EXCEPT ![s] = <<Subscribe>> \o queue[user[s]]]
    BY <1>5 DEF Opened, replicaVars
  <2>2. queue[user[s]] \in Seq(Operation)
    BY <1>t DEF SocketsOK, EditorsOK
  <2>3. SubscribeWaits(s)'
    BY <1>t, <2>1, <2>2, OpenedWaits DEF SubscribeWaits, SocketsOK
  <2>4. \A t \in Socket : t # s => near'[t] = near[t] /\ inbox'[t] = inbox[t]
    BY <1>t, <2>1 DEF SocketsOK
  <2> QED
    BY <2>1, <2>3, <2>4 DEF Watching, SubscribeWaits
<1>6. ASSUME NEW e \in Editor, Make(e) PROVE Watching'
  <2>1. /\ UNCHANGED <<near, far, broken, user, at, js, watchedFiles>>
        /\ \/ UNCHANGED inbox
           \/ \E s \in Socket : inbox' = [inbox EXCEPT ![s] = Append(@, made[e] + 1)]
    BY <1>6, <1>t DEF Make, replicaVars, EditorsOK
  <2>2. ASSUME NEW t \in Socket, SubscribeWaits(t)
        PROVE  SubscribeWaits(t)'
    <3>1. CASE UNCHANGED inbox
      BY <2>2, <3>1 DEF SubscribeWaits
    <3>2. CASE \E s \in Socket : inbox' = [inbox EXCEPT ![s] = Append(@, made[e] + 1)]
      <4>1. inbox[t] \in Seq(Message)
        BY <1>t DEF SocketsOK
      <4>2. inbox'[t] = inbox[t] \/ inbox'[t] = Append(inbox[t], made[e] + 1)
        BY <1>t, <3>2 DEF SocketsOK
      <4> QED
        BY <2>2, <4>1, <4>2, AppendWaits DEF SubscribeWaits
    <3> QED
      BY <2>1, <3>1, <3>2
  <2> QED
    BY <2>1, <2>2 DEF Watching
<1>7. ASSUME NEW s \in Socket, HubCloses(s) PROVE Watching'
  <2>1. /\ UNCHANGED <<near, broken, user, at, js>>
        /\ far' = [far EXCEPT ![s] = "closed"]
        /\ inbox' = [inbox EXCEPT ![s] = <<>>]
        /\ watchedFiles' = [watchedFiles EXCEPT ![s] = {}]
    BY <1>7 DEF HubCloses
  <2> QED
    BY <1>k, <1>t, <2>1 DEF SocketsOK
<1>8. ASSUME NEW s \in Socket, Break(s) PROVE Watching'
  <2>1. /\ UNCHANGED <<near, far, user, at, js, watchedFiles>>
        /\ broken' = [broken EXCEPT ![s] = TRUE]
        /\ \E q : inbox' = [inbox EXCEPT ![s] = q]
    BY <1>8 DEF Break, replicaVars
  <2> QED
    BY <1>k, <1>t, <2>1 DEF SocketsOK
<1>9. ASSUME NEW s \in Socket, EditorCloses(s) PROVE Watching'
  <2>1. /\ UNCHANGED <<far, broken, user, at, js, watchedFiles, inbox>>
        /\ near' = [near EXCEPT ![s] = "closed"]
    BY <1>9 DEF EditorCloses, replicaVars
  <2> QED
    BY <1>k, <1>t, <2>1 DEF SocketsOK
<1>10. \A s \in Socket : at[s] \in Replica
  BY <1>t DEF SocketsOK
<1>11. \A s \in Socket : HubErrs(s) => Watching'
  BY <1>k DEF HubErrs, socketVars
<1>12. \A v \in Event : PublishEvent(v) \/ (\E h \in Replica : Broadcast(h, v)) => Watching'
  BY <1>k DEF PublishEvent, Broadcast, replicaVars, socketVars
<1>13. UNCHANGED vars => Watching'
  BY <1>k DEF vars, replicaVars, socketVars
<1> QED
  BY <1>1, <1>2, <1>3, <1>4, <1>5, <1>6, <1>7, <1>8, <1>9, <1>10, <1>11, <1>12, <1>13
  DEF HubNext, Accept, Refuse, Stop, PublishRejected, BroadcastCut

(* A broadcast sends an event to the interested, or over a socket whose    *)
(* subscribe message is on its way.                                        *)
LEMMA BroadcastWatched ==
    ASSUME HubTypeOK, RegistryExact, WatchInv, NEW h \in Replica, NEW v \in Event,
           CanTake(h, v), Send(v, Audience(h, v)),
           NEW e \in Editor, NEW w \in received'[e] \ received[e]
    PROVE  \/ Interested(e, w)
           \/ near[link[e]] = "opening"
           \/ \E i \in 1..Len(inbox[link[e]]) : inbox[link[e]][i] = Subscribe
<1>1. PICK s \in Audience(h, v) : user[s] = e /\ ~broken[s] /\ near[s] # "closed"
  BY DEF Send
<1>2. w = v
  BY DEF Send
<1>3. /\ EventOrg(v) \in Org /\ s \in orgIndex[h][EventOrg(v)] /\ s \in sessions[h]
      /\ far[s] = "open" /\ Matches(watchedFiles[s], EventFile(v))
  BY DEF Audience, ByOrg
<1>4. s \in Socket /\ at[s] = h /\ OrgOf[user[s]] = EventOrg(v)
  BY <1>3 DEF RegistryExact, HubTypeOK
<1>5. SubjectOf[v] = "bug.created" /\ EventOrg(v) = BugOrg[v] /\ EventFile(v) = BugFile[v]
  BY <1>3, HubAssumption DEF EventOrg, EventFile
<1>6. link[e] = s
  BY <1>1, <1>4 DEF WatchInv, Linked
<1>7. js[h]
  BY DEF CanTake, WatchInv, Listening
<1>8. CASE near[s] = "open"
  <2>1. watchedFiles[s] = WatchOf[e] \/ SubscribeWaits(s)
    BY <1>1, <1>3, <1>4, <1>7, <1>8 DEF WatchInv, Watching
  <2>2. watchedFiles[s] = WatchOf[e] => Interested(e, v)
    BY <1>1, <1>3, <1>4, <1>5 DEF Interested, Matches
  <2> QED
    BY <1>2, <1>6, <2>1, <2>2 DEF SubscribeWaits
<1>9. CASE near[s] = "opening"
  BY <1>6, <1>9
<1> QED
  BY <1>1, <1>4, <1>8, <1>9 DEF HubTypeOK

LEMMA WatchInit == HubInit => WatchInv
<1> SUFFICES ASSUME HubInit PROVE WatchInv
  OBVIOUS
<1>1. Linked
  BY DEF HubInit, Linked
<1>2. (CHOOSE h \in Replica : TRUE) \in Replica
  BY HubAssumption, Zenon
<1>3. Listening
  BY <1>2 DEF HubInit, Listening
<1>4. Watching
  BY DEF HubInit, Watching
<1> QED
  BY <1>1, <1>3, <1>4 DEF WatchInv

(* An editor is sent an event of a file it does not watch only before the  *)
(* hub has read its subscribe message: the registry's patterns are the     *)
(* editor's from then on, however the connection ends (server.ts,          *)
(* handleClientMessage and matchesFilePaths).                              *)
THEOREM UnwatchedBounded == HubSpec => UnwatchedOnlyAtFirst
<1>1. HubTypeOK /\ WatchInv /\ [HubNext]_vars => WatchInv'
  BY LinkedStep, ListeningStep, WatchingStep DEF WatchInv
<1>2. ASSUME HubTypeOK, RegistryExact, WatchInv, [HubNext]_vars
      PROVE  [\A e \in Editor : \A v \in received'[e] \ received[e] :
                \/ Interested(e, v)
                \/ near[link[e]] = "opening"
                \/ \E i \in 1..Len(inbox[link[e]]) : inbox[link[e]][i] = Subscribe]_vars
  <2>1. ASSUME NEW h \in Replica, NEW v \in Event, Broadcast(h, v) \/ BroadcastCut(h, v)
        PROVE  \A e \in Editor : \A w \in received'[e] \ received[e] :
                \/ Interested(e, w)
                \/ near[link[e]] = "opening"
                \/ \E i \in 1..Len(inbox[link[e]]) : inbox[link[e]][i] = Subscribe
    BY <1>2, <2>1, BroadcastWatched DEF Broadcast, BroadcastCut
  <2>2. ASSUME HubNext, ~\E h \in Replica, v \in Event : Broadcast(h, v) \/ BroadcastCut(h, v)
        PROVE  UNCHANGED received
    <3>1. \A h \in Replica : Boot(h) \/ Stop(h) => UNCHANGED received
      BY DEF Boot, Stop, streamVars
    <3>2. \A s \in Socket, h \in Replica, e \in Editor :
            Accept(e, s, h) \/ Refuse(e, s, h) => UNCHANGED received
      BY DEF Accept, Refuse, NewSocket, streamVars
    <3>3. \A s \in Socket : HubReads(s) \/ PublishRejected(s) \/ HubErrs(s) \/ HubCloses(s)
            => UNCHANGED received
      BY DEF HubReads, PublishRejected, HubErrs, HubCloses, streamVars
    <3>4. \A s \in Socket : Break(s) \/ Opened(s) \/ EditorCloses(s) => UNCHANGED received
      BY DEF Break, Opened, EditorCloses, streamVars
    <3>5. /\ \A v \in Event : PublishEvent(v) => UNCHANGED received
          /\ \A e \in Editor : Make(e) => UNCHANGED received
      BY DEF PublishEvent, Make, streamVars
    <3> QED
      BY <2>2, <3>1, <3>2, <3>3, <3>4, <3>5 DEF HubNext
  <2> QED
    BY <1>2, <2>1, <2>2
<1> QED
  BY <1>1, <1>2, WatchInit, HubTypes, RegistryKept, PTL DEF HubSpec, UnwatchedOnlyAtFirst

-----------------------------------------------------------------------------
(* The operations in a sequence of messages, and what becomes of them.     *)
LEMMA OpsEmpty == OpsIn(<<>>) = {} /\ Ascending(<<>>)
BY DEF OpsIn, Ascending

LEMMA OpsTyped ==
    ASSUME NEW q \in Seq(Message)
    PROVE  OpsIn(q) \subseteq Operation
BY DEF OpsIn, Message

LEMMA OpsTail ==
    ASSUME NEW q \in Seq(Message), q # <<>>, Ascending(q)
    PROVE  /\ OpsIn(Tail(q)) \subseteq OpsIn(q) /\ Ascending(Tail(q))
           /\ Head(q) \in Operation => /\ Head(q) \in OpsIn(q)
                                       /\ \A n \in OpsIn(Tail(q)) : Head(q) < n
<1>1. /\ Tail(q) \in Seq(Message) /\ Len(q) \in Nat \ {0}
      /\ Len(Tail(q)) = Len(q) - 1
      /\ \A i \in 1..Len(Tail(q)) : i + 1 \in 1..Len(q) /\ Tail(q)[i] = q[i + 1]
  OBVIOUS
<1>2. OpsIn(Tail(q)) \subseteq OpsIn(q)
  BY <1>1 DEF OpsIn
<1>3. Ascending(Tail(q))
  <2> SUFFICES ASSUME NEW i \in 1..Len(Tail(q)), NEW j \in 1..Len(Tail(q)), i < j,
                      Tail(q)[i] # Subscribe, Tail(q)[j] # Subscribe
               PROVE  Tail(q)[i] < Tail(q)[j]
    BY DEF Ascending
  <2>1. /\ i + 1 \in 1..Len(q) /\ j + 1 \in 1..Len(q) /\ i + 1 < j + 1
        /\ Tail(q)[i] = q[i + 1] /\ Tail(q)[j] = q[j + 1]
    BY <1>1
  <2> QED
    BY <2>1 DEF Ascending
<1>4. ASSUME Head(q) \in Operation
      PROVE  Head(q) \in OpsIn(q) /\ \A n \in OpsIn(Tail(q)) : Head(q) < n
  <2>1. 1 \in 1..Len(q) /\ Head(q) = q[1] /\ q[1] # Subscribe
    BY <1>1, <1>4 DEF Operation, Subscribe
  <2>2. ASSUME NEW n \in OpsIn(Tail(q))
        PROVE  Head(q) < n
    <3>1. PICK i \in 1..Len(Tail(q)) : Tail(q)[i] = n
      BY DEF OpsIn
    <3>2. i + 1 \in 1..Len(q) /\ q[i + 1] = n /\ n # Subscribe /\ 1 < i + 1
      BY <1>1, <3>1 DEF OpsIn
    <3> QED
      BY <2>1, <3>2 DEF Ascending
  <2> QED
    BY <2>1, <2>2 DEF OpsIn
<1> QED
  BY <1>2, <1>3, <1>4

LEMMA OpsPrefix ==
    ASSUME NEW q \in Seq(Message), NEW k \in 0..Len(q), Ascending(q)
    PROVE  OpsIn(SubSeq(q, 1, k)) \subseteq OpsIn(q) /\ Ascending(SubSeq(q, 1, k))
<1>1. /\ Len(SubSeq(q, 1, k)) = k
      /\ \A i \in 1..k : i \in 1..Len(q) /\ SubSeq(q, 1, k)[i] = q[i]
  OBVIOUS
<1> QED
  BY <1>1 DEF OpsIn, Ascending

LEMMA OpsAppend ==
    ASSUME NEW q \in Seq(Message), NEW n \in Operation, Ascending(q),
           \A m \in OpsIn(q) : m < n
    PROVE  OpsIn(Append(q, n)) = OpsIn(q) \cup {n} /\ Ascending(Append(q, n))
<1>1. /\ Len(Append(q, n)) = Len(q) + 1 /\ Len(q) \in Nat
      /\ Append(q, n)[Len(q) + 1] = n
      /\ \A i \in 1..Len(q) : Append(q, n)[i] = q[i]
  OBVIOUS
<1>2. n # Subscribe
  BY DEF Operation, Subscribe
<1>3. OpsIn(Append(q, n)) = OpsIn(q) \cup {n}
  <2>1. \A i \in 1..(Len(q) + 1) : i \in 1..Len(q) \/ i = Len(q) + 1
    BY <1>1
  <2>2. 1..Len(q) \subseteq 1..(Len(q) + 1) /\ Len(q) + 1 \in 1..(Len(q) + 1)
    BY <1>1
  <2> QED
    BY <1>1, <1>2, <2>1, <2>2 DEF OpsIn
<1>4. Ascending(Append(q, n))
  <2> SUFFICES ASSUME NEW i \in 1..(Len(q) + 1), NEW j \in 1..(Len(q) + 1), i < j,
                      Append(q, n)[i] # Subscribe, Append(q, n)[j] # Subscribe
               PROVE  Append(q, n)[i] < Append(q, n)[j]
    BY <1>1 DEF Ascending
  <2>1. i \in 1..Len(q) /\ Append(q, n)[i] = q[i]
    BY <1>1
  <2>2. CASE j \in 1..Len(q)
    BY <1>1, <2>1, <2>2 DEF Ascending
  <2>3. CASE j = Len(q) + 1
    BY <1>1, <2>1, <2>3 DEF OpsIn
  <2> QED
    BY <1>1, <2>2, <2>3
<1> QED
  BY <1>3, <1>4

LEMMA OpsOpened ==
    ASSUME NEW q \in Seq(Operation), Ascending(q)
    PROVE  /\ OpsIn(<<Subscribe>> \o q) = OpsIn(q) /\ Ascending(<<Subscribe>> \o q)
<1> DEFINE p == <<Subscribe>> \o q
<1>1. <<Subscribe>> \in Seq({Subscribe}) /\ Len(<<Subscribe>>) = 1
  OBVIOUS
<1>2. /\ Len(p) = Len(q) + 1 /\ Len(q) \in Nat /\ p[1] = Subscribe
      /\ \A i \in 1..Len(q) : p[i + 1] = q[i]
  BY <1>1
<1>3. \A j \in 1..Len(p) : j = 1 \/ (j - 1 \in 1..Len(q) /\ p[j] = q[j - 1])
  <2>1. ASSUME NEW j \in 1..Len(p), j # 1
        PROVE  j - 1 \in 1..Len(q) /\ p[j] = q[j - 1]
    <3>1. j - 1 \in 1..Len(q) /\ (j - 1) + 1 = j
      BY <1>2, <2>1
    <3> QED
      BY <1>2, <3>1
  <2> QED
    BY <2>1
<1>4. \A i \in 1..Len(q) : i + 1 \in 1..Len(p)
  BY <1>2
<1> HIDE DEF p
<1>5. OpsIn(p) = OpsIn(q)
  <2>1. OpsIn(p) \subseteq OpsIn(q)
    BY <1>2, <1>3 DEF OpsIn
  <2>2. OpsIn(q) \subseteq OpsIn(p)
    BY <1>2, <1>4 DEF OpsIn
  <2> QED
    BY <2>1, <2>2
<1>6. Ascending(p)
  <2> SUFFICES ASSUME NEW i \in 1..Len(p), NEW j \in 1..Len(p), i < j,
                      p[i] # Subscribe, p[j] # Subscribe
               PROVE  p[i] < p[j]
    BY DEF Ascending
  <2>1. /\ i - 1 \in 1..Len(q) /\ p[i] = q[i - 1]
        /\ j - 1 \in 1..Len(q) /\ p[j] = q[j - 1] /\ i - 1 < j - 1
    BY <1>2, <1>3
  <2> QED
    BY <2>1 DEF Ascending
<1> QED
  BY <1>5, <1>6 DEF p

(* What a message forwarded adds.                                          *)
LEMMA SentAppended ==
    ASSUME requests \in Seq(Request), NEW r \in Request,
           requests' = Append(requests, r), NEW e
    PROVE  /\ Sent(requests', e) \subseteq Sent(requests, e) \cup {r.op}
           /\ r.editor # e => Sent(requests', e) = Sent(requests, e)
           /\ \A k :
                /\ SentOver(requests', e, k) \subseteq SentOver(requests, e, k) \cup {r.op}
                /\ r.editor # e \/ r.over # k =>
                       SentOver(requests', e, k) = SentOver(requests, e, k)
<1>1. /\ Len(requests') = Len(requests) + 1 /\ Len(requests) \in Nat
      /\ requests'[Len(requests) + 1] = r
      /\ \A i \in 1..Len(requests) : requests'[i] = requests[i]
  OBVIOUS
<1>2. /\ \A i \in 1..Len(requests') : i \in 1..Len(requests) \/ i = Len(requests) + 1
      /\ \A i \in 1..Len(requests) : i \in 1..Len(requests')
  BY <1>1
<1>3. /\ Sent(requests', e) \subseteq Sent(requests, e) \cup {r.op}
      /\ r.editor # e => Sent(requests', e) = Sent(requests, e)
  BY <1>1, <1>2 DEF Sent
<1>4. ASSUME NEW k
      PROVE  /\ SentOver(requests', e, k) \subseteq SentOver(requests, e, k) \cup {r.op}
             /\ r.editor # e \/ r.over # k =>
                    SentOver(requests', e, k) = SentOver(requests, e, k)
  BY <1>1, <1>2 DEF SentOver
<1> QED
  BY <1>3, <1>4

(* What a step can leave of the sockets' operations: those still to be     *)
(* read are some of those that were.                                       *)
Drains(s) ==
    /\ OpsIn(inbox'[s]) \subseteq OpsIn(inbox[s]) /\ Ascending(inbox'[s])
    /\ inbox[s] = <<>> => inbox'[s] = <<>>
    /\ near'[s] = near[s] \/ near'[s] = "closed"

(* Nothing is forwarded: the order stands.                                 *)
LEMMA OrderDrains ==
    ASSUME OrderInv, Linked', UNCHANGED <<user, nth, made, connects, requests, queue>>,
           \A s \in Socket : Drains(s)
    PROVE  OrderInv'
<1>1. Counted'
  BY DEF OrderInv, Counted, Drains
<1>2. Apart'
  <2>1. \A e \in Editor : \A k \in OpsIn(queue'[e]) : k \notin Sent(requests', e)
    BY DEF OrderInv, Apart
  <2>2. \A s \in Socket : /\ \A k \in OpsIn(inbox'[s]) : k \notin OpsIn(queue'[user'[s]])
                          /\ \A k \in OpsIn(inbox'[s]) : k \notin Sent(requests', user'[s])
    BY DEF OrderInv, Apart, Drains
  <2>3. \A s, t \in Socket : s # t /\ user'[s] = user'[t] =>
            \A k \in OpsIn(inbox'[s]) : k \notin OpsIn(inbox'[t])
    BY DEF OrderInv, Apart, Drains
  <2> QED
    BY <2>1, <2>2, <2>3 DEF Apart
<1>3. Orderly'
  BY DEF OrderInv, Orderly, Drains
<1>4. Numbered'
  BY DEF OrderInv, Numbered, Drains
<1>5. ForwardedInOrder'
  BY DEF OrderInv, ForwardedInOrder
<1> QED
  BY <1>1, <1>2, <1>3, <1>4, <1>5 DEF OrderInv

(* The first operation of a socket is forwarded.                           *)
LEMMA OrderForwards ==
    ASSUME HubTypeOK, OrderInv, Linked', UNCHANGED <<user, nth, made, connects, queue>>,
           NEW s \in Socket, inbox[s] # <<>>, Head(inbox[s]) \in Operation,
           requests' = Append(requests, Forwarded(s)),
           \A t \in Socket : Drains(t),
           OpsIn(inbox'[s]) \subseteq OpsIn(Tail(inbox[s]))
    PROVE  OrderInv'
<1> DEFINE n == Head(inbox[s])
           e == user[s]
           r == Forwarded(s)
<1>t. /\ inbox[s] \in Seq(Message) /\ requests \in Seq(Request) /\ e \in Editor
      /\ \A d \in Editor : made[d] \in Nat /\ connects[d] \in Nat
      /\ \A t \in Socket : nth[t] \in Nat /\ user[t] \in Editor
  BY DEF HubTypeOK
<1>i. Counted /\ Apart /\ Orderly /\ Numbered /\ ForwardedInOrder
  BY DEF OrderInv
<1>0. /\ r \in Request /\ r.editor = e /\ r.op = n /\ r.over = nth[s]
  BY ForwardedIsRequest DEF Forwarded
<1>1. /\ n \in OpsIn(inbox[s]) /\ n \in Operation
      /\ \A m \in OpsIn(inbox'[s]) : n < m
  BY <1>t, <1>i, OpsTail DEF Orderly
<1>2. \A d : /\ Sent(requests', d) \subseteq Sent(requests, d) \cup {n}
             /\ d # e => Sent(requests', d) = Sent(requests, d)
             /\ \A k :
                  /\ SentOver(requests', d, k) \subseteq SentOver(requests, d, k) \cup {n}
                  /\ d # e \/ k # nth[s] =>
                         SentOver(requests', d, k) = SentOver(requests, d, k)
  BY <1>t, <1>0, SentAppended
<1>3. /\ n \notin Sent(requests, e) /\ n \notin OpsIn(queue[e]) /\ n \in 1..made[e]
      /\ \A m \in SentOver(requests, e, nth[s]) : m < n
  BY <1>1, <1>i DEF Apart, Orderly, Counted
<1>4. /\ nth[s] # 0 /\ near[s] # "opening" /\ nth[s] <= connects[e]
      /\ \A t \in Socket : t # s /\ user[t] = e => nth[t] # nth[s]
  BY <1>i DEF Numbered
<1>5. \A t \in Socket : user[t] = e => n \notin OpsIn(inbox'[t])
  <2>1. n \notin OpsIn(inbox'[s])
    BY <1>1 DEF Operation
  <2>2. ASSUME NEW t \in Socket, t # s, user[t] = e
        PROVE  n \notin OpsIn(inbox'[t])
    BY <1>1, <1>i, <2>2 DEF Apart, Drains
  <2> QED
    BY <2>1, <2>2
<1> HIDE DEF n, e, r
<1>6. Counted'
  BY <1>t, <1>i, <1>2, <1>3 DEF Counted, Drains
<1>7. Apart'
  <2>1. \A d \in Editor : \A k \in OpsIn(queue'[d]) : k \notin Sent(requests', d)
    BY <1>i, <1>2, <1>3 DEF Apart
  <2>2. \A t \in Socket : \A k \in OpsIn(inbox'[t]) : k \notin OpsIn(queue'[user'[t]])
    BY <1>i DEF Apart, Drains
  <2>3. \A t \in Socket : \A k \in OpsIn(inbox'[t]) : k \notin Sent(requests', user'[t])
    <3> SUFFICES ASSUME NEW t \in Socket, NEW k \in OpsIn(inbox'[t])
                 PROVE  k \notin Sent(requests', user[t])
      OBVIOUS
    <3>1. k \in OpsIn(inbox[t]) /\ k \notin Sent(requests, user[t])
      BY <1>i DEF Apart, Drains
    <3>2. user[t] = e => k # n
      BY <1>5
    <3>3. Sent(requests', user[t]) \subseteq Sent(requests, user[t]) \cup {n}
          /\ (user[t] # e => Sent(requests', user[t]) = Sent(requests, user[t]))
      BY <1>2
    <3> QED
      BY <3>1, <3>2, <3>3
  <2>4. \A t, u \in Socket : t # u /\ user'[t] = user'[u] =>
            \A k \in OpsIn(inbox'[t]) : k \notin OpsIn(inbox'[u])
    BY <1>i DEF Apart, Drains
  <2> QED
    BY <2>1, <2>2, <2>3, <2>4 DEF Apart
<1>8. Orderly'
  <2>1. ASSUME NEW t \in Socket, NEW m \in SentOver(requests', user'[t], nth'[t]),
               NEW k \in OpsIn(inbox'[t])
        PROVE  m < k
    <3>1. CASE m \in SentOver(requests, user[t], nth[t])
      BY <1>i, <2>1, <3>1 DEF Orderly, Drains
    <3>2. CASE m \notin SentOver(requests, user[t], nth[t])
      <4>1. m = n /\ user[t] = e /\ nth[t] = nth[s]
        BY <1>2, <2>1, <3>2
      <4>2. t = s
        BY <1>4, <4>1
      <4> QED
        BY <1>1, <4>1, <4>2
    <3> QED
      BY <3>1, <3>2
  <2>2. \A d \in Editor : Ascending(queue'[d])
    BY <1>i DEF Orderly
  <2>3. \A t \in Socket : Ascending(inbox'[t])
    BY DEF Drains
  <2> QED
    BY <2>1, <2>2, <2>3 DEF Orderly
<1>9. Numbered'
  <2>1. ASSUME NEW t \in Socket, near'[t] = "opening"
        PROVE  inbox'[t] = <<>> /\ SentOver(requests', user'[t], nth'[t]) = {}
    <3>1. near[t] = "opening" /\ t # s
      BY <1>4, <2>1 DEF Drains
    <3>2. user[t] # e \/ nth[t] # nth[s]
      BY <1>4, <3>1
    <3>3. inbox[t] = <<>> /\ SentOver(requests, user[t], nth[t]) = {}
      BY <1>i, <3>1 DEF Numbered
    <3> QED
      BY <1>2, <3>2, <3>3 DEF Drains
  <2>2. ASSUME NEW d \in Editor, NEW k \in Nat, k > connects[d]
        PROVE  SentOver(requests', d, k) = {}
    <3>1. d # e \/ k # nth[s]
      BY <1>t, <1>4, <2>2
    <3> QED
      BY <1>i, <1>2, <2>2, <3>1 DEF Numbered
  <2>3. \A t \in Socket : /\ nth'[t] <= connects'[user'[t]]
                          /\ nth'[t] = 0 => near'[t] = "closed" /\ inbox'[t] = <<>>
    BY <1>i DEF Numbered, Drains
  <2> QED
    BY <1>i, <2>1, <2>2, <2>3 DEF Numbered
<1>10. ForwardedInOrder'
  <2>1. /\ Len(requests') = Len(requests) + 1 /\ Len(requests) \in Nat
        /\ requests'[Len(requests) + 1] = r
        /\ \A i \in 1..Len(requests) : requests'[i] = requests[i]
    BY <1>t, <1>0 DEF r
  <2> SUFFICES ASSUME NEW i \in 1..Len(requests'), NEW j \in 1..Len(requests'), i < j,
                      requests'[i].editor = requests'[j].editor
               PROVE  /\ requests'[i].op # requests'[j].op
                      /\ requests'[i].over = requests'[j].over =>
                            requests'[i].op < requests'[j].op
    BY DEF ForwardedInOrder
  <2>2. i \in 1..Len(requests) /\ requests'[i] = requests[i]
    BY <2>1
  <2>3. CASE j \in 1..Len(requests)
    BY <1>i, <2>1, <2>2, <2>3 DEF ForwardedInOrder
  <2>4. CASE j = Len(requests) + 1
    <3>1. requests'[j] = r /\ requests[i].editor = e
      BY <1>0, <2>1, <2>2, <2>4
    <3>2. requests[i].op \in Sent(requests, e)
      BY <2>2, <3>1 DEF Sent
    <3>3. requests[i].over = nth[s] => requests[i].op \in SentOver(requests, e, nth[s])
      BY <2>2, <3>1 DEF SentOver
    <3> QED
      BY <1>0, <1>3, <2>2, <3>1, <3>2, <3>3
  <2> QED
    BY <2>1, <2>3, <2>4
<1> QED
  BY <1>6, <1>7, <1>8, <1>9, <1>10 DEF OrderInv

(* A new connection has a number of its own.                               *)
LEMMA OrderConnects ==
    ASSUME HubTypeOK, OrderInv, Linked', NEW e \in Editor, NEW s \in Socket,
           NEW h \in Replica, NEW state \in {"open", "refused"},
           NewSocket(e, s, h, state)
    PROVE  OrderInv'
<1>i. Counted /\ Apart /\ Orderly /\ Numbered /\ ForwardedInOrder
  BY DEF OrderInv
<1>t. /\ \A d \in Editor : made[d] \in Nat /\ connects[d] \in Nat
      /\ \A t \in Socket : nth[t] \in Nat /\ user[t] \in Editor
  BY DEF HubTypeOK
<1>1. /\ user'[s] = e /\ nth'[s] = connects[e] + 1 /\ near'[s] = "opening"
      /\ inbox'[s] = <<>> /\ connects'[e] = connects[e] + 1
      /\ \A t \in Socket : t # s => /\ user'[t] = user[t] /\ nth'[t] = nth[t]
                                    /\ near'[t] = near[t] /\ inbox'[t] = inbox[t]
      /\ \A d \in Editor : d # e => connects'[d] = connects[d]
      /\ UNCHANGED <<queue, made, requests>>
  BY NewSocketFacts
<1>2. OpsIn(inbox'[s]) = {} /\ Ascending(inbox'[s])
  BY <1>1, OpsEmpty
<1>3. Counted'
  BY <1>i, <1>1, <1>2 DEF Counted
<1>4. Apart'
  <2>1. \A t \in Socket : /\ \A k \in OpsIn(inbox'[t]) : k \notin OpsIn(queue'[user'[t]])
                          /\ \A k \in OpsIn(inbox'[t]) : k \notin Sent(requests', user'[t])
    BY <1>i, <1>1, <1>2 DEF Apart
  <2>2. \A t, u \in Socket : t # u /\ user'[t] = user'[u] =>
            \A k \in OpsIn(inbox'[t]) : k \notin OpsIn(inbox'[u])
    BY <1>i, <1>1, <1>2 DEF Apart
  <2>3. \A d \in Editor : \A k \in OpsIn(queue'[d]) : k \notin Sent(requests', d)
    BY <1>i, <1>1 DEF Apart
  <2> QED
    BY <2>1, <2>2, <2>3 DEF Apart
<1>5. Orderly'
  BY <1>i, <1>1, <1>2 DEF Orderly
<1>6. Numbered'
  <2>1. SentOver(requests, e, connects[e] + 1) = {}
    BY <1>i, <1>t DEF Numbered
  <2>2. \A t \in Socket : /\ nth'[t] <= connects'[user'[t]]
                          /\ nth'[t] = 0 => near'[t] = "closed" /\ inbox'[t] = <<>>
                          /\ near'[t] = "opening" =>
                               inbox'[t] = <<>> /\ SentOver(requests', user'[t], nth'[t]) = {}
    BY <1>i, <1>t, <1>1, <2>1 DEF Numbered
  <2>3. ASSUME NEW t \in Socket, NEW u \in Socket, t # u, user'[t] = user'[u],
               nth'[t] = nth'[u]
        PROVE  nth'[t] = 0
    BY <1>i, <1>t, <1>1, <2>3 DEF Numbered
  <2>4. \A d \in Editor : \A k \in Nat : k > connects'[d] => SentOver(requests', d, k) = {}
    BY <1>i, <1>t, <1>1 DEF Numbered
  <2> QED
    BY <2>2, <2>3, <2>4 DEF Numbered
<1>7. ForwardedInOrder'
  BY <1>i, <1>1 DEF ForwardedInOrder
<1> QED
  BY <1>3, <1>4, <1>5, <1>6, <1>7 DEF OrderInv

(* What waited in the queue goes into the socket that opens.               *)
LEMMA OrderOpens ==
    ASSUME HubTypeOK, OrderInv, Linked', NEW s \in Socket, Opened(s)
    PROVE  OrderInv'
<1> DEFINE e == user[s]
<1>i. Counted /\ Apart /\ Orderly /\ Numbered /\ ForwardedInOrder
  BY DEF OrderInv
<1>t. /\ e \in Editor /\ queue[e] \in Seq(Operation)
      /\ inbox \in [Socket -> Seq(Message)] /\ queue \in [Editor -> Seq(Operation)]
      /\ near \in [Socket -> {"closed", "opening", "open"}]
      /\ \A t \in Socket : user[t] \in Editor
  BY DEF HubTypeOK
<1>1. /\ near[s] = "opening" /\ near' = [near EXCEPT ![s] = "open"]
      /\ inbox' = [inbox EXCEPT ![s] = <<Subscribe>> \o queue[e]]
      /\ queue' = [queue EXCEPT ![e] = <<>>]
      /\ UNCHANGED <<user, nth, made, connects, requests>>
  BY DEF Opened, streamVars
<1> HIDE DEF e
<1>2. /\ OpsIn(inbox'[s]) = OpsIn(queue[e]) /\ Ascending(inbox'[s])
      /\ OpsIn(queue'[e]) = {} /\ Ascending(queue'[e])
      /\ \A t \in Socket : t # s => inbox'[t] = inbox[t] /\ near'[t] = near[t]
      /\ \A d \in Editor : d # e => queue'[d] = queue[d]
      /\ near'[s] = "open"
  BY <1>i, <1>t, <1>1, OpsOpened, OpsEmpty DEF Orderly
<1>3. Counted'
  BY <1>i, <1>t, <1>1, <1>2 DEF Counted, e
<1>4. Apart'
  <2>1. \A d \in Editor : \A k \in OpsIn(queue'[d]) : k \notin Sent(requests', d)
    BY <1>i, <1>1, <1>2 DEF Apart
  <2>2. \A t \in Socket : \A k \in OpsIn(inbox'[t]) : k \notin OpsIn(queue'[user'[t]])
    BY <1>i, <1>t, <1>1, <1>2 DEF Apart, e
  <2>3. \A t \in Socket : \A k \in OpsIn(inbox'[t]) : k \notin Sent(requests', user'[t])
    BY <1>i, <1>t, <1>1, <1>2 DEF Apart, e
  <2>4. \A t, u \in Socket : t # u /\ user'[t] = user'[u] =>
            \A k \in OpsIn(inbox'[t]) : k \notin OpsIn(inbox'[u])
    BY <1>i, <1>1, <1>2 DEF Apart, e
  <2> QED
    BY <2>1, <2>2, <2>3, <2>4 DEF Apart
<1>5. Orderly'
  <2>1. SentOver(requests, user[s], nth[s]) = {}
    BY <1>i, <1>1 DEF Numbered
  <2> QED
    BY <1>i, <1>1, <1>2, <2>1 DEF Orderly
<1>6. Numbered'
  BY <1>i, <1>1, <1>2 DEF Numbered
<1>7. ForwardedInOrder'
  BY <1>i, <1>1 DEF ForwardedInOrder
<1> QED
  BY <1>3, <1>4, <1>5, <1>6, <1>7 DEF OrderInv

(* The operation made has the highest number so far.                       *)
LEMMA OrderMakes ==
    ASSUME HubTypeOK, OrderInv, Linked', NEW e \in Editor, Make(e)
    PROVE  OrderInv'
<1>i. Linked /\ Counted /\ Apart /\ Orderly /\ Numbered /\ ForwardedInOrder
  BY DEF OrderInv
<1>t. /\ inbox \in [Socket -> Seq(Message)] /\ queue \in [Editor -> Seq(Operation)]
      /\ made \in [Editor -> Nat] /\ link[e] \in Socket \cup {NoSocket}
      /\ \A t \in Socket : user[t] \in Editor
      /\ \A d \in Editor : queue[d] \in Seq(Message)
  BY DEF HubTypeOK, Message
<1>1. /\ made' = [made EXCEPT ![e] = made[e] + 1]
      /\ UNCHANGED <<user, nth, near, connects, requests, link>>
      /\ \/ UNCHANGED <<inbox, queue>>
         \/ /\ link[e] \in Socket /\ near[link[e]] = "open" /\ UNCHANGED queue
            /\ inbox' = [inbox EXCEPT ![link[e]] = Append(@, made[e] + 1)]
         \/ UNCHANGED inbox /\ queue' = [queue EXCEPT ![e] = Append(@, made[e] + 1)]
  BY <1>t DEF Make, streamVars
<1>n. ASSUME NEW n, n = made[e] + 1
      PROVE  /\ n \in Operation /\ n \in 1..made'[e]
             /\ \A d \in Editor : 1..made[d] \subseteq 1..made'[d]
             /\ \A m \in 1..made[e] : m < n
             /\ n \notin Sent(requests, e) /\ n \notin OpsIn(queue[e])
             /\ \A t \in Socket : user[t] = e => n \notin OpsIn(inbox[t])
  <2>1. made[e] \in Nat /\ made'[e] = n
    BY <1>t, <1>1, <1>n
  <2>2. \A d \in Editor : made'[d] = IF d = e THEN n ELSE made[d]
    BY <1>t, <1>1, <1>n
  <2>3. n \notin 1..made[e] /\ \A m \in 1..made[e] : m < n
    BY <1>n, <2>1
  <2>4. \A d \in Editor : 1..made[d] \subseteq 1..made'[d]
    <3>1. \A d \in Editor : made[d] \in Nat /\ made'[d] \in Nat /\ made[d] <= made'[d]
      BY <1>t, <1>n, <2>2
    <3> QED
      BY <3>1
  <2> QED
    BY <1>n, <1>i, <2>1, <2>3, <2>4 DEF Operation, Counted
<1>f. ForwardedInOrder'
  BY <1>i, <1>1 DEF ForwardedInOrder
<1>2. CASE UNCHANGED <<inbox, queue>>
  <2>1. Counted'
    BY <1>i, <1>t, <1>1, <1>2, <1>n DEF Counted
  <2>2. Apart' /\ Orderly'
    BY <1>i, <1>1, <1>2 DEF Apart, Orderly
  <2>3. Numbered'
    BY <1>i, <1>1, <1>2 DEF Numbered
  <2> QED
    BY <1>f, <2>1, <2>2, <2>3 DEF OrderInv
<1>3. ASSUME NEW s \in Socket, s = link[e], near[s] = "open", UNCHANGED queue,
             inbox' = [inbox EXCEPT ![s] = Append(@, made[e] + 1)]
      PROVE  OrderInv'
  <2>1. PICK n : n = made[e] + 1
    OBVIOUS
  <2>2. user[s] = e
    BY <1>i, <1>3, HubAssumption DEF Linked
  <2>3. OpsIn(inbox[s]) \subseteq 1..made[e] /\ Ascending(inbox[s])
    BY <1>i, <2>2 DEF Counted, Orderly
  <2>4. /\ OpsIn(inbox'[s]) = OpsIn(inbox[s]) \cup {n} /\ Ascending(inbox'[s])
        /\ \A t \in Socket : t # s => inbox'[t] = inbox[t]
    BY <1>t, <1>3, <1>n, <2>1, <2>3, OpsAppend
  <2>5. Counted'
    BY <1>i, <1>t, <1>1, <1>3, <1>n, <2>1, <2>2, <2>4 DEF Counted
  <2>6. Apart'
    <3>1. \A d \in Editor : \A k \in OpsIn(queue'[d]) : k \notin Sent(requests', d)
      BY <1>i, <1>1, <1>3 DEF Apart
    <3>2. \A t \in Socket : /\ \A k \in OpsIn(inbox'[t]) : k \notin OpsIn(queue'[user'[t]])
                            /\ \A k \in OpsIn(inbox'[t]) : k \notin Sent(requests', user'[t])
      BY <1>i, <1>1, <1>3, <1>n, <2>1, <2>2, <2>4 DEF Apart
    <3>3. \A t, u \in Socket : t # u /\ user'[t] = user'[u] =>
              \A k \in OpsIn(inbox'[t]) : k \notin OpsIn(inbox'[u])
      BY <1>i, <1>1, <1>n, <2>1, <2>2, <2>4 DEF Apart
    <3> QED
      BY <3>1, <3>2, <3>3 DEF Apart
  <2>7. Orderly'
    <3>1. \A m \in SentOver(requests, e, nth[s]) : m \in Sent(requests, e)
      BY DEF SentOver, Sent
    <3>2. \A m \in SentOver(requests, e, nth[s]) : m < n
      BY <1>i, <1>n, <2>1, <3>1 DEF Counted
    <3>3. \A t \in Socket : \A m \in SentOver(requests', user'[t], nth'[t]) :
             \A k \in OpsIn(inbox'[t]) : m < k
      BY <1>i, <1>1, <2>2, <2>4, <3>2 DEF Orderly
    <3> QED
      BY <1>i, <1>3, <2>4, <3>3 DEF Orderly
  <2>8. Numbered'
    <3>1. nth[s] # 0 /\ near[s] # "opening"
      BY <1>i, <1>3 DEF Numbered
    <3> QED
      BY <1>i, <1>1, <2>4, <3>1 DEF Numbered
  <2> QED
    BY <1>f, <2>5, <2>6, <2>7, <2>8 DEF OrderInv
<1>4. CASE UNCHANGED inbox /\ queue' = [queue EXCEPT ![e] = Append(@, made[e] + 1)]
  <2>1. PICK n : n = made[e] + 1
    OBVIOUS
  <2>2. OpsIn(queue[e]) \subseteq 1..made[e] /\ Ascending(queue[e])
    BY <1>i DEF Counted, Orderly
  <2>3. /\ OpsIn(queue'[e]) = OpsIn(queue[e]) \cup {n} /\ Ascending(queue'[e])
        /\ \A d \in Editor : d # e => queue'[d] = queue[d]
    BY <1>t, <1>4, <1>n, <2>1, <2>2, OpsAppend
  <2>4. Counted'
    BY <1>i, <1>t, <1>1, <1>4, <1>n, <2>1, <2>3 DEF Counted
  <2>5. Apart'
    <3>1. \A d \in Editor : \A k \in OpsIn(queue'[d]) : k \notin Sent(requests', d)
      BY <1>i, <1>1, <1>n, <2>1, <2>3 DEF Apart
    <3>2. \A t \in Socket : /\ \A k \in OpsIn(inbox'[t]) : k \notin OpsIn(queue'[user'[t]])
                            /\ \A k \in OpsIn(inbox'[t]) : k \notin Sent(requests', user'[t])
      BY <1>i, <1>t, <1>1, <1>4, <1>n, <2>1, <2>3 DEF Apart
    <3> QED
      BY <1>i, <1>1, <1>4, <3>1, <3>2 DEF Apart
  <2>6. Orderly'
    BY <1>i, <1>1, <1>4, <2>3 DEF Orderly
  <2>7. Numbered'
    BY <1>i, <1>1, <1>4 DEF Numbered
  <2> QED
    BY <1>f, <2>4, <2>5, <2>6, <2>7 DEF OrderInv
<1> QED
  BY <1>1, <1>2, <1>3, <1>4

(* What a crash leaves to be read.                                         *)
LEMMA CrashDrains ==
    ASSUME HubTypeOK, OrderInv, NEW h \in Replica, Crash(h)
    PROVE  /\ \A s \in Socket : Drains(s)
           /\ \A s \in Socket : at[s] = h /\ far[s] = "open" => OpsIn(inbox'[s]) = {}
<1>1. /\ UNCHANGED near
      /\ \A t \in Socket :
            \/ inbox'[t] = <<>>
            \/ inbox'[t] = inbox[t] /\ (at[t] = h => far[t] = "closed")
  BY CrashFacts
<1>2. \A t \in Socket : Ascending(inbox[t])
  BY DEF OrderInv, Orderly
<1> QED
  BY <1>1, <1>2, OpsEmpty DEF Drains

(* The hub reads a message of a socket, and forwards it if it is an        *)
(* operation and there is a stream.                                        *)
LEMMA OrderReads ==
    ASSUME HubTypeOK, OrderInv, Linked', NEW s \in Socket, HubReads(s)
    PROVE  OrderInv'
<1>1. /\ inbox[s] # <<>> /\ inbox' = [inbox EXCEPT ![s] = Tail(inbox[s])]
      /\ UNCHANGED <<user, nth, made, connects, queue, near>>
      /\ \/ UNCHANGED requests
         \/ /\ Head(inbox[s]) \in Operation
            /\ requests' = Append(requests, Forwarded(s))
  BY DEF HubReads, HandleClientMessage, editorVars
<1>2. inbox \in [Socket -> Seq(Message)]
  BY DEF HubTypeOK
<1>3. OpsIn(Tail(inbox[s])) \subseteq OpsIn(inbox[s]) /\ Ascending(Tail(inbox[s]))
  BY <1>1, <1>2, OpsTail DEF OrderInv, Orderly
<1>4. inbox'[s] = Tail(inbox[s]) /\ \A t \in Socket : t # s => inbox'[t] = inbox[t]
  BY <1>1, <1>2
<1>5. \A t \in Socket : Drains(t)
  BY <1>1, <1>3, <1>4 DEF Drains, OrderInv, Orderly
<1> QED
  BY <1>1, <1>4, <1>5, OrderDrains, OrderForwards

(* The publication is rejected, and the replica is gone.                   *)
LEMMA OrderRejected ==
    ASSUME HubTypeOK, OrderInv, Linked', NEW s \in Socket, PublishRejected(s)
    PROVE  OrderInv'
<1>1. /\ inbox[s] # <<>> /\ far[s] = "open" /\ Head(inbox[s]) \in Operation
      /\ at[s] \in Replica /\ Crash(at[s])
      /\ requests' = requests \/ requests' = Append(requests, Forwarded(s))
  BY DEF PublishRejected, HubTypeOK
<1>2. UNCHANGED <<user, nth, made, connects, queue>>
  BY <1>1, CrashFacts
<1>3. \A t \in Socket : Drains(t)
  BY <1>1, CrashDrains
<1>4. OpsIn(inbox'[s]) \subseteq OpsIn(Tail(inbox[s]))
  BY <1>1, CrashDrains
<1> QED
  BY <1>1, <1>2, <1>3, <1>4, OrderDrains, OrderForwards

LEMMA OrderStep == HubTypeOK /\ OrderInv /\ [HubNext]_vars => OrderInv'
<1> SUFFICES ASSUME HubTypeOK, OrderInv, [HubNext]_vars PROVE OrderInv'
  OBVIOUS
<1>0. Linked'
  BY LinkedStep DEF OrderInv
<1>t. inbox \in [Socket -> Seq(Message)] /\ near \in [Socket -> {"closed", "opening", "open"}]
  BY DEF HubTypeOK
<1>a. \A s \in Socket : Ascending(inbox[s])
  BY DEF OrderInv, Orderly
<1>k. UNCHANGED <<user, nth, made, connects, requests, queue, inbox, near>> => OrderInv'
  BY <1>0, <1>a, OrderDrains DEF Drains
<1>1. ASSUME NEW e \in Editor, NEW s \in Socket, NEW h \in Replica,
             Accept(e, s, h) \/ Refuse(e, s, h)
      PROVE  OrderInv'
  BY <1>0, <1>1, OrderConnects DEF Accept, Refuse
<1>2. ASSUME NEW h \in Replica, Boot(h)
      PROVE  OrderInv'
  BY <1>k, <1>2 DEF Boot, socketVars, editorVars, streamVars
<1>3. ASSUME NEW h \in Replica, Crash(h), UNCHANGED requests
      PROVE  OrderInv'
  BY <1>0, <1>3, CrashFacts, CrashDrains, OrderDrains
<1>4. ASSUME NEW s \in Socket, HubCloses(s)
      PROVE  OrderInv'
  <2>1. /\ inbox' = [inbox EXCEPT ![s] = <<>>]
        /\ UNCHANGED <<user, nth, made, connects, requests, queue, near>>
    BY <1>4 DEF HubCloses, editorVars, streamVars
  <2>2. \A t \in Socket : inbox'[t] = <<>> \/ inbox'[t] = inbox[t]
    BY <1>t, <2>1
  <2>3. \A t \in Socket : Drains(t)
    BY <1>a, <2>1, <2>2, OpsEmpty DEF Drains
  <2> QED
    BY <1>0, <2>1, <2>3, OrderDrains
<1>5. ASSUME NEW s \in Socket, Break(s)
      PROVE  OrderInv'
  <2>1. PICK n \in 0..Len(inbox[s]) : inbox' = [inbox EXCEPT ![s] = SubSeq(inbox[s], 1, n)]
    BY <1>5 DEF Break
  <2>2. UNCHANGED <<user, nth, made, connects, requests, queue, near>>
    BY <1>5 DEF Break, editorVars
  <2>3. /\ OpsIn(inbox'[s]) \subseteq OpsIn(inbox[s]) /\ Ascending(inbox'[s])
        /\ inbox[s] = <<>> => inbox'[s] = <<>>
        /\ \A t \in Socket : t # s => inbox'[t] = inbox[t]
    BY <1>t, <1>a, <2>1, OpsPrefix
  <2>4. \A t \in Socket : Drains(t)
    BY <1>a, <2>2, <2>3 DEF Drains
  <2> QED
    BY <1>0, <2>2, <2>4, OrderDrains
<1>6. ASSUME NEW s \in Socket, EditorCloses(s)
      PROVE  OrderInv'
  <2>1. /\ near' = [near EXCEPT ![s] = "closed"]
        /\ UNCHANGED <<user, nth, made, connects, requests, queue, inbox>>
    BY <1>6 DEF EditorCloses, streamVars
  <2>2. \A t \in Socket : Drains(t)
    BY <1>t, <1>a, <2>1 DEF Drains
  <2> QED
    BY <1>0, <2>1, <2>2, OrderDrains
<1>7. ASSUME NEW h \in Replica, NEW v \in Event, Broadcast(h, v)
      PROVE  OrderInv'
  BY <1>k, <1>7 DEF Broadcast, socketVars, editorVars
<1>8. ASSUME NEW h \in Replica, NEW v \in Event, BroadcastCut(h, v)
      PROVE  OrderInv'
  BY <1>3, <1>8 DEF BroadcastCut
<1>9. ASSUME NEW v \in Event, PublishEvent(v)
      PROVE  OrderInv'
  BY <1>k, <1>9 DEF PublishEvent, socketVars, editorVars
<1>10. ASSUME NEW s \in Socket, HubErrs(s)
       PROVE  OrderInv'
  BY <1>k, <1>10 DEF HubErrs, socketVars, editorVars, streamVars
<1>11. ASSUME UNCHANGED vars
       PROVE  OrderInv'
  BY <1>k, <1>11 DEF vars, socketVars, editorVars, streamVars
<1> QED
  BY <1>0, <1>1, <1>2, <1>3, <1>4, <1>5, <1>6, <1>7, <1>8, <1>9, <1>10, <1>11,
     OrderReads, OrderRejected, OrderOpens, OrderMakes DEF HubNext, Stop

LEMMA OrderInit == HubInit => OrderInv
<1> SUFFICES ASSUME HubInit PROVE OrderInv
  OBVIOUS
<1>1. /\ \A e \in Editor : queue[e] = <<>> /\ connects[e] = 0
      /\ \A s \in Socket : inbox[s] = <<>> /\ nth[s] = 0 /\ near[s] = "closed"
      /\ requests = <<>>
  BY DEF HubInit
<1>2. /\ \A e : Sent(requests, e) = {}
      /\ \A e, k : SentOver(requests, e, k) = {}
  BY <1>1 DEF Sent, SentOver
<1>3. Linked
  BY WatchInit DEF WatchInv
<1>4. Counted /\ Apart /\ Orderly
  BY <1>1, <1>2, OpsEmpty DEF Counted, Apart, Orderly
<1>5. Numbered
  <2>1. user \in [Socket -> Editor]
    BY TypesInit DEF HubTypeOK
  <2> QED
    BY <1>1, <1>2, <2>1 DEF Numbered
<1>6. ForwardedInOrder
  BY <1>1 DEF ForwardedInOrder
<1> QED
  BY <1>3, <1>4, <1>5, <1>6 DEF OrderInv

(* The hub puts an operation on the stream once at most, and those an      *)
(* editor sent over one connection in the order it made them, whatever the *)
(* cuts, crashes and reconnections between (sync-client.ts, the drain of   *)
(* the offline queue; server.ts, on('message')).                           *)
THEOREM OperationsOrdered == HubSpec => []ForwardedInOrder
<1>1. OrderInv => ForwardedInOrder
  BY DEF OrderInv
<1> QED
  BY <1>1, OrderInit, OrderStep, HubTypes, PTL DEF HubSpec
=============================================================================
