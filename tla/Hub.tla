--------------------------------- MODULE Hub ---------------------------------
(***************************************************************************)
(* services/ws-hub/src/server.ts: the replicas of the WebSocket hub. Each  *)
(* keeps a ConnectionRegistry of its own clients, publishes what they send *)
(* as bug.ingest.request, and takes events from the stream in one queue    *)
(* group with the other replicas, to broadcast them to its clients.        *)
(*                                                                         *)
(* Around it stand the editors (packages/core-sync, here each started once:*)
(* SyncClient has the rest), the network, and the services that publish the*)
(* events. A task of a replica's event loop is an action. Start-up is one: *)
(* the replica listens only when its subscriptions are made or have failed.*)
(***************************************************************************)
EXTENDS Naturals, Sequences, FiniteSets

CONSTANTS Replica, Editor, Socket, Event,
          Org, NoOrg,   \* organisations, and the org_id ?? '' of an event without
          File, NoFile, \* files, and the file_path ?? '' of an event without
          Pattern,      \* entries of a client's filePaths
          Covers,       \* the files that start with or include an entry
          NoSocket,     \* this.ws = null
          OrgOf,        \* the organisation in an editor's token
          WatchOf,      \* the filePaths of an editor's configuration
          SubjectOf, BugOrg, BugFile,   \* what an event is about
          MaxOps,       \* bound: operations of each editor
          MaxFaults     \* bound: faults

(* The subjects in the order of their subscription.                        *)
subjects == <<"bug.created", "bug.deduplicated", "bug.classified", "bug.triaged">>
HubSubject == {subjects[i] : i \in 1..Len(subjects)}

ASSUME HubAssumption ==
    /\ Replica # {} /\ Editor # {}
    /\ NoSocket \notin Socket /\ NoOrg \notin Org /\ NoFile \notin File
    /\ Covers \in [Pattern -> SUBSET File]
    /\ OrgOf \in [Editor -> Org] /\ WatchOf \in [Editor -> SUBSET Pattern]
    /\ SubjectOf \in [Event -> HubSubject]
    /\ BugOrg \in [Event -> Org] /\ BugFile \in [Event -> File \cup {NoFile}]
    /\ MaxOps \in [Editor -> Nat] /\ MaxFaults \in Nat

VARIABLES up, js,               \* of each replica: it listens; it has a JetStream client
          subscribed,           \* the subjects it consumes
          sessions, orgIndex,   \* its registry, by socket and by organisation
          user, at,             \* of each socket: the editor and the replica at its ends
          nth,                  \* history: of its editor's connections, the how manyth
          near, far,            \* its state as the editor and as the replica see it
          broken,               \* it carries nothing any more
          inbox,                \* what the editor sent and the replica has not read
          watchedFiles,         \* of its session
          link, refused, queue, \* of each editor: its socket, if its client rests
                                \* after a clean close, and its OfflineQueue
          made, connects,       \* history: its operations and connections so far
          requests,             \* the stream's bug.ingest.request messages of editors
          eventState,           \* an event is new, pending or acked by the group
          received,             \* history: the events an editor was sent
          promised,             \* history: the sockets an event found open, and
                                \* neither has reached nor is excused to reach
          faults

replicaVars == <<up, js, subscribed, sessions, orgIndex>>
socketVars == <<user, at, nth, near, far, broken, inbox, watchedFiles>>
editorVars == <<link, refused, queue, made, connects>>
streamVars == <<requests, eventState, received, promised>>
vars == <<replicaVars, socketVars, editorVars, streamVars, faults>>

(* An operation is its number among those of its editor; the subscribe     *)
(* message goes without one.                                               *)
Subscribe == 0
Operation == Nat \ {0}
Message == {Subscribe} \cup Operation
Request == [editor : Editor, op : Operation, over : Nat]

HubTypeOK ==
    /\ up \in [Replica -> BOOLEAN] /\ js \in [Replica -> BOOLEAN]
    /\ subscribed \in [Replica -> SUBSET HubSubject]
    /\ sessions \in [Replica -> SUBSET Socket]
    /\ orgIndex \in [Replica -> [Org -> SUBSET Socket]]
    /\ user \in [Socket -> Editor] /\ at \in [Socket -> Replica]
    /\ nth \in [Socket -> Nat]
    /\ near \in [Socket -> {"closed", "opening", "open"}]
    /\ far \in [Socket -> {"closed", "open", "refused"}]
    /\ broken \in [Socket -> BOOLEAN]
    /\ inbox \in [Socket -> Seq(Message)]
    /\ watchedFiles \in [Socket -> SUBSET Pattern]
    /\ link \in [Editor -> Socket \cup {NoSocket}]
    /\ refused \in [Editor -> BOOLEAN] /\ queue \in [Editor -> Seq(Operation)]
    /\ made \in [Editor -> Nat] /\ connects \in [Editor -> Nat]
    /\ requests \in Seq(Request)
    /\ eventState \in [Event -> {"new", "pending", "acked"}]
    /\ received \in [Editor -> SUBSET Event]
    /\ promised \subseteq Socket \X Event
    /\ faults \in 0..MaxFaults

HubInit ==
    /\ up = [h \in Replica |-> FALSE] /\ js = up
    /\ subscribed = [h \in Replica |-> {}] /\ sessions = subscribed
    /\ orgIndex = [h \in Replica |-> [o \in Org |-> {}]]
    /\ user = [s \in Socket |-> CHOOSE e \in Editor : TRUE]
    /\ at = [s \in Socket |-> CHOOSE h \in Replica : TRUE]
    /\ nth = [s \in Socket |-> 0]
    /\ near = [s \in Socket |-> "closed"] /\ far = near
    /\ broken = [s \in Socket |-> FALSE]
    /\ inbox = [s \in Socket |-> <<>>]
    /\ watchedFiles = [s \in Socket |-> {}]
    /\ link = [e \in Editor |-> NoSocket]
    /\ refused = [e \in Editor |-> FALSE]
    /\ queue = [e \in Editor |-> <<>>]
    /\ made = [e \in Editor |-> 0] /\ connects = made
    /\ requests = <<>>
    /\ eventState = [v \in Event |-> "new"]
    /\ received = [e \in Editor |-> {}]
    /\ promised = {}
    /\ faults = 0

Fault == faults < MaxFaults /\ faults' = faults + 1

(* Nothing excuses what these sockets were promised any longer.            *)
Excuse(S) == promised' = {p \in promised : p[1] \notin S}

-----------------------------------------------------------------------------
(* startServer. js is assigned when the connection stands; a subscription  *)
(* that fails ends the loop over the subjects, and the replica listens all *)
(* the same.                                                               *)
Boot(h) ==
    /\ ~up[h]
    /\ up' = [up EXCEPT ![h] = TRUE]
    /\ \/ /\ js' = [js EXCEPT ![h] = TRUE]
          /\ subscribed' = [subscribed EXCEPT ![h] = HubSubject]
          /\ UNCHANGED faults
       \/ /\ Fault
          /\ UNCHANGED <<js, subscribed>>
       \/ /\ Fault
          /\ js' = [js EXCEPT ![h] = TRUE]
          /\ \E n \in 0..(Len(subjects) - 1) :
                subscribed' = [subscribed EXCEPT ![h] = {subjects[i] : i \in 1..n}]
    /\ UNCHANGED <<sessions, orgIndex, socketVars, editorVars, streamVars>>

(* Mutation of Remove: the index of the organisation keeps the session.    *)
RemoveSession(h, s) ==
    sessions' = [sessions EXCEPT ![h] = @ \ {s}] /\ UNCHANGED orgIndex

(* registry.add and registry.remove.                                       *)
Add(h, s, o) ==
    /\ sessions' = [sessions EXCEPT ![h] = @ \cup {s}]
    /\ orgIndex' = [orgIndex EXCEPT ![h][o] = @ \cup {s}]

Remove(h, s) ==
    /\ sessions' = [sessions EXCEPT ![h] = @ \ {s}]
    /\ orgIndex' = IF s \in sessions[h]
                   THEN [orgIndex EXCEPT ![h][OrgOf[user[s]]] = @ \ {s}]
                   ELSE orgIndex

(* registry.getByOrg.                                                      *)
ByOrg(h, o) == IF o \in Org THEN orgIndex[h][o] \cap sessions[h] ELSE {}

(* A socket between editor e and replica h comes into being. Its name was  *)
(* never used, or its ends are closed both.                                *)
Free(s) == near[s] = "closed" /\ far[s] = "closed"

NewSocket(e, s, h, state) ==
    /\ link[e] = NoSocket /\ ~refused[e]
    /\ up[h] /\ Free(s) /\ s = CHOOSE t \in Socket : Free(t)
    /\ link' = [link EXCEPT ![e] = s]
    /\ connects' = [connects EXCEPT ![e] = @ + 1]
    /\ user' = [user EXCEPT ![s] = e] /\ at' = [at EXCEPT ![s] = h]
    /\ nth' = [nth EXCEPT ![s] = connects[e] + 1]
    /\ near' = [near EXCEPT ![s] = "opening"]
    /\ far' = [far EXCEPT ![s] = state]
    /\ broken' = [broken EXCEPT ![s] = FALSE]
    /\ inbox' = [inbox EXCEPT ![s] = <<>>]
    /\ watchedFiles' = [watchedFiles EXCEPT ![s] = {}]
    /\ UNCHANGED <<up, js, subscribed, refused, queue, made, streamVars>>

(* wss 'connection' with a valid token: a session that watches everything, *)
(* and whose messages are read from now on.                                *)
Accept(e, s, h) ==
    /\ NewSocket(e, s, h, "open")
    /\ Add(h, s, OrgOf[e])
    /\ UNCHANGED faults

(* ... with a token that is refused: ws.close(4001), and no handlers.      *)
Refuse(e, s, h) ==
    /\ NewSocket(e, s, h, "refused")
    /\ UNCHANGED <<sessions, orgIndex>>
    /\ Fault

(* ws 'close'. What came before it has been read.                          *)
HubCloses(s) ==
    /\ \/ far[s] = "open" /\ broken[s] /\ inbox[s] = <<>> /\ Remove(at[s], s)
       \/ far[s] = "refused" /\ (broken[s] \/ near[s] = "closed")
          /\ UNCHANGED <<sessions, orgIndex>>
    /\ far' = [far EXCEPT ![s] = "closed"]
    /\ inbox' = [inbox EXCEPT ![s] = <<>>]
    /\ watchedFiles' = [watchedFiles EXCEPT ![s] = {}]
    /\ UNCHANGED <<up, js, subscribed, user, at, nth, near, broken, editorVars,
                   streamVars, faults>>

(* ws 'error', which a 'close' follows.                                    *)
HubErrs(s) ==
    /\ far[s] = "open" /\ broken[s]
    /\ s \in sessions[at[s]]
    /\ Remove(at[s], s)
    /\ UNCHANGED <<up, js, subscribed, socketVars, editorVars, streamVars, faults>>

(* The process of h is gone, and its end of every socket.                  *)
Crash(h) ==
    LET S == {s \in Socket : at[s] = h /\ far[s] # "closed"}
    IN  /\ up[h]
        /\ up' = [up EXCEPT ![h] = FALSE] /\ js' = [js EXCEPT ![h] = FALSE]
        /\ subscribed' = [subscribed EXCEPT ![h] = {}]
        /\ sessions' = [sessions EXCEPT ![h] = {}]
        /\ orgIndex' = [orgIndex EXCEPT ![h] = [o \in Org |-> {}]]
        /\ far' = [s \in Socket |-> IF s \in S THEN "closed" ELSE far[s]]
        /\ broken' = [s \in Socket |-> broken[s] \/ s \in S]
        /\ inbox' = [s \in Socket |-> IF s \in S THEN <<>> ELSE inbox[s]]
        /\ watchedFiles' = [s \in Socket |-> IF s \in S THEN {} ELSE watchedFiles[s]]
        /\ Excuse(S)
        /\ UNCHANGED <<user, at, nth, near, editorVars, eventState>>

(* A crash, or SIGTERM: shutdown() exits without a close frame.            *)
Stop(h) == Fault /\ Crash(h) /\ UNCHANGED <<requests, received>>

-----------------------------------------------------------------------------
(* ws 'message' and handleClientMessage. Without a JetStream client every  *)
(* message is dropped.                                                     *)
Forwarded(s) == [editor |-> user[s], op |-> Head(inbox[s]), over |-> nth[s]]

(* Mutation of HandleClientMessage: subscribe's payload has no filePaths.  *)
HandleNoFiles(s, msg) ==
    /\ UNCHANGED watchedFiles
    /\ requests' = IF msg \in Operation THEN Append(requests, Forwarded(s)) ELSE requests

HandleClientMessage(s, msg) ==
    /\ watchedFiles' = IF msg = Subscribe
                       THEN [watchedFiles EXCEPT ![s] = WatchOf[user[s]]]
                       ELSE watchedFiles
    /\ requests' = IF msg \in Operation THEN Append(requests, Forwarded(s)) ELSE requests

(* on('message'): without a stream nothing is handled.                     *)
HubReads(s) ==
    /\ far[s] = "open" /\ inbox[s] # <<>>
    /\ inbox' = [inbox EXCEPT ![s] = Tail(@)]
    /\ IF js[at[s]] THEN HandleClientMessage(s, Head(inbox[s]))
       ELSE UNCHANGED <<watchedFiles, requests>>
    /\ UNCHANGED <<replicaVars, user, at, nth, near, far, broken, editorVars,
                   eventState, received, promised, faults>>

(* js.publish rejects, and nobody handles the rejection: Node exits. The   *)
(* message may be stored all the same.                                     *)
PublishRejected(s) ==
    /\ far[s] = "open" /\ inbox[s] # <<>> /\ js[at[s]]
    /\ Head(inbox[s]) \in Operation
    /\ Fault
    /\ Crash(at[s])
    /\ requests' \in {requests, Append(requests, Forwarded(s))}
    /\ UNCHANGED received

(* The loop over a subject's messages: the event goes to the sessions of   *)
(* its org_id, if it has one, that watch its file, if it has one.          *)
EventOrg(v) == IF SubjectOf[v] = "bug.created" THEN BugOrg[v] ELSE NoOrg
EventFile(v) == IF SubjectOf[v] = "bug.created" THEN BugFile[v] ELSE NoFile

(* Mutation of Matches: no patterns match nothing.                         *)
MatchesListed(patterns, file) ==
    file = NoFile \/ \E p \in patterns : file \in Covers[p]

Matches(patterns, file) ==
    patterns = {} \/ file = NoFile \/ \E p \in patterns : file \in Covers[p]

Audience(h, v) ==
    {s \in ByOrg(h, EventOrg(v)) :
        far[s] = "open" /\ Matches(watchedFiles[s], EventFile(v))}

(* What is sent arrives, on a socket that carries anything.                *)
Send(v, S) ==
    received' = [e \in Editor |->
        IF \E s \in S : user[s] = e /\ ~broken[s] /\ near[s] # "closed"
        THEN received[e] \cup {v} ELSE received[e]]

CanTake(h, v) ==
    eventState[v] = "pending" /\ up[h] /\ SubjectOf[v] \in subscribed[h]

(* Mutation of Broadcast: an event for nobody is skipped and not acked.    *)
BroadcastSkips(h, v) ==
    /\ CanTake(h, v) /\ Audience(h, v) # {}
    /\ Send(v, Audience(h, v))
    /\ eventState' = [eventState EXCEPT ![v] = "acked"]
    /\ promised' = {p \in promised :
          p[2] = v => at[p[1]] = h /\ v \notin received'[user[p[1]]]}
    /\ UNCHANGED <<replicaVars, socketVars, editorVars, requests, faults>>

Broadcast(h, v) ==
    /\ CanTake(h, v)
    /\ Send(v, Audience(h, v))
    /\ eventState' = [eventState EXCEPT ![v] = "acked"]
    /\ promised' = {p \in promised :
          p[2] = v => at[p[1]] = h /\ v \notin received'[user[p[1]]]}
    /\ UNCHANGED <<replicaVars, socketVars, editorVars, requests, faults>>

(* The process ends between the sends and the ack.                         *)
BroadcastCut(h, v) ==
    /\ CanTake(h, v)
    /\ Fault
    /\ Send(v, Audience(h, v))
    /\ Crash(h)
    /\ UNCHANGED requests

-----------------------------------------------------------------------------
(* The services publish an event. The sockets of its organisation that are *)
(* open now, and whose editor watches its file, are promised it.           *)
Carries(s) == near[s] # "closed" /\ far[s] = "open" /\ ~broken[s]

Interested(e, v) ==
    /\ OrgOf[e] = BugOrg[v]
    /\ \/ WatchOf[e] = {} \/ BugFile[v] = NoFile
       \/ \E p \in WatchOf[e] : BugFile[v] \in Covers[p]

PublishEvent(v) ==
    /\ eventState[v] = "new"
    /\ eventState' = [eventState EXCEPT ![v] = "pending"]
    /\ promised' = promised \cup
          {<<s, v>> : s \in {t \in Socket : Carries(t) /\ Interested(user[t], v)}}
    /\ UNCHANGED <<replicaVars, socketVars, editorVars, requests, received, faults>>

(* The network cuts a socket; some of what was sent has arrived.           *)
Break(s) ==
    /\ Fault
    /\ ~broken[s] /\ near[s] # "closed" /\ far[s] # "closed"
    /\ broken' = [broken EXCEPT ![s] = TRUE]
    /\ \E n \in 0..Len(inbox[s]) : inbox' = [inbox EXCEPT ![s] = SubSeq(@, 1, n)]
    /\ Excuse({s})
    /\ UNCHANGED <<replicaVars, user, at, nth, near, far, watchedFiles, editorVars,
                   requests, eventState, received>>

(* Mutation of Opened: the drain does not remove what it sends.            *)
OpenedKeepsQueue(s) ==
    /\ near[s] = "opening" /\ ~broken[s]
    /\ near' = [near EXCEPT ![s] = "open"]
    /\ inbox' = [inbox EXCEPT ![s] = <<Subscribe>> \o queue[user[s]]]
    /\ UNCHANGED <<replicaVars, user, at, nth, far, broken, watchedFiles,
                   editorVars, streamVars, faults>>

(* Mutation of Opened: the hub attaches its handlers later.                *)
OpenedEarly(s) ==
    /\ near[s] = "opening" /\ ~broken[s]
    /\ near' = [near EXCEPT ![s] = "open"]
    /\ queue' = [queue EXCEPT ![user[s]] = <<>>]
    /\ UNCHANGED <<replicaVars, user, at, nth, far, broken, inbox, watchedFiles,
                   link, refused, made, connects, streamVars, faults>>

(* The editor's socket opens: subscribe, then what waits in the queue.     *)
Opened(s) ==
    LET e == user[s]
    IN  /\ near[s] = "opening" /\ ~broken[s]
        /\ near' = [near EXCEPT ![s] = "open"]
        /\ inbox' = [inbox EXCEPT ![s] = <<Subscribe>> \o queue[e]]
        /\ queue' = [queue EXCEPT ![e] = <<>>]
        /\ UNCHANGED <<replicaVars, user, at, nth, far, broken, watchedFiles, link,
                       refused, made, connects, streamVars, faults>>

(* ... or closes. After a clean close the client stays disconnected.       *)
EditorCloses(s) ==
    /\ near[s] # "closed"
    /\ \/ broken[s] /\ UNCHANGED refused
       \/ ~broken[s] /\ near[s] = "open" /\ far[s] = "refused"
          /\ refused' = [refused EXCEPT ![user[s]] = TRUE]
    /\ near' = [near EXCEPT ![s] = "closed"]
    /\ link' = [link EXCEPT ![user[s]] = NoSocket]
    /\ UNCHANGED <<replicaVars, user, at, nth, far, broken, inbox, watchedFiles,
                   queue, made, connects, streamVars, faults>>

(* createBug and the like: into an open socket, or into the queue.         *)
Make(e) ==
    LET op == made[e] + 1
        s == link[e]
    IN  /\ made[e] < MaxOps[e]
        /\ made' = [made EXCEPT ![e] = @ + 1]
        /\ IF s # NoSocket /\ near[s] = "open"
           THEN /\ inbox' = IF broken[s] THEN inbox
                            ELSE [inbox EXCEPT ![s] = Append(@, op)]
                /\ UNCHANGED queue
           ELSE queue' = [queue EXCEPT ![e] = Append(@, op)] /\ UNCHANGED inbox
        /\ UNCHANGED <<replicaVars, user, at, nth, near, far, broken, watchedFiles, link,
                       refused, connects, streamVars, faults>>

-----------------------------------------------------------------------------
HubNext ==
    \/ \E h \in Replica : Boot(h) \/ Stop(h)
    \/ \E s \in Socket, h \in Replica, e \in Editor : Accept(e, s, h) \/ Refuse(e, s, h)
    \/ \E s \in Socket : \/ HubReads(s) \/ PublishRejected(s)
                        \/ HubErrs(s) \/ HubCloses(s)
                        \/ Break(s) \/ Opened(s) \/ EditorCloses(s)
    \/ \E h \in Replica, v \in Event : Broadcast(h, v) \/ BroadcastCut(h, v)
    \/ \E v \in Event : PublishEvent(v)
    \/ \E e \in Editor : Make(e)

HubSpec == HubInit /\ [][HubNext]_vars

(* Replicas are restarted, their event loops run, editors that wait for a  *)
(* connection try again, and what breaks is noticed.                       *)
HubFairness ==
    /\ \A h \in Replica : WF_vars(Boot(h))
    /\ \A e \in Editor : WF_vars(\E s \in Socket, h \in Replica : Accept(e, s, h))
    /\ \A s \in Socket : /\ WF_vars(HubReads(s)) /\ WF_vars(HubCloses(s))
                         /\ WF_vars(Opened(s)) /\ WF_vars(EditorCloses(s))
    /\ \A v \in Event : WF_vars(\E h \in Replica : Broadcast(h, v))

LiveHubSpec == HubSpec /\ HubFairness

-----------------------------------------------------------------------------
(* A replica's registry has each session in the index of its organisation  *)
(* and no other, has every client it can reach and none whose close it has *)
(* seen, through errors, closes in any order, crashes and new connections. *)
RegistryExact ==
    /\ \A h \in Replica, o \in Org :
           orgIndex[h][o] = {s \in sessions[h] : OrgOf[user[s]] = o}
    /\ \A h \in Replica : \A s \in sessions[h] : at[s] = h /\ far[s] = "open"
    /\ \A s \in Socket : far[s] = "open" /\ ~broken[s] => s \in sessions[at[s]]

(* An editor is sent the creation of every bug of its organisation in a    *)
(* file it watches, if its connection lasted from the publication until    *)
(* the group acked the event, and the acking replica was its own: whatever *)
(* becomes of other replicas and sockets, and of its subscribe message.    *)
CreationsReachEditors ==
    \A p \in promised : SubjectOf[p[2]] = "bug.created" => eventState[p[2]] # "acked"

(* An editor is sent nothing of files it does not watch, except before the *)
(* hub has read the subscribe message of its connection.                   *)
UnwatchedOnlyAtFirst ==
    [][\A e \in Editor : \A v \in received'[e] \ received[e] :
          \/ Interested(e, v)
          \/ near[link[e]] = "opening"
          \/ \E i \in 1..Len(inbox[link[e]]) : inbox[link[e]][i] = Subscribe]_vars

(* An operation is forwarded once at most, and those an editor sent over   *)
(* one connection in the order it made them.                               *)
ForwardedInOrder ==
    \A i, j \in 1..Len(requests) :
        i < j /\ requests[i].editor = requests[j].editor
            => /\ requests[i].op # requests[j].op
               /\ requests[i].over = requests[j].over => requests[i].op < requests[j].op

(* Without a fault every operation of an editor gets on the stream.        *)
OperationsForwarded ==
    \A e \in Editor : \A n \in 1..MaxOps[e] :
        made[e] >= n ~> \/ faults > 0
                        \/ \E i \in 1..Len(requests) :
                              requests[i].editor = e /\ requests[i].op = n

(* An event the services publish is taken from the group, unless every     *)
(* replica that listens failed to subscribe to its subject.                *)
EventsTaken ==
    \A v \in Event :
        eventState[v] = "pending"
            ~> \/ eventState[v] = "acked"
               \/ \A h \in Replica : up[h] => SubjectOf[v] \notin subscribed[h]

(* README.md: bug.triaged goes by the WebSocket Hub to the IDE.            *)
TriagedReachEditors ==
    \A p \in promised : SubjectOf[p[2]] = "bug.triaged" => eventState[p[2]] # "acked"
=============================================================================
