# eBug Tracking: TLA+ models and proofs

This directory holds a TLA+ description of the eBug Tracking services, the TLC
configurations that check it on small instances, and TLAPS proofs of its main
safety properties for every instance. Each module names the source file it is
taken from; `PROJECT.json` maps each definition to its lines.

    tlc -workers 2 -config MCIngestion.cfg MCIngestion     # a run
    tlapm DedupProofs.tla                                  # a proof module

## 1. Inventory of the system

### The event pipeline (`services/`, `infra/db/init.sql`)

| Component | State it keeps | Operations that change state | Hard part |
|---|---|---|---|
| NATS JetStream (not in the repository) | stored messages per subject; per durable queue group the waiting and unacked messages and delivery counts | publish, deliver, ack, nak, AckWait expiry, drop after MaxDeliver | at-least-once: duplicates, late redelivery, competing group members |
| PostgreSQL | `bug_reports`, `bug_activity` | INSERT, UPDATEs by four services | several statements per handler and no transaction; keys and foreign keys that refuse |
| Ingestion worker (Go, 3 replicas) | message in hand, `seqCounter` in memory | `handleIngestRequest`: unmarshal, number, INSERT, publish `bug.created`, ack/nak | crash between INSERT and publish; numbers drawn per process |
| Dedup engine (Python, 2) | message in hand; Milvus collection | `process_bug`: embed, search, mark duplicate + publish, or store + publish; ack/nak | search and store are separate awaits; a redelivered bug meets its own embedding; failures that are swallowed |
| Severity scorer (2) | message in hand, for two subjects | `process_message`: fetch, update, record, publish, ack/nak | races with users' transitions; standalone mode |
| Root cause analyzer (2) | message in hand | `process_message`: fetch, analyze (up to a minute), update, record, publish, ack/nak | analysis slower than AckWait |
| API gateway (Fastify, 3) | none of its own, but the JWKS cache of its token check | start-up with migrations and seeds; POST bug (stream, or direct INSERT without NATS), PATCH, POST transition; the endpoints that read | three statements per transition, interleaved with the pipeline; replicas that migrate one database at once; answers put together from statements no transaction ties |
| Token verification (`auth.ts`) | `jwksCache`, shared by all requests of a process | `verifyJWT` with up to three `getJWKS`, each of which may fetch | requests that empty and overwrite the cache between each other's awaits, key rotation, failing fetches |
| WebSocket hub (3) | `ConnectionRegistry`; subscriptions of each client | connect, close, client messages republished, stream events broadcast | one queue group over replicas that each know only their own clients |

Flow: gateway or hub -> `bug.ingest.request` -> ingestion worker ->
`bug.created` -> dedup engine -> `bug.classified` (or `bug.deduplicated`, the
end) -> severity scorer -> `bug.scored` -> root cause analyzer ->
`bug.triaged`. The services share the stream and the database and nothing else.

### The edge (`packages/core-sync`, `plugins/vscode`)

| Component | State | Operations | Hard part |
|---|---|---|---|
| ConnectionManager | socket, status, attempts, timers, intentional-close flag | connect (awaits a token), send, disconnect, reconnect, heartbeat, reconnect timer | the await in `connect`; callbacks of an old socket |
| OfflineQueue | bounded queue, processing flag | enqueue (drops the oldest), retry, remove, drain (awaits each send) | mutation during drain |
| SyncEngine | state, queue and connection | createBug, transitionStatus, sendTelemetry, start/stop | sent but not stored; drain on reconnect |
| VS Code AuthManager | tokens in memory and in SecretStorage, refresh timer, pending login | getToken, login, refresh, logout | all of them across awaits: a refresh or a load racing a logout |
| VS Code tree, annotations, panel | the bugs listed, the diagnostics per file, the panel | refreshBugs, showBugDetails, events of the sync engine | refreshes that overlap each other and events |

### The dashboard (`apps/dashboard`)

The client keeps a token and falls back to `dev-token` on a 401. Each page's
effect loads from the gateway, is cancelled when the user leaves, and the
overview loads again every 30 seconds. Hard: loads that overlap, answers for an
address that was left, and figures that two pages compute from different
endpoints.

### Everything else

The severity model (`model.py`, `features.py`), the LLM client and prompts,
protocol type declarations and deployment files. `PROJECT.json` says of each
component whether it is modelled and why not.

### What makes each component correct

- Stream consumers: an event is either owed to the next service or answered;
  nothing is acked before its effect is out.
- Ingestion: a row is announced once, with the id it is stored under; a report
  answered 201 is not lost without a trace.
- Dedup: a duplicate leads to a findable bug of the same organisation; a bug
  gets one verdict, and the row agrees with the event.
- Scorer and analyzer: they respect statuses people have set; an event is a
  receipt for the row and the audit entry.
- Gateway: a transition is applied and logged, and the trail explains the
  status; a start leaves a database that serves; a genuine token is served, a
  withdrawn key is not.
- Sync client: what the user created is sent once connected; one live socket.
- Hub: its registry is what it can reach; an event reaches those of its
  organisation who watch its file; what a client sends gets on the stream.
- Editor: a logout lasts; the annotations are those of the bugs in the tree; a
  bug does not vanish from it.
- Dashboard: pages show the bug of their address, end up current, and agree.

## 2. Modules

| Module | Models | State |
|---|---|---|
| `JetStream` | the stream and the durable consumers as the services use them | `published`, `ready`, `unacked`, `deliveries` |
| `BugStore` | the two tables and every SQL statement that changes them | `rows` and one function per column; `activity` |
| `Platform` | stream + store + the fault budget; a submission; a statement of a replica without a pool (`Sql`, `Detached`) | `faults` |
| `IngestionWorker` | `handleIngestRequest`, and the worker on its own (`IngestionSpec`) | `iw`, `seqCounter`, `publishErrors` |
| `DedupEngine` | `process_bug` and the Milvus collection, and the engine on its own (`DedupEngineSpec`) | `dw`, `vectors` |
| `SeverityScorer` | `process_message` on `bug.classified` and `bug.score.request` | `sw` |
| `RootCauseAnalyzer` | `process_message` on `bug.scored` | `rw` |
| `Gateway` | POST bug without NATS; PATCH; the status transition | `gw`, `requests`, `resolvedAt` |
| `Standalone` | gateways without a stream (as `render.yaml` deploys them) on one database: start, migrations, seeds, requests | `boot`, `starts`, `schema`; history `excused` |
| `ReadApi` | the endpoints that read, statement by statement | `history`: the states the table went through |
| `Dashboard` | the dashboard's client and pages over `ReadApi`, and the figures they show | `page`, `bugs`, `stats`, `bug`, `loads`, `token` |
| `TokenVerification` | `authMiddleware` and the JWKS cache | `jwksCache`, `call`; the provider's `published` |
| `BugPipeline` | all of the above composed | |
| `BugLifecycle` | the abstract specification: facts about a bug, and what each rests on | `facts` |
| `SyncClient` | ConnectionManager, OfflineQueue, SyncEngine and the extension's `toggleSync`; apart from the services, whose hub is its environment | `status`, `isDestroyed`, `socket`, `ws`, timers and intervals, `queue`; histories `made`, `sent`, `starts` |
| `AuthManager` | the extension's session | `tokenSet`, `stored`, `refreshTimer`, `task`; histories `overtaken`, `refused`, `signedOut`, `leftover` |
| `Editor` | the extension's tree, annotations and panel | `tree`, `diagnostics`, `panel`, `job` |
| `Hub` | the replicas of the WebSocket hub, with the editors, the network and the publishing services as far as they meet it | per replica `up`, `js`, `subscribed`, `sessions`, `orgIndex`; per socket its two ends `near` and `far`, `broken`, `inbox`, `watchedFiles`; per editor `link`, `queue`; the stream's `requests` and `eventState`; histories `received`, `promised`, `made`, `connects`, `nth` |
| `MCIngestion`, `MCDedup`, `MCPipeline`, `MCStandalone`, `MCSync`, `MCHub`, `MCTokens`, `MCAuth`, `MCEditor`, `MCDashboard` | instances | |
| `IngestionProofs` (and the stream's lemmas), `DedupProofs`, `PipelineProofs`, `StandaloneProofs`, `HubProofs`, `SyncProofs` (`SyncClient` and `Editor`), `TokenProofs` (`TokenVerification` and `AuthManager`), `DashboardProofs` | proofs | |

### How the models correspond to the code

*Atomicity.* A handler is cut at every call that leaves the process (SQL
statement, vector store call, publish, ack). Between two such calls another
replica, the server's AckWait timer or a crash can come. Code between two calls
is part of the action of the call. A replica is a record `[pc, msg, bug, ...]`,
`pc` naming the call it makes next; `Idle` is a replica that waits for a message.

*Faults.* A call that raises, a lost answer, a crash and an AckWait that runs
out on a live handler are actions that use up the budget `MaxFaults`. Where the
two outcomes of a lost answer differ, both are there: `PersistFails` may have
committed the row, `PublishCreatedFails` may have stored the event. A Python
handler whose publish was stored and whose answer was lost naks, and that is the
same behaviour as `...Raises` at the following ack. An AckWait that runs out on
a message nobody holds (its handler died) is not a fault but the recovery, and
needs no budget.

*Prefetching.* A Python client may buffer a message for its replica before the
handler starts. In the models a message is delivered when its handling begins; a
buffered message whose AckWait runs out is a replica that stays at its first
step while the message is redelivered, so that the buffer adds no order of
effects the models lack.

*Data.* Bugs, reports, replicas, texts and organisations are model values. Which
submissions are similar enough (`Close`) and which have the same text
(`SameText`, ranked first by the search) are constants; scores, analyses and
texts are left out. `NewId[r][n]` is the row id of a report at its n-th
delivery: the same at each delivery when the payload carries an id, another one
each time when the worker draws it. `Insertable` are the reports whose columns
the table accepts.

*Columns.* Only columns a property speaks of are kept, each as a function of the
primary key. `is_duplicate` and `canonical_id` are written together and kept as
one. `resolved_at` is kept by the gateway, which alone writes it.

*Delivery counts* are exact where the code limits them (`MaxDeliver(5)` on
`ingestion-workers`) and saturate at 2 elsewhere, where only "more than once"
matters.

*The sync client* runs in one thread: an action is one task of the event loop
with the microtasks that follow it, and what comes between two tasks is the
token provider's answer, a timer, a socket event or the user. The extension
gives the queue no persistence, so a drain awaits microtasks only and is part of
the `onopen` task. `connect()`, `scheduleReconnect()` and `startHeartbeat()`
overwrite a handle without ending what it named; such a socket keeps its
callbacks, such a timer still fires (`strayTimers`, `strayHeartbeats`). Sockets
are names, used again after a close; the message contents and the backoff delays
are left out, so a timer may fire at any time after it is set.

*The hub* runs in one thread per replica, and an action is one task of it. Its
start is a single action, because it listens only after its subscriptions are
made or have failed; it then has a stream client or not (`js`) and some of the
four subjects in their order (`subscribed`). A socket is a name with two ends,
which open and close apart from each other: `far` is the replica's readyState,
`near` the editor's. A cut connection (`Break`) delivers a prefix of what was on
the way, and each end notices by itself; what arrived before is read before the
close event. `handleClientMessage` does not await its publish, and a rejected
one is an unhandled rejection, which ends the process (`PublishRejected`), with
the message stored or not. The queue group is durable in the model: an event
that a replica took and did not ack is pending again. The NATS client library
is not in the repository; where it refuses the options the hub gives
`js.subscribe`, the replica is in the state of `Boot` with `js` and no subject.
`promised` is a history of the property below: the sockets that were fit to
carry an event when it was published, less those that were cut or whose replica
left it to another.

*The gateway alone.* A query of several statements without `BEGIN` is one
transaction for PostgreSQL, so that a start is four steps (tables, indexes,
accounts, samples), between which another replica starts or serves. A start that
PostgreSQL refuses ends the process, and the deployment starts it again. The
sample bugs keep their `EBUG-1001` to `EBUG-1007`, which inserted bugs may draw
as well. A transition is SELECT, UPDATE, INSERT, a PATCH is UPDATE, INSERT.
`excused` are the bugs of which two requests overlapped, or of which one broke
off after its UPDATE: there the code makes no promise about the trail.

*Token verification* runs in one thread; a call of `getJWKS` that fetches is
asked, answered with the provider's keys of that moment, and arrived, and other
requests run between. Of a token the model keeps its key id and whether the
signature is genuine. The provider rotates keys at will. `steady`, `seen`,
`vouched` and `failed` are histories of a request.

*The session* of the extension is the number of its token set. SecretStorage
takes requests in their order, and their callers go on later. It may refuse any
of them, and then keeps what it has: a load that rejects makes `getToken` throw
(auth.ts:282), a refused store leaves the new session in memory and skips
`scheduleRefresh` (`SaveRejected`), a refused deletion leaves the session stored
and the timer running (`DeleteRejected`). `login()` awaits
the callback (auth.ts:108) before it opens the browser page that leads to it
(auth.ts:114), so a login can only end by its timeout or by a stray request, and
`exchangeCode` is never reached. A refresh may answer at any time, also after a
logout: `leftover` are the tasks that were loading or refreshing then.

*The editor's lists.* A command is three awaits (token, API, body) and is cut at
each; events come between. `bug_created` carries the worker's field names, hence
no `codeLocation`, and adds to the tree only, without an annotation; the hub's
`bug_updated` has no `currentState`, so that its handler throws before it changes anything. That
every `getToken` returns or throws is `CallsAnswered` of `AuthManager`; the two
modules share nothing else, and their product has more than 20 million states.

*The dashboard.* The endpoints read the table statement by statement; an answer
is remembered as the number of the table state it read, so that "current" and
"of one moment" can be said. A load is one run of an effect. It is cancelled
when the user leaves, and the overview's interval starts one whether or not the
last has ended. What is computed from the answers are operators of `table` and
the rows listed.

## 3. Runs

Passing runs (states with their distinct states):

| Run | Instance | Checks |
|---|---|---|
| `ingestion` (52 k) | 2 workers; a report with an id, one without, one malformed; MaxDeliver 2; 2 faults | `OneAnnouncement`, `AnnouncedAsStored`, `NoSilentLoss`, liveness `RequestsSettle` |
| `dedup` (117 k) | 2 engines; 3 bugs, two of one text, one of another organisation; 1 fault | `CanonicalIndexed`, `ChainsNeedRedelivery`, `OneVerdictPerDelivery`, `NoBugForgotten`, liveness `VerdictReached` |
| `pipeline` (896 k) | all services, one report, 2 faults anywhere, one user request at any time | `EventsAreReceipts`, `NoEventDropped`, refinement `LifecycleKept`, action property `StatusRespected` |
| `pipeline_live` (100 k) | all services, one report and a score request with the fields, before or after the row; 1 fault, an analyzer without database | liveness `BugsConclude`, `InlineRequestsConclude` |
| `standalone` (1.7 M) | 2 gateways started 4 times in all, a sample bug, a report that may draw its external id, 4 requests, 2 faults | `TrailExplains`, `StartsFit` |
| `sync` (391 k) | one client: two reports and a status note, a queue of 2, 3 socket names, 2 toggles and 3 faults at any time | `OneLine`, `StillTrying`, `ConnectedIsLive`, `SentInOrder`, `ReportsKept`, action property `StopBringsNothingUp`, liveness `QueueReplayed` |
| `hub` (329 k) | 2 replicas; an editor who watches one file and makes two operations, another who watches everything; 3 sockets; the creation of a bug in a file the first does not watch; 1 fault | `RegistryExact`, `CreationsReachEditors`, `ForwardedInOrder`, action property `UnwatchedOnlyAtFirst`, liveness `OperationsForwarded`, `EventsTaken` |
| `tokens` (1.4 M, symmetry) | 2 requests at once, again and again; 2 keys; 2 failing fetches; any rotation | `GenuineServed`, `WithdrawnRefused` |
| `session` (90 k) | 2 tasks at once, a session stored or not, 2 refreshes, a storage that may refuse any request, restarts | `HeldIsStored`, `SignedOutStaysOut`, liveness `CallsAnswered` |
| `editor` (51 k, symmetry) | 2 commands at once, 3 bugs of which 2 in files, a page of 2 | `AnnotationsMatchTree`, action property `BugsStayListed` |
| `dashboard` (1.1 M) | 2 loads at once, 6 addresses, 1 failure, an expiring token; a table of 2 rows and a write, or one of 4 or 6 rows with two duplicates of one bug, all statuses between them; a listing of 4 (the list page's of 3) | `FiguresAgree`, action property `DetailIsOfAddress`, liveness `OverviewConverges` |

`CreationsReachEditors` is a promise with conditions, and they are the code's:
the connection lasts, and the replica that acks the event is the editor's own.
With two replicas the queue group gives each event to one, so the clients of the
other never hear of it; no document says they should, so this is a condition and
no finding. `ForwardedInOrder` orders what went over one connection; what a
broken connection still had to deliver can be read after the first messages of
the next (TLC refutes the property without that condition). `UnwatchedOnlyAtFirst`
excepts the time until the subscribe message is read, in which the session
watches everything. A scorer that starts without its database acks every
`bug.classified` as "not found, skipping" (severity-scorer/main.py:211); the
pipeline's runs give the scorer its database.

`OneLine`'s part on heartbeats, `SentInOrder` and `QueueReplayed` are
stated of a client that was started once. A user who toggles while the client is
'reconnecting' calls `start()` again with a timer pending, both attempts open a
socket, and the two sockets' callbacks then act on one status, one heartbeat and
one queue: without the condition TLC refutes each of the three. `ReportsKept`,
`StillTrying` and `ConnectedIsLive` hold through that as well. `ReportsKept`
allows the full queue to drop a report, whatever else is in it, and
`StopBringsNothingUp` allows the `connect()` that `stop()` found at its await to
open its socket; `SyncOverflow.cfg` and `SyncStop.cfg` (below) show both.

`TrailExplains` excuses bugs whose requests overlapped: both then remember the
same old status, and the trail tells a change that was none. `StartsFit` depends
on the order of a start: the samples are in before a process listens, so no
report can take their numbers (a process that listened first would be refused
at its next start). `GenuineServed` allows a failing fetch of the request's own,
and `HeldIsStored` and `SignedOutStaysOut` except the load or refresh that was
under way when the session was replaced or the user logged out: TLC refutes both
without that. They also except what the storage refused, and only so far: a
session that was not stored may be held beside an older stored one or none, and
never beside a newer, and a logout promises nothing if its deletion was refused.
`BugsStayListed` excepts an answer that is older than the event, which makes a
listed bug vanish until the next refresh. `AnnotationsMatchTree` says that the
annotations are those of the listed bugs of the last refresh; of the bugs that
events brought in since then it says that they have none. `FiguresAgree` holds of
every table: what a page counts in its listing is short of the statistics by the
rows that were not listed at most (by none where the table fits), and the open
bugs of Analytics exceed the overview's by those `wont_fix`, which Analytics
counts as open and the overview does not.

One run finds a documented statement violated:

| Run | Statement | What the code does |
|---|---|---|
| `hub_updates` | README.md:38 "-> bug.triaged -> WebSocket Hub -> Dashboard/IDE" | only the worker's `bug.created` carries an `org_id`; of the other three subjects the hub finds no organisation, hence no client, and acks the event |

Four more configurations are kept for their counterexamples. They are not among
the runs of `PROJECT.json`; `tlc -config SyncStop.cfg MCSync` and the like end at
once with the behaviour described:

| Configuration | Statement | What the code does |
|---|---|---|
| `SyncOverflow.cfg`, `NonCriticalFirst` | offline-queue.ts:44 "If at capacity, drop oldest non-critical items" | line 46 shifts the oldest operation of any type: a report is dropped while a note waits |
| `SyncStop.cfg`, `StoppedStaysDown` | connection-manager.ts:90 "Gracefully disconnect", sync-engine.ts:70, extension.ts:363 "Sync disabled" | `connect()` opens its socket after the await of the token (line 45) without looking whether it was stopped meanwhile: the client is connected and sends |
| `SyncStart.cfg`, `StartConnects` | sync-engine.ts:63 "Start the sync engine - connect and begin streaming", extension.ts:366 "Sync enabled" | `disconnect()` sets `isDestroyed` for good (line 92), and `connect()` then returns at line 38: a client toggled off and on begins no attempt |
| `EditorEvents.cfg` on `MCEditor`, `ListedIsAnnotated` | extension.ts:9 "Map sync events -> VS Code Diagnostics (inline annotations)" | a created event has `file_path` and no `codeLocation`: `addDiagnostic` (called at line 142) returns, and the bug is in the tree without an annotation |

### Where code and words part

Modelled as the code has it, and part of what the properties above allow for:

- main.go:341 says "downstream can catch up" of a row whose `bug.created`
  failed; it is acked, and nothing reads the table for it (`NoSilentLoss` counts
  it as a logged failure).
- Workers number from 1 in memory (main.go:320) while the sequence
  `bug_external_id_seq` of init.sql is not used. The second of two fresh replicas
  is refused by UNIQUE at each delivery, until the report is dropped; in
  `NoSilentLoss` its deliveries are used up. `scripts/e2e-test.mjs:110`
  expects the created bug.
- dedup main.py:7 "links to canonical bug": a redelivered bug finds its own
  embedding (line 375) and is closed as a duplicate of itself.
  `ChainsNeedRedelivery` says that this takes a redelivery.
- The four statements of the table above: a full queue drops a report before a
  note, a stopped client can come up connected, one that is started again never
  connects, and bugs that events bring are not annotated.
- auth.ts:120 "clear tokens and stop refresh timer": where the storage refuses
  the deletion (line 124) the stored session and the timer stay, and a restart
  signs in again. A load or a refresh that was under way at the logout brings the
  session back (`leftover`). Where the storage refuses a new session (line 277)
  the caller is sent to log in although a valid one is held (lines 80-86).
- `login()` awaits the callback before it opens the browser page (above).
- `GET /bugs/:id` compares `id = $1 OR external_id = $1`, of which one is a UUID
  and the other text. `BugDetail` reads `activities` of an answer that has
  `activity`, and so shows no live activity. The pages' limit of 200 is clamped
  to 100. The overview's "Resolved (7d)" shows the bugs created in 24 hours.
- From one bug's page to another's the old bug stays until the new one is
  loaded. Where the gateway does not accept the dev token, a client refused once
  is refused until it is loaded again; `OverviewConverges` is stated, and checked,
  of a deployment that accepts it, as `render.yaml` does.
- `isValidTransition` of core-proto has no caller: the gateway lets a bug go from
  every status to every other.

### Bounds, and why they are enough

- *Replicas*: two of a group show every interleaving of two handlers of one or
  two messages, and each property relates at most two handlers. In the composed
  runs one replica per service suffices to overtake: a restart or a late expiry
  lets a message meet a second handling, and the replicas of different services
  interleave.
- *MaxFaults*: each property's hazard needs one or two faults (a crash after
  INSERT; a late expiry and then a crash). The proofs of the ingestion and
  dedup properties hold for any number.
- *MaxDeliver* 2 instead of 5: first delivery, redelivery, and the drop after the
  last one.
- *MaxCopy*: a copy more than the faults that can cause one, so that it never
  stops a publish; *MaxSeq*: a number for every delivery, likewise (a worker
  that restarts begins again at 1).
- *MaxRequests* 1 in the pipeline, whose own updates are the other party of the
  race; 4 in `standalone`: two overlapping requests of one bug, and two more that
  build on what they left. *MaxStarts* 4: each replica starts and is replaced.
- *MaxToggles* 2: off and on again, or on while reconnecting and then off; after
  a stop `start()` returns at once, so that more toggles add nothing.
  There is a socket name
  more than toggles, so that a name is free for each `new WebSocket`
  (`SyncAssumption`; `OneLine` is why that is enough). *MaxQueue* 2 with three
  operations reaches the full queue. An instance with four operations (4 million
  states) gives the same results.
- *Hub*: two replicas and two editors are the parties of every property; three
  socket names let both editors reconnect beside a connection whose hub end is
  not closed yet. Every fault of the code's environment is among the one fault:
  a crash or SIGTERM, a cut, a refused token, a rejected publish, a start
  without stream or with part of the subjects, an end between send and ack.
  The safety properties were also checked with two faults and one editor (864
  thousand states) and with two events (2.4 million).

- *Tokens*: two requests share the cache; a third adds another like them, and
  the proofs hold for any number. Two keys are the one a token names and another.
- *Session*: each race is between two tasks (a call, the timer, a command), of
  which one goes on while the other awaits; three token sets are stored,
  refreshed, and refreshed again. Nothing bounds the storage's refusals. The
  safety properties were also checked with three tasks (383 thousand states under
  symmetry), and are theorems for any number.
- *Editor*: two commands overlap; three bugs fill a page of two and one over.
- *Dashboard*: two loads are an old answer and a new one; one write falls between
  any two statements. A figure is computed from one table, so that the tables
  `FiguresAgree` is about need not be written to (`MaxRows`): one fills a listing,
  one has two rows over, so that the canonical bug of two listed duplicates is
  not listed and that of another is; every status occurs, `wont_fix` among the
  listed. `FiguresAgree` was also checked with tables of five rows after any two
  moves between all seven statuses (862 thousand states).

Deadlock is not checked in `ingestion`, `dedup`, `pipeline`, `pipeline_live`,
`standalone`, `sync` and `hub`: these end when the work is done and the budget
of faults is used up, and nothing obliges users to do more. In the other four
somebody can always go on, and it is checked.

Each module states its types in one invariant. They are theorems (section 4) and
not repeated in the runs, except `EditorTypeOK`, which holds in the instance above.

### Fairness

Weak fairness of each replica's normal steps (`IngestWork`, `DedupWork`,
`ScorerWork`, `AnalyzerWork`): a process that is up runs its event loop, its
calls return or raise within their timeouts, and a process that is down is
restarted (Kubernetes deployments). Weak fairness of the expiry of messages
nobody holds: the server's AckWait timer. Nothing is assumed about faults, users
or producers. Liveness holds although a fault may hit anywhere, because a
behaviour has finitely many; a message that raised every time would be
redelivered without end by the three AI consumers, which set no limit.

For the sync client: weak fairness of the token provider's answer, of timers
that are due, and of each socket's open and close events. Nothing is assumed
about the user, refusals or drops; the latter are finitely many.

For the hub: weak fairness of a replica's restart, of its reading and its close
events, of an editor's attempts to connect (its reconnect timer), and of
the taking of an event by some replica that can.

For the session: weak fairness of every task's continuation; the storage, the
provider and the callback's timeout answer in some way, or reject. For the dashboard: weak
fairness of each load's statements, refusals and end, and of the interval.
Nothing is assumed about the user, writers, expiry or failures.

## 4. Proofs

All theorems hold for every value of the constants that satisfies the named
assumptions (`StreamAssumption`, `StoreAssumption`, `PlatformAssumption`,
`IngestAssumption`, `DedupAssumption`, and those named below), any number of replicas, bugs, faults and
deliveries. The runs evaluate these assumptions on their instances.

`IngestionProofs` begins with what each stream operation and the INSERT do to
one consumer and one row; `DedupProofs` and `PipelineProofs` extend it and cite
these lemmas.

`IngestionProofs` proves `IngestionTypeOK`, `OneAnnouncement`,
`AnnouncedAsStored` and `NoSilentLoss`. None is inductive alone: that a row is
announced once needs to know that two replicas can never both stand between
INSERT and publish with one row (the primary key let one of them through), and
that a replica there holds a row nobody announced. `IngestionInv` adds this
(`Publishing`), what is known at the ack (`Acking`), that a busy replica handles
a row of its own message (`AtWork`), and the queue's bookkeeping (`Budget`: what
waits has deliveries left, which bounds the delivery number `NewId` is applied to).

`DedupProofs` proves `DedupEngineTypeOK`, `CanonicalIndexed`, `NoBugForgotten`,
`OneVerdictPerDelivery` and `ChainsNeedRedelivery`. The strengthening `DedupInv`
rests on `FirstDelivery`: while the event of a bug was delivered once at most, a
single replica works on it, has taken a single branch of `process_bug`, and the
collection, the row and the stream show that branch only. A bug that is in the
collection and closed as well was therefore delivered twice, whatever the other
replicas did, which is what the last two theorems say. `Feed` and `Handling` tie
events, rows and replicas together, `Matches` says a match is an indexed row of
the organisation (so the foreign key accepts it), `Verdicts` that the row
changes before the event and the event before the ack. The engine's environment
`Ingested` publishes one event per row: `OneAnnouncement`, proved for the worker.

`PipelineProofs` proves all safety properties of the composed pipeline. The
services meet only on the stream and in the table, so that the proof goes by
*footprints*: one lemma per service says which queues its steps read, on which
subjects they publish and which columns they write, and the invariants of the
other services are preserved because what they speak of is elsewhere or only
grows. In this way `IngestionInv` and `DedupInv`, proved of one service with the
stream, become invariants of the composition, and with them `PipelineIngests` and
`PipelineDedups` (`OneAnnouncement`, `AnnouncedAsStored`, `NoSilentLoss`;
`CanonicalIndexed`, `NoBugForgotten`, `OneVerdictPerDelivery`,
`ChainsNeedRedelivery`). Scorer and analyzer get theirs (`ScorerInv`,
`AnalyzerInv`): what a task has behind it at each program counter, so that the row
and the trail hold the result before the event is out and the event is out before
the ack. `EventsAreReceipts` and `NoEventDropped` are read off these.
`StatusRespected` is a statement of the steps: each service writes the status
through one guarded UPDATE. `LifecycleImplemented` is the refinement: initial
states map to initial states, and a step that makes a fact known makes it known
after those it rests on. It is stated for scorer tasks that have found their
database: one without it does not read the row and may announce the score of a
bug that is not stored, and TLC refutes the refinement for an instance of such a
scorer with a score request. The run's instance is one of those the theorem
covers.

`SyncProofs` proves all safety properties of the client, under
`SyncAssumption`, in layers. `StatusInv` is inductive by itself: the
types, `Flags` (what a stopped client cannot show, and that an interval beats
only beside a socket that will be closed), `StillTrying` and
`ConnectedIsLive`. `LineInv`, that is `OneLine` and `Drained` together, is
inductive on top of it: each step hands an attempt on (token request to socket,
socket to timer, timer to token request) and only `start()` adds one, which the
proof counts with `Cardinality(InUse)`; a client with one attempt has no second
socket whose callback could leave the queue full beside an open one. `QueueInv`
relates the three sequences: no operation is made twice, what is queued was made,
at least as many operations that were made after each and are sent or queued as
stand behind it, and a report that is neither sent nor queued has `MaxQueue` such
operations after it (`Placed`); these are counted as sets of positions of `made`
(`After`), which enqueueing, replaying and sending only let grow, whatever the
sockets do. This gives `ReportsKept`. `StoppedBringsNothingUp` is a statement of
the steps: one that leaves sync off hands an attempt on at most, since all that
would begin one is behind `isDestroyed`. On top of
these `SentAsOrdered` proves `SentInOrder`: a queue is in the order of `made` and
later than everything sent (`Ordered`); a direct send finds the queue empty
(`Drained`), a replay sends what comes next, and a full queue loses its oldest.

`HubProofs` proves `HubTypeOK` and all safety properties of the hub, under
`HubAssumption`. `RegistryExact` is inductive on top of the types; it is
taken apart by socket (`Indexed`, `Live`, `Reachable`), and what a removal and a
crash leave of the two maps are lemmas. `CreationsReachEditors` needs `ReachInv`:
a promised socket carries to an editor interested in the event, the event is
pending, and a session's filter is empty or its own editor's. The key lemma,
`PromisedInAudience`, is that such a socket is in the audience of its replica
(by `RegistryExact` it is registered and indexed), so that a broadcast which acks
the event reaches the editor and no promise is left open. `UnwatchedOnlyAtFirst`
needs (`WatchInv`) that an open connection whose session does not have its
editor's files yet still has the subscribe message in its inbox, or is one of a
replica without a stream, which broadcasts nothing. `ForwardedInOrder` needs
(`OrderInv`) that an operation is in one place, the editor's queue, an inbox or
the stream (`Apart`), that each place is in the order of making, that what an
inbox holds comes after what was forwarded over its connection (`Orderly`), and
that connections are numbered apart (`Numbered`).

`TokenProofs` proves `TokenTypeOK`, `GenuineServed` and `WithdrawnRefused`, under
`TokenAssumption`. `TokenInv` says what a request under way knows of its key
(`KeyKnown`): published throughout, the key is in the answer the request has;
in that answer, it was published at some moment; and a request asks three times
at most. Nothing need be known of the shared cache: a request that waits goes on
with the answer to its own fetch, and only one whose fetch failed with the cache.

`DashboardProofs` proves `DashboardTypeOK`, in which every figure held or under
way is of a state the table has been in, and `DetailIsOfAddress`, under
`DashboardAssumption` and `ReadApiAssumption`. `LoadsInv` adds that a load which
is not cancelled is one of the current address.

`FiguresAgree` is about functions of one table: its parts are finite, two parts
that share nothing are counted one after the other, the rows not listed are as
many as the table has over the page's size (`ListedAndNot`), so that a listing
lacks no more of any part (`PartListed`), and a duplicate determines its group,
so that pairs of group and duplicate are as many as duplicates. It is proved for
any table whose statuses are those of the schema's CHECK.

`StandaloneProofs` proves `StartsFit`: the samples are in the table, or the table
is empty and nobody listens (`SamplesFirst`), for any number of replicas. It also
proves `TrailExplains`. The invariant (`TrailInv`) says that of a bug that is not
excused one request is under way at most (`Alone`), that this one knows the status
between its SELECT and its UPDATE, and between its UPDATE and its INSERT knows the
status the trail tells last (`Explained`); a row that is inserted, by a report or
a start, has an empty trail and its first status. `StandaloneTypes` proves
`StandaloneTypeOK`, handler by handler, from what the writes of the gateway do to
the table (`WrittenTypes`).

`SyncProofs` also proves `AnnotationsMatchTree` and `BugsStayListed` of the editor,
under `EditorAssumption`: a listing answers with different bugs, newest first
(`PageKnown`), and what the annotations show is the tree from the last refresh on.
`TokenProofs` also proves `AuthTypeOK`, `HeldIsStored` and `SignedOutStaysOut` of
the session (`SessionInv`): while the user is signed out, every task that can
bring a session back is among `leftover`, and a session is stored in the order of
issue, so that one the storage refused is newer than what it holds. Every request
to the storage may be refused there.

All safety properties that the passing runs check, action properties and the
refinement included, are theorems. Only model-checked are the liveness properties,
since fairness and ENABLED are outside the proof system's reach, and of the types
the part of `EditorTypeOK` about `diagnostics`: that the
annotations of a file are a sequence of bugs is a statement about the recursive
function that collects them, for whose induction there is no prover (what
`AnnotationsMatchTree` says of them needs none). The findings are
counterexamples and need no proof.

Some definitions are written for the provers and mean what the shorter form would
mean: `TrailExplains` speaks of positions of the trail and not of the subsequence
of its changes (`SelectSeq` has no axioms there), the total of `Deduplication` is
the number of pairs of a group and a duplicate and not a fold.

## 5. Not modelled

- *Severity model, LLM client and prompts*: functions of a report without state;
  any score and some analysis come out. *Protocol types*: declarations; the gRPC
  service has no implementation. *Deployment*: configuration, from which the
  models take that services have replicas and are restarted.
- *Worker*: the telemetry handler and the blob uploads (best effort, no state
  kept here). *Database*: triggers, and columns no property speaks of; loss of
  stored data. Health and metrics endpoints, logging.
- *Gateway*: health, timeline, teams and users, which are single reads;
  CORS. `requireRole` has no caller.
- *Sync client*: `ConnectionManager.reconnect` and the queue's `dequeue`,
  `retry`, `remove`, `clear` and persistence hooks, which nothing calls; the
  backoff delays.
- *Hub*: the decision on a token (accepted or refused here), the welcome message
  and heartbeat replies, the resume token, which is stored and never read. What
  an operation contains: `create_bug` is forwarded with camelCase fields where
  the worker reads `org_id`; for the worker such a request is one outside
  `Insertable`, whose end is `NoSilentLoss`.
- *Extension*: the panel's HTML, labels, telemetry contents; `exchangeCode`,
  which is not reached; the setting `auth.devToken`, which bypasses the session.
- *Dashboard*: layout; `AITriage`, which loads like the list; Teams, Security and
  Settings, which show constants; the mock data shown where nothing is loaded
  (so the groups Deduplication simulates).

## 6. Plan

1. Done: stream, store, ingestion worker, dedup engine, with proofs.
2. Done: scorer, analyzer, gateway, the composed pipeline and its abstract
   lifecycle; the gateway alone, with its migrations.
3. Done: `SyncClient` and `Hub`, with proofs.
4. Done: token verification with proofs, the editor's session and lists, the
   reading endpoints and the dashboard, with proofs of the latter.
5. Done: the composed pipeline's proofs with the refinement of `BugLifecycle`;
   the order of the hub's operations; the editor's session and lists; the trail of
   the gateway alone; the figures of the dashboard.
6. Left, proofs: what one service promises to the next as assumptions and
   guarantees between `SyncClient` and `Hub`, whose models share only the messages.
7. Left, models: the hub's forwarded operations with their fields, composed with
   the ingestion worker.
