# A verification project for vscode-mssql

This directory models, checks and proves properties of four parts of the `mssql`
extension where concurrency decides correctness: the SQL data plane (the STS2
backend in `services/sts2` and the registry that hands backends to features in
`services/sqlDataPlane`), the metadata engine (`services/metadata`), the disk
cache its windows share (`services/metadata/cache`), and the classic query path
of an editor (`models/sqlOutputContentProvider.ts`, `controllers/queryRunner.ts`,
`controllers/queryNotificationHandler.ts`). All paths below are relative to
`src/extensions/mssql/src/` unless they name a package or a test.

The modules are TLA+; TLC checks them on small instances, TLAPS proves theorems
about them for every value of their constants. `PROJECT.json` lists the runs,
the mutants that show each property can fail, the source lines of each
definition, the hazards and the findings.

## 1. The system

The repository is a fork of vscode-mssql. One extension host process runs the
whole of `extensions/mssql`: a single JavaScript thread, where concurrency is
the interleaving of promise continuations, timers and messages. Two services
run beside it, SQL Tools Service (classic) and STS2, over stdio pipes; webviews
run in processes of their own.

```
 features (Query Studio, metadata, Object Explorer v2, notebooks, ...)
     |  service() / openSession()          ^ session state events
     v                                     |
 SqlDataPlaneService  (one BackendEntry per provider: startup, view, sessions)
     |  factory.create()
     v
 Sts2Backend  (initialize, sessions, query routing)  -- ISqlSession --> Sts2Query
     |  JSON-RPC requests                  ^ notifications
     v                                     |
 STS2 service process

 metadata clients (completion, Object Explorer v2, search, ...)
     |  ensureFresh / acquire / release    ^ snapshots
     v                                     |
 MetadataEntry per database  -- hydrate, digest, definition --> one session
     |  load / save                           of the data plane
     v
 disk cache  (payload, manifest and lock files; every window of the machine)

 editor --> SqlOutputContentProvider (slots, runners by URI) --> QueryRunner
     QueryRunner  -- query/execute, cancel, dispose -->  SQL Tools Service
     QueryNotificationHandler (routes by URI)  <-- query/complete --
```

### 1.1 Components of the core, and what makes them correct

| Component | State it keeps | Operations | Hard behaviour | Correct when |
|---|---|---|---|---|
| **Query lane** `sts2Backend.ts` (`Sts2Query`, 870-1540) | query id, acceptance and completion promises, per-set page ledgers, the lane (a promise chain of sink callbacks), ack high-water, cancel and drain timers | `start`, wire handlers, `cancel`, `disposeQuery`, `synthesizeTerminal`, `finishTerminal`, `enqueue` | notifications before the execute response; five ways to end one query; sink callbacks that throw; acks decided after an await; flow control by credit | one terminal; pages in order; acks only for what the sink took; the handle agrees with the sink; always settles |
| **Backend and sessions** `sts2Backend.ts` (225-870) | availability, the single-flight `initialize`, session map, query routes, orphan buffers, retired ids; each session's state and active query | `start`, `openSession`, `onFatal`, `close`, `dispose`, `registerQuery` | awaits during which the backend is disposed of or fails; late answers after deadlines; closes that overlap | sessions end once, and their query with them; a disposed backend stays so |
| **Registry** `sqlDataPlaneService.ts` | per provider: startup promise, backend, view, fingerprint of its settings, stale mark, session count; per session: finalized | `service`, `openSession` through the view, `handleConfigurationChanged`, `recomposeEntry`, `dispose` | startups superseded while they run; a swap that resumes after an await; two ends of one session | one backend at a time; exact count; stale backends are swapped; callers are answered |
| **Serverless wake** `serverlessWake.ts` | none of its own | `openWithServerlessWake` | an open retried while a database wakes | at most the bounded attempts, one session |
| **Wire protocol** `sts2/wire/v2.ts` | none | parsing of requests and notifications | shape validation | unknown shapes are rejected |
| **Contract** `api.ts` | the `QueryHandle` and `IQueryEventSink` contracts | | | what both ends may assume |
| **Metadata entry** `services/metadata/metadataService.ts` | per database: snapshot and generation, status, a promise-chain lane over one dedicated session, operation epoch, wedged mark, digests, retry ladder and poll, identity latch; the shared validation | `ensureFresh` in three modes, `acquire`, `release`, `refresh`, `validateEntry`, hydrate, digest, definition reads, watchdog, network changes, `dispose` | a watchdog abandons an operation that answers later; results applied after awaits; several callers share one pass; offline periods and failures end timers | abandoned work publishes nothing and shares no session; generations grow; every waiter has work behind it and is answered; drift seen is refreshed |
| **Disk cache** `services/metadata/cache` | per key: payload files, a manifest, a publication lock file | load, save, confirm, quarantine, clear, evict | several extension hosts; crash between two file operations; a stale lock; readers and cleaners without a lock | saves serialize; the manifest names a payload that is there; an older capture never replaces a newer one, unless that is dated in the future; locks go |
| **Classic query path** `sqlOutputContentProvider.ts`, `queryRunner.ts`, `queryNotificationHandler.ts` | execution slots and runners by URI; per runner its flags, promises, listeners and registered URIs; the routes of notifications | `runQuery`, `cancelQuery`, recovery of an orphaned query, `cleanupRunner`, `dispose`, Save As | Save As, cancel and close while a run is set up or executes; a cancel that is never answered; notifications that name only a URI | an editor is blocked only by a run that goes on; what executes can be canceled from its editor; runs settle |

### 1.2 The other components

| Component | State and operations | Hard behaviour | What would make it correct |
|---|---|---|---|
| Metadata store and server catalog `services/metadata` | engines by key; a server-wide catalog with a simpler lane; the limiter of validations shared by entries | entries compete for slots | slots are neither lost nor exceeded |
| URI ownership `uriOwnership` | coordinators of other extensions, context keys | lazy registration of extensions that activate in any order | one owner of a document |
| Headless executor `queryExecution` | one run: rows fetched, timeout, cancellation | timeout and cancellation against completion | one outcome, resources released |
| Native language host `sqlLanguage/host` | per-document pass, debounce timer, circuit breakers | an edit during a sliced pass; failures that open a circuit | results of an old version are dropped |
| Profiler `profiler` | ring buffer of events, session states | overflow, clearing while reading, events after stop | no event twice, ids in order |
| Background tasks `backgroundTasks` | task states, finished-task limit | cancel against completion | a finished task never changes |
| MSAL cache `azure/msal` | token cache file and its lock | several processes lock the file | no write without the lock |
| Query results views `queryResult` | grids and their webview state | late events of a disposed grid | |
| Connections `controllers/connectionManager.ts`, `connectionSharing`, `notebooks` | per-URI connection, pending connects | cancel, disconnect and connect of one URI | the last request wins |
| Change sets, session administration `custom/admin` | none but the plan they run | a transaction of several statements | all or nothing; never throws |
| Object Explorer `objectExplorer` | tree sessions and expansions | late expansions of closed sessions | |
| Language service client `languageservice` | process, download, client | restarts | |
| Controllers, webviews, designers, publish, compare, deployment, copilot, DAB | UI state | request and answer | |

`packages/extension-toolkit` is a library of UI helpers, `tools/perftest` a
benchmark, and the remaining extensions of the repository are packaging.

## 2. The plan

Modules, in the order they are written, the most important behaviour first:

1. `QueryHandle` and `Sts2Query`, with their refinement - **done**.
2. `Sts2Query_proofs`, for types, endings and acknowledgements, and
   `Sts2QueryOrder_proofs`, for the order of pages, whole results and the
   refinement of `QueryHandle` - **done**.
3. `Sts2Backend` and `Sts2Backend_proofs` - **done**.
4. `SqlDataPlane` and `SqlDataPlane_proofs` - **done**.
5. `MetadataEntry`: the lane of one catalog entry, its watchdog, epoch and
   generation, the freshness modes - **done**, and `MetadataEntry_proofs` with it;
   left: `ValidationLimiter`, the semaphore entries share.
6. `NewestCache` and `MetadataCache`, with their refinement: publication of an
   entry by several windows as steps on files, with crashes - **done**, and
   `MetadataCache_proofs` with it; left: the save debounce and the index file.
7. `QueryEditor`: the classic query path - **done**, and `QueryEditor_proofs` with it.
8. The id tables of the backend (64 orphan ids, 256 retired ids) over several
   queries; the retry loop of `serverlessWake`.
9. Native diagnostics scheduler and router; profiler ring buffer against a
   bounded queue; headless executor; connection manager; background tasks; the
   MSAL cache lock; URI ownership.

Compositions: `Sts2Query` is one query of a session that `Sts2Backend` models
with its queries reduced to *submitted, running, settled*; `SqlDataPlane`
models backends reduced to *creating, up, disposing, down*; `MetadataEntry` uses
a session of the data plane, reduced to operations that are answered, fail or
hang; `MetadataCache` is where its snapshots come from and go to, which the entry
sees as an external publication. Each level keeps of the one below exactly what
it observes. The runs stay few: each module has one run per question, and a run
with several properties where one instance serves them all.

Every safety property, action property and refinement the runs check is a theorem
(section 5). Worth proving next: the modules the plan still has, `ValidationLimiter`
first.

## 3. The modules

### 3.1 `QueryHandle` - the contract of a query

What `api.ts` promises to a feature: `accepted` settles once; pages are shown
in order and acknowledged after they were shown; the sink is told one terminal,
which the handle's `completion` then agrees with, unless a sink callback
failed. Six variables and five actions; it knows nothing of wires and timers.

### 3.2 `Sts2Query` - one query, from execute to its end

A step is one run of the JavaScript thread between two awaits, or a step of the
service process.

| Model | Code |
|---|---|
| `accepted`, `completion`, `terminalSent`, `backendId` | the handle's promises and the fields of `Sts2Query` |
| `lane`, `sinkBusy` | the promise chain `enqueue` builds: the queued callbacks, and whether the head was invoked |
| `ledgers`, `receivedPageOrdinal`, `highestAckedPageSeq` | the same fields: pages are *numbered per result set* on the wire and *acknowledged by ordinal over the query* |
| `route`, `orphans` | the backend's `activeQueries`, `orphanEvents` and retired ids, for this query |
| `ReceiveNotification` | the notification handlers of `subscribe`: deliver, buffer or drop |
| `ReceiveAccepted`, `DrainOrphan`, `FinishRegister` | the continuation of the execute response: acceptance, then `registerQuery` replaying the buffer, then `onAccepted` queued |
| `OnWireResultSet`, `OnWireRows`, `OnWireMessage`, `OnWireComplete` | the handlers of the same names, their terminal guard and sequence checks included |
| `StartStep`, `FinishStep`, `FailStep` | one queued callback invoked, settled or thrown, and what the code does after its await (the ack, the settling of the handle) |
| `Cancel`, `ProceedCancel`, `SettleCancel`, `CancelDeadline` | `cancel`, which may wait for the query id, and its completion deadline |
| `Dispose`, `ProceedDispose`, `DisposeAnswered`, `DisposeFailed`, `DrainDeadline` | `disposeQuery` and its drain timer |
| `CloseSession`, `FinishClose`, `LoseSession` | the session endings that reach the query |
| `Svc...` | the STS2 service, external: what its notifications may be, with the credit window that the acks open |

The drain of the orphan buffer is synchronous in the code: while `draining` no
other client action is enabled, only the service's. Faults are chosen by the
constant `Faults`: a lost session, a throwing sink, a gap in the page sequence,
a duplicate terminal.

### 3.3 `Sts2Backend` - sessions and their ends

| Model | Code |
|---|---|
| `availability`, `starting`, `subscribed`, `disposed`, `drain` | the backend's availability, the single-flight `start`, its wire subscriptions, and how far `dispose` went |
| `opens[o]` | one `openSession` call: awaiting `start`, its credentials, the wire, or over; `asked[o]`: the request is still unanswered |
| `sessions`, `state[o]`, `closes[o]`, `awaited`, `query[o]` | the session map, the session's state, its `closeInternal` runs (`awaited` are those `dispose` waits for), its active query |
| `OpenAnswered`, `OpenExpired`, `LateAnswer` | `withDeadline`: the answer, the deadline, or the answer after it |
| `Fatal`, `Close`, `CloseDone`, `Dispose`, `DisposedCloseDone`, `DisposeDone` | the handlers of the same names, split at their awaits |

### 3.4 `SqlDataPlane` - one provider entry of the registry

| Model | Code |
|---|---|
| `entryState`, `startup`, `service`, `fingerprint`, `staleConfig`, `activeSessionCount` | the fields of `BackendEntry`; a startup and its backend share a number |
| `backend[n]`, `builtWith[n]`, `swapping` | where startup n's backend is, the settings it began with, and the disposals a `recomposeEntry` awaits |
| `GetService`, `Created`, `CreateFailed` | `service()`: join or begin a startup, and its settling with the identity check |
| `ConfigurationChanged`, `RecomposeEntry`, `BackendDisposed`, `EndRecompose` | `handleConfigurationChanged`, `recomposeEntry` up to its await and after it |
| `BeginOpen`, `Opened`, `OpenFailed` | an open through the view, and `registerSession`; a backend whose disposal was given up may still let a session in |
| `Finalize`, `SessionEnded`, `CloseReturned` | the record's `finalize`, called by the state event and by the wrapped `close()`, in either order |

### 3.5 `MetadataEntry` - one catalog entry

A catalog is the number of DDL statements its reader saw, so *older* and *newer*
are numbers. One action is one answer of the server, one timer or one call, with
the promise reactions it sets off. Two of these reactions are steps of their own,
taken before anything else happens (`Quiet`), because the order in which they
read what the other wrote matters: the start of the next lane operation
(`Start`), and the callers that resume after a pass settled (`Resume`).

| Model | Code |
|---|---|
| `lane`, `op`, `late`, `opEpoch`, `sessionWedged`, `session` | the promise chain of `enqueue`, the operation that runs, those the watchdog abandoned; the entry's epoch; the wedged mark that makes the next operation recycle the session |
| `snapshot`, `status`, `definition` | the published catalog and its generation; the cached module definition, with the generation it was read in |
| `lastDigest`, `manifestDigest`, `validation`, `validated`, `lastValidation` | the digests compared, the stage of `validationInFlight`, the freshness stamp, the last verdict |
| `polling` | what keeps the poll going: its timer, a tick that awaits a pass, a tick that awaits a validation; `EndTicks` and `SettleTicks` are the `finally` that arms the timer again (2065-2067) |
| `retry`, `failedAttempts`, `identityDrift` | the retry ladder `retryBackoffMs`, the latch set when the session turns out to sit in another database |
| `Hydrate`, `StartOp`, `SkipHydrate`, `SkipDigest`, `SkipDefinition` | `hydrate` (join, or force a follow-up), the start of a queued operation, and its checks of epoch, network and disposal |
| `ReadCatalog`, `Publish`, `FindMismatch`, `AnswerDigest`, `ReadDefinition`, `AnswerDefinition`, `Fail` | the operations' answers |
| `Watchdog`, `LateAnswer` | `withWatchdog`, and the answer after it |
| `RetryTimer`, `PollTick`, `TakeSlot` | the timers, and a validation that gets its slot of the limiter |
| `CutOff` | the follow-up of a pass that settles offline: `hydrate()` clears the timers and begins nothing (970-972). After disposal the code does not call it |
| `AskOffline`, `AllowStale`, `RequireValidated`, `RequireLive`, `CallTimesOut` | `ensureFresh` by mode, and `raceWait` |
| `Acquire`, `Release`, `Refresh`, `PublishExternal`, `NoteAccessChanged`, `SetNetwork`, `Dispose`, `Ddl`, `ExecutedBatch`, `Rename` | the other calls and what happens around the entry |

`Events` chooses the faults of an instance and `MaxFaults` bounds them.

### 3.6 `NewestCache` and `MetadataCache` - the disk cache of one key

`NewestCache` is what the cache promises: one usable entry, replaced only by a
capture that may replace it (not an earlier one of other content, unless the entry
is dated further in the future than `MAX_FUTURE_CLOCK_SKEW_MS` allows, `Ahead`), or
forgotten. `MetadataCache` has one action per file operation; windows are processes
and share nothing but files.

| Model | Code |
|---|---|
| `payload`, `manifest`, `lock`, `stale` | the payload files by content hash, the manifest, `.publication.lock` and its age beyond `PUBLICATION_LOCK_STALE_MS` |
| `AcquireLock`, `FailAttempt`, `SeeStale`, `Sleep`, `RemoveStale`, `GiveUp`, `Unlock` | `withFileLock`: exclusive create, the stat of a held lock, its removal, the attempts and their end, the `finally`; `RemoveLock` is `removeQuietly`, which swallows a failing unlink (fault *unlink*) |
| `CompareNewer`, `CompareSame`, `CompareOlder`, `Rewrite` | the comparison of `saveNow` and its three outcomes |
| `ReadPrevious`, `WritePayload`, `Publish`, `Retire`, `ConfirmLost`, `ConfirmOurs`, `TooLarge`, `WriteFails` | `writeEntry` and the confirmation after it |
| `ReadManifest` ... `SetAside`, `Return` | `readEntry` with its one retry, and `quarantineEntry`; `goal` says whether a load, the comparison or the confirmation called it |
| `BeginClear`, `ListFiles`, `BeginEvict`, `Unpublish`, `Sweep`, `EndSweep` | `clearForKey` and the eviction, which take no lock |
| `Crash`, `Damage`, `LeaseExpires` | a window dies, a file is truncated, a lock grows old |

A failing unlink is modelled for the lock only: the same failure for a manifest or a
payload leaves a file that the next read finds again. `Ahead` is a constant: while a
run lasts no clock catches up with an entry of the future.

### 3.7 `QueryEditor` - the classic query path

Everything in this path is keyed by the URI of the editor, which Save As changes
while a query runs; the notifications of SQL Tools Service carry no other name.

| Model | Code |
|---|---|
| `slots`, `resultsMap` | `_queryExecutionInFlightUris`, `_queryResultsMap` of the content provider |
| `routes` | `_queryRunners` of the notification handler |
| `runners[n]` | a `QueryRunner`: `_ownerUri`, `_isExecuting`, `_registeredNotificationUris`, `_orphanedQueryRecoveryTimer`, the promises it keeps per URI, and the slots its `onComplete` will release |
| `Run` (`Blocked`, `Reuse`, `Create`), `Prepared`, `ResetEnds`, `Submit`, `RunFails`, `ReadFails` | `runQuery` of the provider and of the runner, cut at its awaits: the panel a new runner's results may open in, after which the run looks whether the slot is still its own, the reset of a reused runner, the reading of the document, the request |
| `Cancel`, `CancelEnds`, `AfterCancel`, `Recover`, `TimeOut` | `cancelQuery`, `cancel`, `scheduleOrphanedQueryRecovery`, `withTimeout` |
| `Close`, `DisposeEnds` | `cleanupRunner`, `dispose` |
| `SaveAs`, `Renamed` | `updateQueryRunnerUri` of the provider and of the runner |
| `Receive`, `QueryComplete`, `Cleanup` | the dispatch of notifications, `handleQueryComplete`, `_handleQueryCleanup` |
| `Svc...` | SQL Tools Service, external: one query per URI, requests handled in order |

A cancel the service refuses is one that fails, as a timeout does. Left out: runs
of a single statement or of a string (they differ in the request only), results,
messages, and what panels and webviews show.

## 4. What is checked

### 4.1 Passing runs

| Run | Instance | Shows |
|---|---|---|
| `Sts2QueryStream` | 2 sets x 2 pages, 1 message, window 2; throwing sink, gap, duplicate terminal (628K states) | `PagesInOrder`, `AckedIsDurable`, `SucceededIsWhole`: order, acknowledgements and a whole success |
| `Sts2QueryEnds` | 1 set x 1 page; cancel, dispose, close, lost session, throwing sink in all orders (371K states) | `TypeOK`, `OneTerminal`, `CompletionAfterSink`; `ImplementsHandle`: the lane implements `QueryHandle`; `ControlSettles`: a query that was canceled, disposed of, closed or lost settles with a service that went silent |
| `Sts2QueryLive` | 2 sets x 2 pages, window 1; cancel, dispose, lost session (212K states) | `QuerySettles`: with a healthy service every query settles |
| `Sts2Backend` | 2 opens, 2 closes each (9.8K states) | `TypeOK`, `NoQueryOutlivesSession`, `ReachesEverySession` (what a fatal error, `dispose()` and the end of the disposal leave behind), `SessionEndsOnce`, and `OpenAndCloseSettle`: opens, closes and the disposal end by deadlines alone |
| `SqlDataPlane` | 2 callers, 3 startups, 2 values of the settings (549K states) | `TypeOK`, `OneLiveBackend`, `CountIsExact`, `StaleSwapsAtZero`, `ServiceIsCurrent`, `ServiceSettles` |
| `MetadataEntry` | 1 call of any mode, 1 DDL statement, 1 fault (a hang, a rename or an offline period), definition reads (2.4M states) | `TypeOK`, `OneQueryPerSession`, `WaitersAreServed`, `DefinitionIsOfGeneration`, `SnapshotNeverRegresses`: abandoned work neither publishes nor shares a session, and every wait has work behind it |
| `MetadataEntryLive` | 1 call of any mode, 1 DDL statement, 2 faults (failures, offline periods), releases and disposal, a retry ladder that is over at once (366K states) | `LiveIsForThisCall`, `CallSettles`, `FailedRecovers`, `DriftIsRefreshed` |
| `MetadataCache` | 2 saving and 2 loading windows, 2 contents, 3 instants, the last in the future, crashes, failed writes and failed removals of the lock (1.6M states) | `TypeOK`, `MutualExclusion`, `NoDangling`, and `ImplementsNewest`: the files implement `NewestCache` |
| `MetadataCacheFaults` | 2 saves and a clear or an eviction, damage, failed writes, crashes (128K states) | `LockIsReleased`, `CacheSettles` |
| `QueryEditor` | 2 runs, a cancel, a closing or Save As, 2 URIs, a service that may answer a cancel late, a document that cannot be read (145K states) | `TypeOK`, `SlotIsOwned`, `ExecutingIsKnown`, `RunSettles`, `CancelFrees` |

The instances of `MetadataCache` and `MetadataCacheFaults` share no fault on
purpose: a clear, or damage, takes away the payload a manifest names, so
`NoDangling` and `ImplementsNewest` are stated without them; and *overrun*, a
holder that outlives its lease of a minute, is in the model and in no run,
because neither exclusion nor order survives it.

### 4.2 Why the bounds are enough

- *Two result sets of two pages* are the least with a page that follows one of
  its own set and one that follows a page of another set: per-set numbers and
  ordinals differ, which is what the ack must not mix up (the mutant
  `AckWithinSet` starves with a window of one and needs the third page). A page
  carries no rows: conversion is not modelled.
- *Window* 1 makes every page wait for an ack; 2 lets two be in flight.
- *OrphanCap* is 10 in `Sts2QueryStream` and 8 in the other passing runs: every
  notification the instance can produce before the execute response has room, and
  nothing is dropped there.
  The code's 32 is a bound of the same kind, and what happens beyond it is the
  run `Sts2QueryTruncated`, with a cap of 2.
- One `cancel()` and one `dispose()` call of the feature per query: a second
  `cancel()` repeats the request and finds the deadline armed, a second
  `dispose()` may arm another drain timer, which the first terminal silences.
- *Two opens* are two sessions and thus two entries in the map that `Fatal` and
  `Dispose` walk; *two closes* are the two that can overlap.
- *Three startups* are one being swapped, one superseded and one current.
- *One call, one DDL statement, one fault* in `MetadataEntry`: a catalog that
  changes once has an older and a newer reading, a hang leaves one abandoned
  operation beside the one that runs (definition reads are asked for in this run
  only), and the internal callers (polls, retries,
  refreshes, the shared validation) are already several waiters of one pass.
  `MaxRefreshes` stops asking for refreshes at that generation, and for definitions
  after it; publications the entry makes by itself go on. A ladder of 1 step in `MetadataEntry` and of 0 in
  `MetadataEntryLive` reach its end within the instance. *Two faults* in
  `MetadataEntryLive` are an offline period and a failed refresh in one behaviour,
  in either order: the network takes the poll away, the failure the pass.
- *Two saves* in `MetadataCache`: a third would add the lock of a window that
  crashed and two that recover it, which is the run `MetadataCacheLock`. *Three
  instants*, of which the third is in the future, let a save be older than, equal to
  and later than an entry of either kind.
- *Two runs of two URIs* in `QueryEditor`: a run that is canceled or closed and one
  that follows it in the same editor, or one in each editor. Save As goes only to
  a name no editor with a query has.
- `CHECK_DEADLOCK FALSE` stands where every call may be over (`Sts2Backend`,
  `SqlDataPlane`, `MetadataEntry`, `MetadataCache`, `QueryEditor`) and in
  `Sts2QueryTruncated`, whose query may be stuck. In the other runs of the
  lane the action `Finished` marks the intended end, and TLC's deadlock check is
  on: no other state is stuck.

### 4.3 Fairness

- `Sts2Query!EventLoop`: timers that are armed fire, dispatched messages and
  settled promises run, and a sink callback settles one way or the other. The
  first two are the event loop; the last is what `IQueryEventSink` asks of a
  feature, and nothing in the code bounds it. Nothing is assumed of the
  feature's calls, of faults, or of the service: `ControlSettles` holds with throwing
  sinks and lost sessions.
- `HealthyService` is a premise of `QuerySettles`, not part of the
  specification: the service answers execute and streams while it has credit.
- `Sts2Backend!Deadlines`: the deadlines of initialize, open and close, and
  promise continuations. The service owes nothing.
- `SqlDataPlane!Bounded`: `factory.create()` settles, as the STS2 factory does
  by its own deadline, and a disposal is bounded by `DISPOSE_TIMEOUT_MS`.

- `MetadataEntry!FairSpec`: microtasks run, an operation in the lane is answered
  (a hang is a fault of its own, and the watchdog ends it), the limiter gives a
  slot in the end, and timers that are armed fire. That a poll timer fires assumes
  that executed batches, which arm it anew, do not come faster than its interval for
  ever.
- `MetadataCache!FairSpec`: file operations are answered. `GiveUp` is strongly
  fair: `PUBLICATION_LOCK_ATTEMPTS` is a number, so a save that fails attempt after
  attempt has a last one. Nothing makes a lease run out while somebody waits.
- `QueryEditor!EventLoop`: messages are dispatched, timers fire, a panel opens, a
  document is read or cannot be. That the service handles requests (`SvcHandle`) and that its
  queries end (`SvcComplete`) are premises of `RunSettles`, and the second alone of
  `CancelFrees`.

### 4.4 Where code and documentation disagree

Each of these runs checks one sentence of a comment and finds a behaviour of the
code against it; `PROJECT.json` quotes the sentences.

| Run | What the code does |
|---|---|
| `Sts2QueryTruncated` | a full orphan buffer drops the newest notifications of a query; when those are the last pages of a result set, the query still ends *succeeded* |
| `MetadataCacheLock` | two windows see the stale lock of a third; the slower one removes the lock the faster has just created, and both publish |

Seen in the models, each without a run of its own.

In the data plane:

- `onAccepted` is queued after a terminal that came before the execute response or
  that the cancel deadline made: the sink hears it after `onComplete`.
- After a callback threw, those already queued are still delivered; a failure after
  the terminal was queued is swallowed and the handle succeeds.
- An execute response after the cancel deadline registers a lane that is over, and
  nothing removes it.
- When the notification a full orphan buffer drops is the terminal, the completion
  stays pending, with a healthy service.
- An open answered while a disposal drains, or after it, leaves an open session on the
  disposed backend: it is not among those `dispose()` found, the fatal subscription is
  gone, and the end of the disposal drops it from the map. A late
  answer to initialize makes a disposed backend available.
- A swap that ends late clears the stale mark of a newer startup, whose backend
  then keeps its old settings at a count of zero, or reports an entry *idle*
  whose newer backend runs.
  The premise of `StaleSwapsAtZero` excludes just this.

In the metadata entry:

- A latched entry answers `requireValidated` with the verdict of an earlier digest,
  *validated* included, also when a hydration has latched it since.
- A `requireLive` caller queued behind a pass may be answered *unavailable* because
  its follow-up has set *stale* before the caller resumed.
- When the network goes off while a forced pass is queued, its caller is answered
  *live* although the pass was skipped.
- A validation holds its slot of the limiter while its digest waits in the lane of
  an entry whose operation hangs.
- The mismatch an abandoned hydration finds is latched without a look at the epoch;
  the automatic retry after a failure clears a latch.
- A failure while offline leaves a failed entry without a timer until the network
  change is reported.
- An offline call clears the poll (1778, 2084). If the network returns, a validation
  reads the new digest as its baseline (1554) and the refresh it chains fails with the
  ladder over (1432 leaves that to the poll), no timer is left and the drift is
  forgotten until something else asks. The premise `polling # {}` of
  `DriftIsRefreshed` excludes just this.
- DDL between the reading of the catalog and the first digest becomes part of the
  digest's baseline.

In the disk cache:

- A reader that found its payload gone removes the manifest at that path, which may
  be a newer one: the entry is forgotten.
- With a holder that outlives its lease, a payload published again may be retired by
  name: the manifest dangles until a reader drops it.
- A save that confirms the entry writes back the capture instant it found.
- An unlink of the lock that fails leaves the lock behind, as a crash does: the next
  save waits until it is stale.
- An entry dated in the future is replaced by the next save, whatever its instant, as
  the test of the store says (`metadataCacheStore.test.ts:793-809`).

In the classic query path:

- Save As while the document is being read: the promise moves to the new URI, the
  query runs under the old one, and its completion resolves no promise.
- When a new editor takes the old name, the first runner unregisters it with its own
  names: the completion of the new editor's query is lost and its editor stays
  *executing* until a cancel recovers it.
- The completion of a query that outlived its run (a cancel that timed out) ends the
  next run of the same URI.
- A cancel that fails, or a recovery that fires, while the document is being read
  frees the editor; the query is then submitted all the same.

### 4.5 Mutants

Every property of a passing run has a mutant: an operator beside the definition
it replaces, commented as a mutant, that changes it as a plausible bug would (a
guard dropped, a swap forgotten, an ack taken from the wrong number). TLC finds
the property violated with it under the same configuration.

## 5. What is proved

TLAPS checks the seven proof modules to the last leaf. Constants are arbitrary
but for the stated assumptions (`BoundsAssumption`: the bounds are naturals and
the window is not zero; `ClosesAssumption`: at least one close per session;
`RegistryAssumption`: a natural number of startups and some value of the
settings; `DataAssumption`: contents and instants are positive numbers, those ahead among the latter;
`ProcessAssumption`: savers, readers and cleaners are different calls;
`EditorAssumption`: runs, cancels and changes are different calls, none of them the
value *nobody*, there is an editor, and at least one runner can be made); the sets
of opens, callers, calls, URIs and windows may be infinite.

**`Sts2Query_proofs`** proves `TypeOK`, `OneTerminal`, `CompletionAfterSink`,
`AckedIsDurable`, and two properties that no run checks: `UnacceptedShowsNothing`,
of queries that were refused, and `AckDiscipline`, that acknowledgements only grow
and cease with the terminal. None of them is
inductive: what the sink will see is still in the lane. The invariant adds what
the lane holds: once `terminalSent`, at most one terminal is queued or told and
no data stands behind it; before, none is; the terminal in the lane carries the
summary; a query that is rejected or aborted has no data queued; and a handle
that settled was accepted or refused before. The proof has one lemma per group
of actions and a lemma for each way a step touches the lane (enqueue, pop, log).
Acknowledgements have an invariant of their own on top of it, `AckInv`: queued
pages stand in the order of their ordinals, and until the terminal every page
received was taken by the sink or is still queued. So when the head page is
acked all pages before it were taken; and a callback that fails, whose page is
lost, ends the acks.

**`Sts2QueryOrder_proofs`** proves what the sink sees: `PagesInOrder`, the refinement
`ImplementsHandle`, and `SucceededIsWhole`. All three are about the log, while the
checks they rest on were made when a notification arrived, and between the two lie
the lane and, before that, the pipe and the orphan buffer.

- `PagesInOrder` needs `OrderInv`: a page in the lane has its metadata and the page
  before it in the log or ahead of it in the lane, and each ledger names the page
  received last. A second announcement of a set would set its ledger back to zero and
  let its pages in again, so `WireInv` follows the stream: a set is announced once,
  wherever the announcement is now, and the ledger of a set still to be announced is
  closed.
- `ImplementsHandle` needs `OrdinalInv`: what was received is in the log or in the
  lane, the log first. With the order of ordinals in the lane (`AckInv`) the page
  invoked next is the one after all that were shown, which is what `QueryHandle`
  counts. Its steps are mapped action by action: the start of a callback shows a page
  or tells the terminal, its end acknowledges or settles, everything else stutters or
  settles the acceptance.
- `SucceededIsWhole` needs `WholeInv`: until the terminal, the pages the service sent
  are those received, buffered or on the pipe; the completion is the last of the
  stream, wherever the stream is cut between buffer and pipe; and a lane is retired
  only by a terminal. So a *succeeded* summary has received everything; when the sink
  is told, the lane is empty, and ordinals number the pages in the log without a gap
  or a repetition, which makes their number the number received. The theorem has a
  premise, `[][~DropsPage]_vars`: no page is dropped from a full orphan buffer. It
  cannot be left out; the run `Sts2QueryTruncated` is the counterexample. Other
  notifications may be dropped. `RoomySuccessIsWhole` discharges the premise for a
  buffer as large as the stream (`Roomy`), which the instance of `Sts2QueryStream` has:
  what is on the pipe or buffered was sent, and the pages sent fill the sets announced.

**`Sts2Backend_proofs`** proves the type invariant, `NoQueryOutlivesSession`,
and the action properties `ReachesEverySession` and `SessionEndsOnce`. The second
says what each way to end everything leaves: a fatal error no open session and no
running query, `dispose()` no open session, and the end of the disposal only queries
of sessions that were opened meanwhile, or that a `close()` under way will settle.
The invariant adds that the map holds live sessions only, that until disposal is
done it misses none of them, which is why the walk over the map reaches all, and that
closes belong to opened sessions.

**`SqlDataPlane_proofs`** proves the type invariant, `OneLiveBackend`,
`CountIsExact`, `StaleSwapsAtZero` and `ServiceIsCurrent`. The invariant adds
that a running backend is that of the current startup, that a startup without
a backend is still being created, that a disposed registry has neither, and
that only registered sessions are closed or finalized. `StaleSwapsAtZero` is
about the settings a backend was built with, not about the mark: under the premise
that no older swap is pending while a startup is outdated (`NothingOvertaken`) an
outdated startup stays marked (`OutdatedIsMarked`), and a mark at a count of zero
has its swap pending (`MarkedIsSwapped`), which the premise excludes.
`CountIsExact` rests on the library's facts about cardinality of finite sets, and
shows that the clamp at zero in `finalize` is never needed.

**`MetadataCache_proofs`** separates what the lock gives from what the lock needs.

- Without any condition: the type invariant.
- `LockIsReleased` where the unlink of a lock does not fail, because a lock file belongs
  at every moment to a window in its critical section or to one that crashed.
- `MutualExclusion` under `Leased`: nobody clears, no holder outlives its lease, and
  with crashes or failing unlinks there are at most two windows, so that a lock left
  behind has one recoverer. The run `MetadataCacheLock` shows that the last condition is needed.
  The invariant says that who is in the section has the lock, and that only a
  lock left behind is stale or being recovered.
- From `[]MutualExclusion` alone, for all windows and all faults: the refinement
  `ImplementsNewest`. The invariant adds that nothing on disk is newer than what a
  save is about to publish, entries of the future excepted, and that
  what a save verifies stays there or goes.
- From `[]MutualExclusion`, when nobody clears or damages files (`Undisturbed`):
  `NoDangling`. The invariant adds that the payload of what is about to be put in
  place is there and good, and that a manifest's content is that of its writer's
  snapshot.

Two corollaries put these together under `Leased`.

**`MetadataEntry_proofs`** proves the type invariant and, each with an invariant of
its own on top of it:

- `OneQueryPerSession`, from `SessionInv`: the operation that runs has the current
  session, and an abandoned one an earlier session, or the current one, which is then
  wedged and unused. The wedged mark and the recycling of the session in the next
  start are what keeps this.
- `DefinitionIsOfGeneration`, which is inductive by itself, and the action property
  `SnapshotNeverRegresses`, from `ReadInv`: nothing shown is newer than the server,
  and nothing a running hydration has read is older than what is shown. An external
  publication waits for an entry without a snapshot and without a hydration, and an
  abandoned hydration publishes nothing.
- `WaitersAreServed`, from `WaitInv`: every wait has behind it a pass in the lane or
  the follow-up mark, and a mark has a pass that will honour it. Every way a pass can
  end (published, failed, skipped, found to be of another database, abandoned)
  settles the waits and consumes the mark, and the proof visits each.
- `LiveIsForThisCall`, from `LiveInv`: the pass a `requireLive` caller waits for has
  not read the catalog before the caller asked, and when the caller resumes the
  entry is *ready* only with what such a pass has read.

**`QueryEditor_proofs`** proves the type invariant, `SlotIsOwned`, `ExecutingIsKnown`
and `LoserIsAhead`, which no run checks. The first two are not inductive: a run that
finds a runner it can reuse resets it first, awaits a cancel, and two runs may do so
with one runner, since a completion releases the slot in between and Save As moves
runners and slots to other URIs. The invariant says that an editor has a runner of its
own, that slots move with `resultsMap`, and that a runner serves one slot, but the key
is the order of cancels (`OrderInv`): a run that lost its slot while it resets a runner
has its cancel ahead of that of the run which has the slot now, among the requests and
the answers alike. The pipe and the service keep that order, so the loser finds out,
and gives up, before the winner submits. A new runner is set up only after its panel is
there, and only by the run that still has the slot (`Prepared`); one that has lost it
by then changes nothing. Timeouts respect it too, since cancels run out
in the order they were sent.

Model-checked only: liveness, which is out of the prover's reach (`ControlSettles`,
`QuerySettles`, `OpenAndCloseSettle`, `ServiceSettles`, `CallSettles`, `FailedRecovers`,
`DriftIsRefreshed`, `CacheSettles`, `RunSettles`, `CancelFrees`).

Proved only, because the instances are too small or the property would need a run of
its own: that an ack still in the lane is silenced by a terminal that was queued in the
meantime (`AckDiscipline`; the runs check acks against what the sink took), and the
race of two resets of one runner, which needs three runs (`SlotIsOwned`,
`LoserIsAhead`).

## 6. What is not modelled

- Conversion of rows and cells, truncation, statistics, diagnostics and logs:
  data without an effect on control.
- Authentication and capability negotiation in `openSession`: one await that
  may refuse.
- Several queries in one orphan buffer, and the limits over query ids (planned).
- In the registry: capability answers, remembered fallbacks and status dumps,
  which read; the entries of other providers, which are independent but for
  `dispose()`.
- An open in flight is not counted by the registry, so a configuration change
  can dispose of the backend under it; the behaviours are in the model, and no
  document says which outcome is right.
- In the metadata entry: the other entries of the engine and the real limiter,
  section statistics, the focus watch, and what a catalog contains.
- In the disk cache: the debounce of saves, the index file, the sweep of orphaned
  files, encoding and encryption of payloads, other keys.
- In the classic query path: results, messages, execution plans, and what panels and
  webviews do but for the await that opens one.
- The components of section 1.2, in the order of the plan; the views, the
  process launcher and the download code, which are input and output around
  libraries.
