# Verification of the server's concurrent core

TLA+ models of the parts of `src/server` in which several processes, handlers, workers or files meet, the
TLC configurations that check them on small instances, and TLAPS proofs of the properties that matter most.
Paths below are relative to `src/server`; `PROJECT.json` maps every definition to the lines it models.

## The system

The server takes requests for media from users, lets operators approve them, hands approved requests to
acquisition services (Radarr, Sonarr, Lidarr, Readarr, LazyLibrarian, Mylar, ...) and completes them when a
library scan finds the media. It is one Node.js program; several processes of it may share one PostgreSQL
database, one configuration directory, or both. Within a process code is interleaved at every `await`;
between processes at every statement and file operation.

| Part | State | Operations | What is hard | What makes it correct |
|---|---|---|---|---|
| Request dispatch outbox `lib/requestDispatch`, `subscriber/MediaRequestSubscriber.ts`, `routes/request.ts` | table `request_dispatch_outbox`, active rows and delivery queue of a process, `media_request.status` | enqueue, cancel, scan, claim, renew, deliver, reschedule, exhaust; create, approve, decline, repair, retry, clear, remove, complete, reconcile | competing processes, leases, crash between sending and deleting, stale snapshots, a full queue, handlers that write in several steps | a claim has one holder; approved requests are not lost; nothing is sent twice without a fault; queues drain |
| Request admission `lib/requestAdmission.ts`, `lib/serviceAdmission.ts`, `utils/asyncLock.ts` | advisory locks, connection slots, in-process locks, inherited contexts | run, nested run, commit, release | two kinds of lock taken in two orders, broken connections, contexts that outlive their scope | exclusion, no deadlock |
| Settings file lock `lib/settings/fileSecurity.ts` | the lock file, its owner and age | create, judge, break, write owner, heartbeat, release | crash between any two steps, reused process ids, late heartbeats | exclusion, recovery of orphaned locks |
| Settings store `lib/settings/index.ts` | `settings.json`, the settings in memory, the stamp last read | load, persistSection, persistChanges, save, refresh | several processes starting and writing at once, failed writes, snapshots | no change lost, memory backed by the file, one set of keys |
| Scheduled jobs and shutdown `job/jobLease.ts`, `job/schedule.ts`, `utils/gracefulShutdown.ts`, `index.ts` | table `scheduled_job_lease`, timers, running jobs, stage of the shutdown | fire, claim, renew, finish, release; run and enable routes; stop, drain, settle, exit | leases that expire under a run, handlers that start jobs while the process stops, hangs | tasks exclude each other, an overtaken run does not succeed, exit code 0 means nothing was cut off |
| Notifications `lib/notifications` | table `notification_outbox`, deferred deliveries of open transactions, scans and deliveries under way | raise in or outside a transaction, commit, roll back, scan, claim, send to each agent, checkpoint, complete, discard | rows read before their transaction ends, checkpoints from a stale record, rollbacks over the one SQLite connection | sent only after commit; committed rows are not lost; nobody is told twice without a fault; every row is handled |
| Outbox admission `lib/outboxAdmission.ts` | a lock | count and insert | two inserts at the limit | the limit holds |
| Request and media status `entity/MediaRequest.ts`, `entity/Media.ts`, `subscriber/*`, `lib/requestTransition.ts`, `lib/mediaMutation.ts` | rows of media and requests, their status per quality | create, promote, approve, retry, decline, remove, deliver, complete | handlers that hold only their request's key save the whole media row they read earlier | one active request per destination; completed means delivered; what is available stays so |
| Library scanners `lib/scanners` | the list of a service, deferred resets, orphans | list, process, reset, clean up, decline | everything changes while the scan walks | the status follows the library in the end |
| Library deletion `lib/libraryDeletionReconciliation.ts` | what the services listed, twice | probe, probe again, check the outbox, delete | the media and its requests change between the steps | deletes only what is gone and what nobody waits for |
| Download recovery `lib/downloadRecovery.ts` | table `download_recovery_state`; the flag `running` and the workers of a process | read the service's queue, judge an item, remove, search, record, clean up | runs without a lease on every process; a failed worker ends the run but not its fellows | retries are bounded per download and per media; failed downloads are handled |
| Deferred dispatch `lib/requestDispatch` | `deferred`, `deferredByQueryRunner`, `enqueuesInProgress` | defer, commit, roll back | dispatch before commit, forgotten after it | dispatched exactly when committed |
| Background tasks `utils/backgroundTasks.ts` | set of pending promises | track, settle, wait | a task that ends may start another in the next turn | the wait ends only when nothing is left |
| Live download tokens `lib/liveDownloadTokens.ts` | tokens and their index by user and hash | issue, resolve, expire, trim to a limit | two maps, a limit, a deadline | the maps agree; a token serves its user until it expires |
| Caches, service clients, routes and authentication, database, web interface | - | - | mostly data transformation and I/O | - |

How they interact: a handler runs its writes inside admission scopes (`lib/requestTransition.ts`,
`lib/mediaMutation.ts`), writes outbox rows in the transaction that changes a request, and the manager of any
process claims such a row and, for a dispatch, enters the same admission scopes before it calls the service. The
service acquires the media, the scans find it, and the subscriber of the media completes its requests. Jobs start scans
and reconciliations under a lease; download recovery runs without one. Every one of them reads the settings, which are one
file behind the file lock. The shutdown waits for handlers, jobs and background tasks in that order.

## Modules

`M.tla` models a part, `MC*.tla` gives it finite constants, `*.cfg` selects a run, `*Proofs.tla` holds theorems.

**`RequestDispatch`** - several `RequestDispatchManager`s and the handlers of requests over one table.
`status` is the column of `media_request` (`"none"` before creation); `unavailable` says that the latest stage of
a request is UNAVAILABLE; `outbox[id]` is a row with its attempts, retry delay (`due`), claim token and lease (`stale`);
`admission[r]` is the holder of a request's mutation lock and where its handler stands between two writes;
`task[p][id]` is the dispatch a process runs or has queued for a row, `pc` being its place in `deliver()`;
`scan[p]` is what a scan has read and not yet dispatched. `ScanRead`/`ScanDispatch` are `dispatchPending()`,
`Claim`/`ClaimRefused` the claiming update, `Heartbeat`/`Renew` the lease, `Admit` the entry into the admission
of the request, `SendAccepted` to `SendThrows` the outcomes of the service call with the status they write,
`DeleteDelivered`, `Reschedule`, `Exhaust`, `ClaimWasLost` the ends of a delivery. `Crash`, `DatabaseError` and
`LeaseLost` are the faults, and so is an error that comes after the service has accepted the request
(`PerhapsAccepted`): the answer is lost or a save that follows fails, nothing records the acceptance, and a book is sent again
from the queue. The admission lock is taken as given, which `RequestAdmission` examines. Books stand for the
kinds whose failed request stays queued (book, comic, magazine, sports). `sends` counts the acceptances since
the approval; it exists for the properties only.

**`RequestAdmission`** - tasks run nests of scopes, each with a set of keys. `connection[t]`, `advisory` and
`slot` are the transaction, the PostgreSQL locks and the connection slots, `local` the `AsyncLock`s, `context[t]`
the inherited `AsyncLocalStorage` context. Scopes that take the advisory locks first
(requests, media, users) and those that take the in-process locks first (services) are both there. `Spawns` gives the tasks
that a task starts in the background, which inherit its context. `Disconnect` is the break of a connection under a scope that goes on, for
the tasks in `Breakable`: PostgreSQL releases the advisory locks and nobody tells the scope. `Crash` is the loss of a process with its connections,
`ConnectionGone` a step on a connection that is no longer there. The FIFO order of a lock is left open.

**`FileLock`** is the lock as its users see it: `holders` are none or one operation until it is `faulted`. **`SettingsFileLock`** is `withSettingsFileLock()` step by step: exclusive creation, stat, judgement of the owner
by host and process id or by age, unlink, retry, writing of the owner, heartbeat, and on the way out the check of the owner
and the removal. It implements `FileLock` under the refinement mapping in `Exclusive`, which
reads who holds the lock off the places of the operations (from the creation of the file to its removal) and not off the file: that
others judge and unlink the file by its path must not let anybody in. `Age` and `Stall` make a file old,
`Crash` and `Restart` kill and revive a process. Age is judged at the time of the stat.

**`SettingsStore`** composes `FileLock` with the operations on the file. A section's value is the set of the operations
whose change it holds, so a lost change is a missing element. `phase` follows an operation from its call through the
lock, the read (`Load`, `Rebase`), the write and the release; `snapshot` is what it writes, `after` the
earlier saves a save is chained to, `fresh` whether the stamp last read is the file's. `Undo` is the restoration of the memory
after a failed write. Raw and override loads, migrations, and the `clientId` and environment keys are left out.

**`ScheduledJobs`** - one leased job in several processes. `owner` and `live` are the row and its expiry; `run[p]` the
place of a run in `runTrackedJob()` and `JobLease`; `overdue` says what the clock read by `claim()` said of the row,
`lost` is `heartbeatError`. `stage` follows `gracefulShutdown`: up, draining (handlers), stopping (runs), settling
and turning (`waitForBackgroundTasks`), exited with code 0 or aborted. `armed` is the timer, `handler` the calls of the run and enable routes
and those that start a background task, which is then followed through its end (`TaskOver`) and the follow-ups it leaves for the next turn.
A failed statement counts as not applied; heartbeats are one step; jobs of scope `instance` are left out.

**`NotificationOutbox`** - several `NotificationManager`s over one table. `stage` follows a notification from
`persistNotification()` through its transaction to its end, `row` is the table including what is not committed, `undo` what
SQLite would restore, `tx[p]` the business transaction of a process, `deferred[p]` its `deferredOutboxDeliveries`, `scan[p]`
what a scan has read, `task[p][n]` the delivery of a row with the record it was dispatched with. Over PostgreSQL uncommitted rows are invisible to
others and `OutboxAdmission` keeps its lock until the transaction ends (`Admitted`); over SQLite every callback uses the
one connection, so it sees the rows of an open transaction and a rollback (`Undone`) takes back what all have done
since it began. The token of a claim is the process that made it. `swept` and `troubled` exist for the properties.

**`DownloadRecovery`** - the runs of several processes over the queue of one service. `queue` is the service's,
`row` the table, `running` the flag of each process, `run[r]` a run with the queue it read and the media it has not
taken, `worker[r][m]` the worker of a media and its place in `processQueueItem()` with the row it read. `Save`, `Mark` and `Record`
write every column that differs from the table, as `save()` does. `Fail` ends the awaited run and leaves its other workers at work
(`Abandon`). `retries` counts the removals since the row was made by workers that had the download to themselves until they had recorded it
(`shared` are those that had not); `met` are media that two workers were at together, `aged` those with a row left alone for a week.

**`RequestLifecycle`** - one film, its two qualities and the requests for it, each for a profile and root folder of the quality's server. A creation
is refused by an active request for the same destination (`Uncovered`), and by availability unless that may be recorded for another destination (`Obtainable`). `media` is the row of the film,
`request` the status of each request, `queued` the rows of the dispatch outbox. `handler[r]` is who holds the admission key of a
request: a handler that has read it, written it in an open transaction (`open`), or the worker that delivers it. `task[a]`
is who is inside the media's admission key - the creation of a request, the worker, the scan, the reconciliation - with the media it read (`seen`). Everybody
saves whole entities, so `Save` writes what was seen, and its `Cascade` is the subscriber of the media, which completes requests. `scan` walks the phases of the Radarr
scan: servers, deferred resets, cleanup, confirmation, decline; a quality with a server that is not synced (`unsynced`), or whose server lists nothing
(the film is not there and the server is not `stocked` with others), has no resets and no cleanup. A decline is a transaction without the media's key, so its read (`Decline`) and
its commit (`CommitDeclined`) are two steps, like the worker's last save of the request (`SaveTarget`, `CommitSent`). `deletion` is `LibraryDeletionReconciler.reconcile`. `Abort` is the end that PostgreSQL puts to a circle of
row locks. `ever`, `reopened` and `revived` exist for the properties.

## Runs

Numbers are distinct states. Every property of a passing run has a mutant of the code in `PROJECT.json` that breaks it.

| Run | Instance | Shows |
|---|---|---|
| `dispatch_safety` | 2 processes, a movie or a book, 3 attempts, 2 faults; 839 k | types, one holder per claim, no silent loss, no repeated send beyond the faults, live claims end by their holder |
| `dispatch_operators` | the same without faults, with 2 row ids and with repair, retry and clear; 1.77 M | nothing is sent twice whatever operators do |
| `dispatch_live` | 1 process, 1 book, 1 fault, no waiting in the delivery queue; 13 k | queues drain; the reconciliation job recovers what a retry loses |
| `admission_shared` | 2 processes, 4 tasks over user, request, media, collection and instance keys, 2 slots, a dispatch started in the background, connections of a handler and a worker that break; 743 k | exclusion but for what a session gone under its scope costs; no deadlock, with programs that respect one order |
| `admission_context` | a dispatch started inside a scope | **violated**: `MutualExclusion` |
| `filelock` | 3 operations, 2 hosts, 1 crash and restart, 2 late heartbeats; 50 k | until the first fault: exclusion, removal, the hold of `FileLock` from creation to removal; after it: an orphaned lock is removed, exclusion returns |
| `settings_store` | 2 processes, 3 starts, 2 changes, 1 save, 2 faults; 260 k | shared keys, changes and memory until somebody calls `save()` |
| `settings_save` | the same without faults | **violated**: `ChangesKept` |
| `jobs` | two instances of 2 processes, 1 expiry under a run, 1 stop: a call of each route and 1 fault, a call of the run route and a background task; 823 k | exclusion, overtaken runs fail, clean exits, recovery of the lease, the shutdown ends |
| `notification_outbox` | four instances: a partial delivery by 2 processes, 2 notifications for one place, a fault over PostgreSQL, a fault over SQLite; 567 k | sent after commit only, nothing committed is lost but what another transaction's rollback sweeps away (SQLite), sent once unless something went wrong, everything is handled |
| `download_recovery` | four instances: a download that comes back, to 1 process or to 2, an item that fails beside those of another media, 2 processes at once; 577 k | both limits as far as the code keeps them, whatever fails; failed downloads are handled |
| `request_lifecycle` | nine instances: rivals for a destination, two profiles beside a server that is not synced, faults, both qualities, a film alone on its server, departures watched or not; 394 k | one active request per destination, completed means delivered, availability kept, the status follows the library |

Why the bounds suffice to be of interest. Two row ids of one request let a row be deleted and created again while a
task still refers to the old one; requests interact through the bound on rows and the delivery queue only, so in the two safety runs the constraint `OneRequest` follows
the one request that is created first, a movie or a book. Two
faults let a lease be lost and the successor crash. Tokens are as many as can be in use at once. A queue limit of 1
with one worker fills. Two processes and two programs per worker make every pair of lock orders
meet. Three contenders are the least that can confuse an unlink by path. One notification with two agents is the least that can
be delivered in part, two with one place the least that compete. A limit of one retry is passed by the second; three downloads of a media and one of another let workers meet and fail apart.
Two requests for a quality and one for the other are the least that can rival and that can be completed by the wrong quality; the acts of operators, the changes of the library and the faults are
bounded per instance. Processes and tokens are symmetric in
`dispatch_safety` and `dispatch_operators`, which check no liveness. Deadlock is not checked in the dispatch, store, notification, recovery and
lifecycle runs, whose operations are used up; the admission, file lock and job runs check it, as they can always go on.

### Fairness

- Dispatch: timers and the event loop run every step that stays possible (weak); a task queued for a worker, for the admission
  lock or a claim is served in turn, the queues being FIFO (strong). Leases and delays elapse. Nothing is assumed of
  operators, faults or the library.
- File lock: the retry loop and every step of an operation go on, a dead process is restarted, time passes.
- Jobs: timers fire, statements are answered, tasks end, an orphaned lease expires, and the two timeouts of the
  shutdown fire. Handlers and background tasks may hang for ever.
- Notifications: handlers end their transactions, callbacks run, scans are made again and again, agents answer or time out,
  leases and delays elapse. Nothing is assumed of those who raise notifications.
- Download recovery: the timer of every process fires again and again and the calls of a worker end.
- Lifecycle: transactions and calls end, scans are repeated, the outbox is scanned, and the queue for the media's key is first
  come, first served, hence strong fairness of those that wait for it. Nothing is assumed of users, operators or Radarr.

## Proofs

| Theorem | For every value of the constants | From |
|---|---|---|
| `RequestDispatchProofs!TypeCorrect`, `ClaimsHeldOnce`, `LiveClaimsEndByHolder` | types, claims | `ClaimInv` |
| `RequestDispatchProofs!ApprovedRequestsKept` | `NoSilentLoss` | `LossInv`, and `Quiet`: no repair, retry or clear |
| `RequestDispatchProofs!NoSendRepeated` | `NoDuplicateSend`, with all operations | `DuplicateInv`, `ClaimInv` |
| `RequestAdmissionProofs!TypesCorrect`, `ProcessesExclude` | types; in-process locks exclude within a process | `TypeInv`, `LocalsKept` |
| `RequestAdmissionProofs!AdmissionExcludes` | `ExclusionWhileConnected`, with broken connections, background tasks and crashes | `SessionsKept`, `TurnInv`, `LocalsKept`, and `Coordinated`, `SpawnsNearby` |
| `RequestAdmissionProofs!CirclesHaveACause` | `CirclesUndisciplined(order)` for every order of the locks, with broken connections, crashes and inherited contexts | `TurnInv`, and `SpawnsNearby` |
| `SettingsFileLockProofs!TypeCorrect`, `FileLockExcludes`, `FileLockRemoved`, `FileLockImplements` | types; until a fault: exclusion, removal, refinement | `LockInv` |
| `SettingsStoreProofs!TypeCorrect`, `SecretsShared`, `ChangesStay`, `MemoryStays` | keys, changes, memory | `WriterInv`, `SecretInv`, `ChangeInv` |
| `ScheduledJobsProofs!TypeCorrect`, `LastClaimWins`, `LeaseExcludes`, `ExitsClean` | lease, exit | `LeaseInv`, `ExitInv` |
| `NotificationOutboxProofs!TypeCorrect`, `NothingSentEarly`, `CommittedKept`, `NoRepeatedDelivery` | types; `SentAfterCommit`, `NoSilentLoss`, `SentOnce`, over PostgreSQL and SQLite | `TypeInv`, `StageInv`, `DeliveredInv`, `OnceInv` |
| `DownloadRecoveryProofs!TypeCorrect`, `LimitsKept` | types, and every count within its limit; `LimitsHeld` | `BaseInv`, `RemovalsInv`, `MarksInv` |
| `RequestLifecycleProofs!TypeCorrect`, `OneRequestActive`, `CompletedOnlyDelivered`, `AvailabilityTakenBackByNoTask` | types; `OneActive`, `CompletedDelivered`, `AvailabilityKept` | `TypeInv`, `RivalsInv`, `DeliveredInv`, `KeptInv` |

Each proof has the same shape: an invariant that is inductive, preserved by one step per action, and a last temporal step.

- *Claims.* `ClaimHeldOnce` alone is not inductive: a row that does not exist must carry no claim
  (`AbsentRowsEmpty`), and every token in use must differ from what a new claim picks. Steps other than a claim are shown to
  change a row's claim in three ways only (`RowEffect`), which also gives the action property.
- *No silent loss.* A worker deletes its row only when the request is accounted for (sent or not approved), and no row or
  task exists for a request that may still be approved: otherwise an approval would meet a delivery already
  under way. With `retry`, `repair` or `clear` this fails, and so does the property (see below).
- *No repeated send.* `NoDuplicateSend` counts what was sent; the invariant also counts who may still send (`Bounded`): tasks that have lost their
  claim, the holder of the row, and whoever claims it next. The last two are one chance, unless the holder's lease ran out under it, and
  only a fault does that. A step leaves the chances as they are, uses one up, belongs to a fault, starts a new approval, or claims a row over
  a holder that is at work: those five (`Counted`) keep the bound. A book that failed after it was accepted may be sent again from
the queue as often as its attempts allow, so a chance that is used up is paid for by a fault when nothing records it (`Broken`), and as long as a book is not settled its
sends are no more than the faults (`Unsettled`). It needs one row per request (`OneRow`), one task in the admission of a request
  (`LocksExact`), and that what is enqueued without a new approval has not been sent (`Staged`).
- *Admission.* While the session that a task locks through lives, be it its own or an inherited one, it holds the advisory locks of all keys
  the task runs under (`SessionsKept`), so of two tasks under one key the session of one is gone (`Detached`): it broke, or the parent has ended it.
  Within a process the in-process locks exclude alone (`LocalsKept`).
- *No deadlock.* Whoever is entering has taken its locks in turn (`TurnInv`): a lock is held only with everything before it in its
  program. Nothing is assumed of the programs. If every task of a circle took its locks in one order and waited for its slot with nothing in hand (`Disciplined`), the
  next lock a holder needs would be above the one it is waited for, and the one that waits at the highest level would have nobody to wait for. So a circle has a task in
  it that is not disciplined, whichever order one looks for. A slot is below every lock, since its holder has its
  connection. A task that inherits a context takes locks on its owner's connection, but never while
  the owner is entering (`Inherited`), and a crash takes both. `SpawnsNearby` holds by the code. `MCRequestAdmission` assumes that its programs are disciplined
  (`ProgramsOrdered`), so TLC evaluates that; service scopes of the code are not (see below), which is why the theorem is about circles and not against them.
- *File lock.* Until a process dies or a heartbeat is late the file names exactly the operation between its creation and its
  removal (`OwnerHolds`), that operation is known to be alive (`OwnerKnown`), and so nobody is about to unlink its file (`NobodyUnlinks`). Without the last part the
  mapping breaks: the holder would still be inside when another one creates the file anew.
- *Settings.* Only the lock's holder is under the lock; the keys are in the file before any process has loaded them, and
  what is about to be written has the same keys; a change about to be written is the file plus that change.
- *Jobs.* An overtaken run does not own the row; a working run owns a live row until a lease expires under a run; a process past
  the drain has no armed timer and no active handler, unless the wait was forced (`Quiet`), so nobody starts a run or a task while it settles.
- *Notifications.* Who knows of a row - the table, a deferral, a scan, a delivery - is tied to the stage of its notification: a deferral
  belongs to the process that raised it, a scan meets an uncommitted row over SQLite only, and no delivery claims one
  (`StageInv`). Every copy of the record, and so every checkpoint, names as delivered only agents that have
  accepted it (`DeliveredInv`). As long as nothing went wrong with a notification, the process on its claim is the one that
  is delivering it, whoever has accepted it is in that delivery's record, and a row without a claim was never sent (`OnceInv`).
  Every step of a delivery is reduced to the columns it can change (`DeliverOutcomes`).
- *Recovery.* No `retryCount`, in the table or in the hands of a worker, passes the limit (`CountsCapped`), and a row counts at least the removals of workers that had the
  download to themselves (`Recorded`): what such a worker has read counts every one but its own (`Outstanding`), and who shares a download is known
  (`Known`). The limit of a media counts marked rows: those and the workers that may still mark one without another look at the limit, together,
  pass it by no more than the further runs, and not at all where two never met (`Alone`, `ClaimsBounded`). A week's age frees rows, hence `aged`.
- *Rivals.* A creation that looked and found no rival for its destination will meet only what an operator reopened or a worker revived since (`Unrivalled`). Every other step makes
  nothing active that was not, but for what it records as reopened or revived (`RequestsAge`).
- *Delivered.* The completion of a request is decided by a status that somebody saves, so every copy of the film anywhere - in
  the table, in a handler, in a task, in the list of a scan - must show as available or deleted only what has been there (`Had`).
- *Availability.* One actor is inside the media's key (`Alone`); as long as no save without the key has met it, it has seen available what is
  available (`AvailableSeen`, and `SentSeen` for the worker's last save), and what a reset is about to change it has seen processing (`ScannerSees`).

Only model-checked: liveness and anything about `ENABLED`, which the provers do not reach, and with them `LockRecovered` and
`ExclusionRegained`: what the file lock comes back to after a fault.

## What the violated runs say of the code

- `admission_context`: `run()` (`lib/requestAdmission.ts:45`) reuses the inherited context. A dispatch started in the background of a
  scope (`lib/requestDispatch/index.ts:351`) keeps it after the commit, and its own scope takes no advisory lock. It
  fails before it calls a service, but until then it is inside with another process.
- `settings_save`: `save()` (`lib/settings/index.ts:1988`) writes a snapshot taken before it had the lock, over a change persisted
  meanwhile; `POST /jobs/:jobId/enabled` still uses it.

Further disagreements met, without a run of their own; each shows with the constants or the definition given.

- `cleanup()` (`lib/requestWorkCleanup.ts:369`) deletes the queued dispatch before it finds that the service cannot cancel. The handler
  answers 409 (the test at `lib/requestWorkCleanup.test.ts:621`), and the request stays approved with nothing to dispatch
  it: `NoSilentLoss` with `"clear"` in `Operations`.
- `POST /jobs/:jobId/enabled` schedules its job again after `stopJobs()` (`routes/settings/index.ts:2587`). The second pass
  meant for this (`index.ts:672`) finds no scheduled job; its timer may start a run after it, and the process exits with code
  0: `CleanExit` of `ScheduledJobs`. Its neighbour re-arms a job that is disabled when its schedule changes (`routes/settings/index.ts:2527`).
- `waitForBackgroundTasks()` looks at the tasks once after the turn it waits for (`utils/backgroundTasks.ts:34`), though its comment asks for a
  "quiescent turn": a follow-up that runs to its end in that turn and leaves another follow-up is not seen, and the process exits: `QuiescentExit`
  of `ScheduledJobs`. No caller leaves two such follow-ups in a row today.
- A retry that races the worker of the failed dispatch enqueues onto the claimed row, which the worker then deletes
  (`routes/request.ts:4996`): `NoSilentLoss` with `"retry"` in `Operations` and one fault.
- The retry delay is checked on the record the scan read, not by the claim (`lib/requestDispatch/index.ts:187`):
  `BackoffRespected`.
- A transient error of a book request that has failed meanwhile counts as delivered
  (`subscriber/MediaRequestSubscriber.ts:1001`): `FailedBookStaysQueued` with the request among `Books`.
- A connection that breaks under a scope releases its advisory locks while the scope goes on, and the scope learns of it when it commits
  (`lib/requestAdmission.ts:64`-79): another process is let in under the same keys: `MutualExclusion` with a task in `Breakable`. `ExclusionWhileConnected` is what is left.
- A book service that has accepted a request (`subscriber/MediaRequestSubscriber.ts:2759`) is asked again when its answer has no id or a save that follows fails: the
  handler of the error keeps the row (lines 2975-3011), or the error counts as transient and is deferred. `NoDuplicateSend` counts such an error as a fault.
- A service scope holds its in-process lock while it waits for a slot (`lib/serviceAdmission.ts:109`), and collection and
  instance are locked in two orders (one in the other at `lib/serviceAdmission.ts:139`, sorted with the instances first at line 158, which the scans use, `lib/scanners/radarr/index.ts:220`): `NoDeadlock` with a single slot, or with a program
  that takes instance before collection. PostgreSQL's deadlock detection breaks circles of advisory locks only.
- The lock of a dead owner is unlinked by path after it was judged (`lib/settings/fileSecurity.ts:124`), and may be a new owner's by
  then: two are inside until one of them leaves, which is why the promise of `FileLock` ends with a fault.
- A process restarted under the id of the dead owner, as a container's first process always is, finds its own lock alive
  (`lib/settings/fileSecurity.ts:114`): `LockRecovered` with `RestartPids` holding that id.
- A delivery of a notification writes agents and attempts from the record it was dispatched with: a record read before another delivery's checkpoint
  makes an agent that has it already get it again, and lowers the attempts (`lib/notifications/outbox.ts:519`); hence `troubled` in `SentOnce`.
- Over SQLite a notification saved outside a transaction while another one is open is lost with its rollback: the stage `swept`, which `NoSilentLoss` excepts.
- The first worker of a recovery that fails rejects `mapWithConcurrency` and resets `running` while the others go on
  (`lib/downloadRecovery.ts:126`), so the next run handles the same media beside them, and two processes do so anyway. Both pass the limit of retries, which
  the change log says is applied "reliably when several failed downloads belong to the same media item" (`CHANGELOG.md:3440` of the
  repository): `LimitReliable`. The limit of a media counts the rows marked as retried, and a mark that is overwritten frees a place. A removal whose
  search or record fails is not counted at all (`lib/downloadRecovery.ts:436`-446), so the next run removes the download again beyond its limit.
- The reset and the cleanup of a scan decline requests without asking Radarr at that moment (`lib/scanners/baseScanner.ts:225`): one that was
  sent meanwhile is declined although Radarr acquires it: `OrphansOnly` of `RequestLifecycle`.
- A scan resets and cleans up nothing of a quality whose server lists no films, or one of whose servers is not synced (`lib/scanners/radarr/index.ts:142`-157, 181-217). A film that leaves
  a Radarr it was alone in stays processing and its request approved: hence the conditions in `Follows`.
- After a request was sent the worker saves it with the status it had before (`subscriber/MediaRequestSubscriber.ts:154`, 1203): what the scan declined, or a save of
  the media completed meanwhile, is approved again, with nothing to dispatch it, nor to complete it where the film is there already: `revived`, excepted in `OneActive` and `LibraryFollowed`.
- An approval that commits between the check of the outbox (`lib/libraryDeletionReconciliation.ts:175`, "Never race an accepted request") and the
  deletion is deleted with its request: `AcceptedSpared`.
- Approval, decline and removal, and the declines of a scan's cleanup, save the media they read without its key: an availability of the other quality that a scan saved meanwhile is overwritten (the exception in
  `AvailabilityKept`), and a deletion put back completes a request that was not delivered.
- Removing a request sets the media deleted when a completed request for it exists, which completes its failed requests. A deletion of one quality sets it deleted without the
  subscriber, so a request that was sent stays approved and refuses new ones.

## Not modelled

Deferred dispatch, live download tokens and the last row of the table of parts. Of the modelled parts: the calls to each service (only their outcomes), the
split of adult media over two services, what a section of the settings contains, file permissions and symbolic links, what a
job does, and clocks, which are flags: *due*, *stale*, *live*, *idle*, *old*, set by a step of their own. `CompleteFromLibrary` of `RequestDispatch` takes the
completion of a request and the cancellation of its dispatch as one step. Notifications: ids reused over SQLite, nested savepoints, several transactions of
one process. Recovery: several services, the intervention inbox, ids of active downloads that keep a row young. Lifecycle: seasons and books, music, several servers that serve
one quality or one that serves both, edits of a request's destination, the status of a film per service, the scans of Sonarr and of the media servers, the stage UNAVAILABLE, the deletion of rows after the key was released, the walk of the reconciliation over all media.

## Plan

Done, in this order: `RequestDispatch`, `RequestAdmission`, `SettingsFileLock` over `FileLock`, `SettingsStore` over
`FileLock`, `ScheduledJobs`, `NotificationOutbox` with the outbox admission, `DownloadRecovery`, `RequestLifecycle` with the scan and the
reconciliation; proofs about all of them. What is left:

1. Proofs: how many operations can be under the file lock at once after a crash, and when one again.
2. `RequestLifecycle` with seasons: the status of a series derived from those of its seasons.
3. The deferral of `lib/requestDispatch` as an instance of the scheme in `NotificationOutbox`.
4. `JobSchedule` (a disabled job that is re-armed), `LiveDownloadTokens`.
5. `RequestDispatch` composed with `RequestAdmission` in place of its built-in lock.

## Running

    tlc -workers 2 -config MCRequestDispatchSafety.cfg MCRequestDispatch.tla
    tlapm RequestDispatchProofs.tla

The dispatch, job, notification, recovery and lifecycle runs take one to four minutes, the others seconds; the proofs of a module take
seconds to minutes.
