# A verification of Kikoto's workflow queue, folder edits and web client state

This directory models the parts of Kikoto in which several goroutines, HTTP
requests, browser tabs or page components change shared state, and in which a
stop, a crash, a cancellation, a lost answer or a refused request may come between
any two steps. The models are written in TLA+, checked with TLC on small instances,
and the most important results are proved with TLAPS for every instance.

Paths below are relative to `backend/internal/httpapi/` in the backend sections and
to `frontend/src/` in the client sections, unless they say otherwise.

## The system

Kikoto is one Go process that serves an audio library (an HTTP API, a SQLite
database, library folders on disk, background work) and a React client in one or
more browser tabs. Nearly all work of the server that takes time is a *workflow run*
with a *job* in a durable queue; the client follows runs, reads pages through shared
requests, and reports what was listened to.

| Component | State | Operations | Hard part | Correct when |
|---|---|---|---|---|
| Workflow queue (`job_runner.go`, `workflow_leases.go`, `../workflow/orphans.go`, `../workflow/shutdown.go`) | rows `workflow_run`, `workflow_job`; the registry of leases this process holds; `layoutMigrationMu` | submit, claim by the worker or by a request, retry, defer, settle, sweep, recover, start | a worker, requests, a coordinator and users change the same rows; any write may fail; crash and restart | one running row, no live executor loses its job, nothing blocks the queue for ever |
| Executor results (`workflow_run_state.go`, the `finish…` functions) | the same rows | record success or failure, guarded or not, in one transaction or row by row | a cancellation, a sweep or a stop between the work and its result | job and run agree, a settled job stays settled once no result of it is due |
| Library folders (`library_folder_mutex.go`) | `mediaCleanupMu` | wait with a context, `TryLock`, unlock | cancelled executors wind down while the next one runs | two holders are never inside at once |
| Service lifetime (`lifecycle.go`, `../../cmd/kikoto/serve.go`, `server.go`) | contexts and their cause | stop, cut requests, exit, recover at start | a stop races every executor | an interrupted job resumes from its checkpoint |
| Run actions (`workflow_run_actions.go`) | the same rows | cancel, retry in place, recover | the row is freed before the executor knows | a cancelled run stays cancelled |
| Folder edit (`work_folder_edit_job.go`, `work_folder_edit_recovery.go`) | files of a work, a staging folder, the checkpoint | collect, remove, lift, publish, place, put back, settle | a rename and its checkpoint are two steps; retries; other programs write into the folder | no file is lost or doubled, success means complete |
| Playback reports (client: `player/playbackReport*.ts`, `player/listeningSession.ts`, `lib/listeningHistoryEvents.ts`; server: `../personal/playback_report.go`, `../personal/history.go`) | the outbox in IndexedDB that tabs share, each tab's chain of writes and its history generation, the account's totals and cursors | stage, flush, acknowledge, quarantine, verify the generation, clear | tabs, reports and answers overtake each other and a clear of the history | time counts once and stays cleared, no checkpoint is lost, the cursor shown is recorded |
| Shared reads and session (client: `lib/inflightRequests.ts`, `lib/apiTransport.ts`, `lib/apiRequestResources.ts`, `lib/apiSession.ts`) | requests in flight by path, their callers, writes on their way | join, cancel, answer, fence by a write, resume, change of session | a caller joins a request older than a write it knows of | a reader sees the writes it was told of, and always gets an answer |
| Run watcher (client: `lib/workflowRunWatcher.ts`, `hooks/useWorkflowRunWatcher.ts`; server: `workflow_events_stream.go`) | one entry per run: listeners, snapshot, one refresh, stream or timers | subscribe, refresh, tick, reconnect, poll, revoke access, forget | answers, timers and ticks land after listeners, access or the session are gone | the end of a run is shown, nothing is asked for nobody |
| Fetch publication (`remote_fetch_*.go`) | manifest state; staging, target and backup folder | stage, verify, publish, reconcile, register | a crash between two renames | one of target and backup is always complete |
| Realtime media (`realtime_limiter.go`, `media_hls_session.go`, `transcode_cache.go`) | slots, waiters, sessions | acquire with a timeout, release, change the limit | a timeout racing a freed slot | never more than the limit, no freed slot is forgotten |
| Metadata tag queue (`../metasync/`) | a second queue with a worker | enqueue, process, retry | results that are stale when applied | the last snapshot wins |
| Player queue, source and recovery (client: `player/PlayerProvider.tsx` and its hooks) | the queue in storage, one media element, its sources | play, skip, recover a source, restore | a recovery beside a change of track | the track that plays is the one that is shown |
| Media index, accounts, layout migration, triggers, outbound policy | rows and counters | single transactions | little interleaves | — |
| Pages, cards, dialogs, interface texts, browsing state (client) | values the server sent, addresses, settings | layout, formatting, parsing | none of their own | — |

How they interact. An executor holds a *lease* (a token in its row and in the
registry) from before its claim until its job is settled. Jobs that change
library folders also hold `mediaCleanupMu`, which scans, Fetch publication and the
settlement of cancelled edits take without being executors. Cancelling a run
commits first and then cancels the context of the executor it finds in the
registry. A stop cancels the contexts with a cause of its own, so every later step
can tell it from a cancellation.

The client reaches the server by HTTP only. `RunWatcher` reads the rows `WorkflowQueue`
changes; to the page a run is a version that grows with every change. All reads of a
page go through `SharedReads`, all writes through the same transport, which fences
the reads. Playback reports have an endpoint and a store of their own; tabs share
the outbox through IndexedDB transactions and learn of a clear by a broadcast.

SQLite is opened with one writer connection whose transactions begin immediate
(`../storage/sqlite.go`), and a separate pool of readers. A transaction is therefore
one action, and a read through the pool is a step of its own that may be stale when
its result is used. The client's JavaScript runs one task at a time: a handler,
with the promise callbacks that follow it without waiting, is one action.

## Modules

| Module | Role |
|---|---|
| `WorkflowQueue`, `MCWorkflowQueue` | the queue, its executors, users, stops, crashes and starts; its instances |
| `JobQueue` | what the queue promises whoever submits a job |
| `WorkflowQueueProofs` | its inductive invariant, and theorems for every instance |
| `WorkflowQueueLibraryProofs` | the library is held by whoever is inside it |
| `WorkflowQueueRefinementProofs` | that the queue implements `JobQueue`, step by step |
| `FolderEdit`, `MCFolderEdit` | one folder edit run and the files it moves; one edit that shifts files along, one that swaps two |
| `FolderEditProofs` | that no added file is ever in two places, for any folder and any interruption |
| `FolderEditMoveProofs` | what becomes of moved files, of others' files, and of a success or a failure |
| `PlaybackLedger` | what an account is promised about its listening record |
| `PlaybackReports`, `MCPlaybackReports` | the tabs, the outbox, the network and the record, which implement the ledger |
| `PlaybackReportsProofs` | that the record implements the ledger, and theorems for any tabs and clears |
| `SharedReads`, `MCSharedReads` | callers, shared requests and the writes that fence them |
| `SharedReadsProofs` | its theorems for any readers and writes |
| `RunWatcher`, `MCRunWatcher` | one run's entry in one page, and the server's stream |
| `RunWatcherProofs` | its theorems for any parts of a page |

### WorkflowQueue and the code

A run and its only job are inserted by one transaction, so `row[j]` holds both: the
status of the job and of the run, the lease (`locked_by`), retries, resumes, priority
and whether `available_at` has passed. `ex[e]` is the local state of an executor: the
background worker, or a request that leases the job it submitted (named by that job).
`pc` follows the call chain of `runNextQueuedWorkflowJob` and `leaseInlineWorkflowJob`:
`offered` (the request holds a job it may execute), `picked` (a lease is reserved and the
head of the queue read), `claimed`, `waiting` (for the library), `executing`, `returned`,
`handling` and `settling` (`handleWorkflowJobResult`), `leaving`. `ctx` is the executor's
context with its cause. `registry` is `workflowLeaseRegistry`.

The three kinds of executor result are told apart by constant sets, because the code
differs: `Graph` (guarded by the run's status), `Translation` (guarded by the job's
status, may yield, may be sent again), `Split` (row by row); all others write with
`finishWorkflowRunResultTx`, whatever the rows say. `Detached` jobs write under a context
that cannot be cancelled. An executor records at most one result in an attempt.

What is abstracted: payloads, progress, node rows, events, permissions and messages;
"partial" is "succeeded"; delays become the flag `due`; a panic is an error returned; a
retry's read and its transaction are one step, and so are the head read and the `TryLock`
of an inline request. The heartbeat is left out: it expires nothing. Retries that start a
new run are the submission of another job. The gate of a layout migration, the writers of
`remote_bulk.go` and `remote_origin_review.go`, and the settlement of ASR jobs are left out.

### FolderEdit and the code

`at` is the file at each path of the folder, `lift[m]` and `copy[i]` the files in the
staging folder, `ckpt` the checkpoint in the job's row and `act[...].mem` the copy in the
memory of whoever works. `act["executor"]` runs the phases of `run` (`stage`, `remove`,
`lift`, `publish`, `place`, `finish`) and `fail`; `act["settler"]` is
`settleCancelledWorkFolderEdit`, which a cancellation starts when no executor holds the
run, and a start when a cancelled run still has a staging folder. It waits for the library
without looking at the run again, so a retry may claim the run before it. A file operation
and the save of its checkpoint are two steps (`dirty`), and a replaced file is removed one
step before the new one is renamed into its place (`replacing`).

Files are identities with a size. `Matches` compares sizes, as `existingFileMatches` does,
and `Proven` compares identities, as the fingerprint of `work_folder_edit_recovery.go` does.

What is abstracted: a status check and the file operation behind it are one step, and so
are a failure's write and the requeue that follows it, and the deletion of a staging folder;
one cancellation signal is pending at a time; errors of the operating system may be
retryable or not. Merged folders, index rows, assignments, lyrics, offline pools, failing
saves, and files that change between a check and its operation are left out. The rest of
the queue is reduced to what one run sees of it; that the executor and the settlement are
never inside the library together is `LibraryExclusive` of `WorkflowQueue`.

### PlaybackReports and the code

`outbox` is the record all tabs of a browser share in IndexedDB
(`playbackReportOutbox.ts`): the history generation it belongs to, the last order it
gave, and its entries, quarantined (`blocked`) or not. `tab[t]` is the state of a tab's
`PlaybackReportScheduler`; `writes[t]` is its chain of outbox mutations, each an atomic
transaction whose continuation runs in the same task, so one action per write covers
both. `clock[t]` is the session its listening clock measures. `post`, `lookups`, `notices`,
`clearing` and `late` are what is on its way: a report, generation lookups, broadcasts of
a clear, the reply to a clear, and reports whose tab waits no longer but which may still
arrive. `generation`, `credited`, `counted` and `cursor` are the account's record:
`RecordPost` and `RecordLate` are `RecordPlaybackReport`, one transaction each, and
`ClearRecord` is `ClearHistory`. `tag`, `born`, `heard`, `taken` and `knownClear` are
facts the properties need; only `tag` is also read, as the generation in a session's entry.

A tab that closes loses the writes it had not run, and forgets what it knew. A tab hears
of a clear by the reply to its own request or by a broadcast; a lost reply announces
nothing, so the others find out by their lookups. A report has at most one entry of each
work. Of two editions of one family in a report, the order of the report decides whether
the older is recorded before the newer makes it stale (`early`).

What is abstracted: time (a tick, a retry after its backoff and a lookup may come at any
later moment), a failing or full IndexedDB, the byte limit and the map bound of a batch,
the deduplication of equal reports by `lastProgress` and `historyTotals`, work identities,
the report id (only that it decides ties: 0, 1 or 2), and the server's imports, days,
hours and statistics beyond the total `counted`.

### SharedReads and the code

`call[c]` is one call of `sharedGetJSON`: reading through the request of call
`call[c].request`, recovering from an interruption by a write, answered or failed.
`request[d]` is the request call `d` started: on its way (`live`), in the map that new
callers look into (`shown`), and the commit its answer was read at. `write[w]` is one call
of `fetchAPI` that changes something. `Fence` is `invalidateResources`: it takes requests
out of the map (`Forgotten`, computed from the two functions of `apiRequestResources.ts`),
and rejects those a directory change overtakes (`Interrupted`), whose callers read again
after the write, at most `MaxRecoveries` times. `seen` and `cut` record the commits the
page was told of, for the properties.

The server is external: it reads what is committed, and may commit a write whose answer
was lost. The header of the demo language and the server address, which are part of a
request's key, reads that are not shared, and `coalesceRuns` are left out.

### RunWatcher and the code

`w` is one entry of `workflowRunWatcher.ts`, with the names of the code; `subs` are its
listeners, `Polling` those that ask for the run to be kept current. The functions of the
file that change the entry are operators from entry to entry (`SchedulePoll`,
`StartStream`, `RefreshEntry`, `RevokeAccess`, `Land`), and every handler is an action
that applies them as the code calls them. A refresh reads the run, then its candidates;
`current` says that no denial overtook it. What its callers do when it is over (`start`,
`schedule`) is kept with it, since all of them wait for one promise. `tick` is a message
of the server's stream. `run` is the server's side: a version, whether the run is over,
and whether the account may read it.

The list of events and its cursor, the loading flag and the length of timers are left out,
and so is `workflowRunSettled`, whose waiter is one more subscriber.

## Runs

| Run | Instance | Checks |
|---|---|---|
| `queue_stops` | two library jobs, one of them inline and urgent, one detached; a crash and a stop, or a retry | `TypeOK`, `OneRunningRow`, `ExecutorKeepsItsJob`, `JobHasOneExecutor`, `LibraryExclusive`, `ResumesSpentOnOrphans`, `SettledStaysSettled` |
| `queue_progress` | a graph that needs the library, and a translation that may be sent again; one lease token, which `Fresh` gives out again once nothing carries it | `JobAndRunAgree`, `QueueSpec`, `OrphansAreSettled`, `QueuedJobsMove` |
| `queue_requests_progress` | a worker job that can be retried and an inline job with a split result, both for the library; no automatic retries | `QueuedJobsMove` |
| `queue_cancelled`, `queue_split_result` | the smallest instance that shows each finding | one property each, violated |
| `folder_edit_restarts` | the edit that shifts files; 2 crashes, 1 stop, 1 retry, 1 resume | `TypeOK`, `MovedFileSurvives`, `SuccessIsComplete`, `OneCopy`, `LeavesAfterCollecting` |
| `folder_edit_cancels` | the edit that swaps two files; 1 cancellation, 2 failures, 2 retries, 1 stop, 1 resume, 1 file of somebody else | `ForeignFileKept`, `SuccessIsComplete`, `StoppedEditPutsBack`, `CancelledIsSettled` |
| `folder_edit_lost` | the swapping edit; 1 crash, 1 cancellation | `MovedFileSurvives`, violated |
| `reports_tabs` | two tabs, two editions of one work, two sessions | `ClearedStaysCleared`, `CountedOnce`, `ClearIsNotUndone`, `AnnouncedIsRecorded`, `CheckpointsKept`, `ListeningKept`, `LedgerSpec` |
| `reports_drain` | two tabs, two works of which the server does not know one, one session | `TypeOK`, `OutboxDrains` |
| `shared_reads` | two readers of a work's page, two refreshes of its files, one write of its tags | `TypeOK`, `ReadersHaveRequests`, `ReadYourWrites`, `NoOvertakenAnswer`, `EveryReadSettles` |
| `run_watcher` | a part that shows the run and one that keeps it current; versions 1 to 3 of the run | `TypeOK`, `NothingStartsUnwatched`, `DeniedShowsNothing`, `SnapshotNeverGoesBack`, `EndIsShown` |

**Bounds.** A budget says how often each event of the environment happens; every other
step is unbounded, and `Spend` guards with it. `FolderEdit` has one budget per run; the
other modules draw one of several at the start (`Budgets`), so that one run covers several
combinations of events that matter together and skips the product of all of them:

- queue: `StopBudgets` a crash and a stop, or a retry (with the automatic one that
  `MaxRetries` 1 allows); `ProgressBudgets` a stop and a deferral, a lost
  write, a retry or resend, a crash and a deferral, a crash and a manual recovery;
  `RequestBudgets` a crash, a retry, or a lost write. Cancellations need no budget: a run
  is open at most once per retry.
- reports: `TabBudgets` a clear and two seconds, a failure or a refusal with two
  checkpoints or with a second, another device and a checkpoint, a closed tab with either
  kind; `DrainBudgets` pairs of
  one second, one clear and one failure, two checkpoints, and a refusal with either kind
  of report. The outbox holds two entries of each kind; orders grow by one (`Jump` 0), and
  another device uses order 1, so that ties with an own checkpoint happen.
- shared reads: one cancellation, one failure, or one change of session. `MaxRecoveries`
  is 1 where the code has 2: with two refreshes one more interruption than the bound occurs.
- run watcher: two failures, two changes of access, a retry, or a forgotten entry.

`SettledStaysSettled` is checked in `queue_stops` because only there do both executors hold
jobs whose results are written without a condition: a job is cancelled, its executor (the
worker for the detached job 1, the request for job 2) still writes a failure, and the job is
retried; the worker then claims job 2 while the request winds down. A graph and a translation
never get there.

In `queue_requests_progress` job 1 is the one that can be retried; why job 2 is not is said
under "What the code does not keep". `folder_edit_restarts` has no cancellation and
`folder_edit_cancels` no crash: what holds when both meet is left to the theorems of
`FolderEditMoveProofs`.

`MovedFileSurvives` is not asked of `folder_edit_cancels`: without a crash it is a theorem
(`OnlyLiftingIsFragile`). In both instances the moved files have one size, on purpose: a
step that takes one file for another, which `existingFileMatches` cannot exclude, happens.

Two jobs are enough for the properties that relate two executors, because an inline
executor has its own job and there is one worker; three lease tokens let both executors
hold one while a row carries a third. The inline job is the urgent one, so that both
executors reach each other's steps. Two moved files and one or two added ones are enough
for a path that one file frees and another takes, for a cycle, and for a replacement. Two
tabs are enough because tabs meet only in the outbox and in broadcasts. Symmetry is used in
runs without liveness only: for lease tokens, and for tabs, sessions and editions. Deadlock
checking is off because the systems really may stop: all jobs settled, all calls answered,
nobody playing, or the last crash spent.

**Fairness.** A goroutine that can take a step takes one (weak fairness of every executor,
of the settlement, of the handler that signals a cancellation); the worker and the
coordinator run on tickers and on wake-ups; executors return; `available_at` passes; a
stopped process exits and is started again. A holder of the library lets it go.
`EnterLibrary` is strongly fair because waiters of `contextMutex` queue on a channel and are
served in order, so no stream of other holders passes the worker over. In the client, the
queued writes of a tab run, ticks come, timers fire, an open stream ticks, and a request
that is neither lost nor refused is answered; in `RunWatcher` the refresh that a page calls
after an answered retry happens. Nothing is assumed of users: cancellations, retries,
recoveries, crashes, stops, listening, closing and clearing may never happen.

`OutboxDrains` asks that a tab stays open: nobody sends for a closed browser. Its escapes are
the code's own: a refused report is quarantined, and a refused lookup blocks the tab's time
until the next clear or reload. `EndIsShown` has one escape the code needs: after a retry,
a refresh that fails leaves the end of the earlier attempt on the page, with an error.

**The refinements.** `JobQueue` says what the queue promises: only a claim starts a job,
while no other is running and nobody works at it; the job then belongs to that executor
until it gives it up or dies; only a running job that nobody works at is settled by
others, and within its resumes; a success stays, and a cancellation gives way only to the
result its executor was about to write (for graphs and translations not even to that:
`Guarded`), until items are sent again. It knows neither leases nor
contexts nor mutexes, and one row per job. `QueueSpec` maps the two rows of a job to one
status and an executor to the job it works at from its claim on; every lease, wait, sweep
that spares a job, and step between a claim and a result stutters.

`PlaybackLedger` says what a listener is promised: a second is credited at
most once, only to a session measured under the record's generation, a cursor moves only
forward and only to a checkpoint somebody took, and a clear empties the totals and
leaves the cursors. It knows neither tabs nor an outbox nor messages. `LedgerSpec` states that
`PlaybackReports` implements it: `RecordPost`, `RecordLate` and `RecordElsewhere` are its
records, `Listen` and `WriteProgress` what it may record, `RequestClear` and
`ClearElsewhere` its clears, and every other step stutters.

## What the code does not keep

Three runs expect a violation; each property is a sentence of a document or a comment.

1. `CancelledRunStaysCancelled` (work_folder_edit_job.go:1169-1170): the unconditional
   result of `finishWorkflowRunResultTx` may follow the cancellation's commit. If it is a
   failure, the job can then be retried like any other failed job; `SettledStaysSettled` says
   that the one result still due is the only way out of a cancellation.
2. `InterruptedResultIsSettled` (docs/architecture/workflows.md:1051-1053): the three writers
   that write row by row leave a running run without a job when their context ends in
   between. Only a start or a manual recovery repairs it.
   A retry makes the same gap worse: a run is cancelled, its executor then writes a failed job
   row, a user retries the job (`retryFailedWorkflowJobFor` takes it: the run is closed and the
   job failed), and the executor writes the run row. The job is queued behind a failed run, and
   no claim takes it. TLC finds this against `QueuedJobsMove` when the `Recoverable` of
   `queue_requests_progress` contains the job with the split result.
3. `MovedFileSurvives` with a crash and a cancellation (docs/architecture/backend.md:734-736):
   a file that was lifted and not yet recorded as lifted is deleted with the staging folder.

Seen while modelling, and not stated as findings:

- docs/architecture/workflows.md:974-976 promises one job at a time; a cancellation frees the
  row before its executor has wound down, and the next job starts beside it. What must hold
  nevertheless is checked: `OneRunningRow`, `JobHasOneExecutor`, `LibraryExclusive`.
- When the last part that keeps a run current leaves and one that only shows it stays,
  `subscribeToRun` clears the poll timer and leaves the stream open (workflowRunWatcher.ts:318-321);
  its ticks go on starting refreshes. `NothingStartsUnwatched` allows this and nothing more: while
  nobody keeps the run current no timer is set and no stream or reconnect begins.
- A checkpoint whose answer was lost is answered "stale" when it is sent again, so its cursor
  is recorded and never announced to the page (`AnnouncedIsRecorded` holds; the converse does not).
  Which cursor is announced when both editions of a work were recorded is modelled
  (`Confirmed`) and the subject of no property.
- A session in quarantine stays there when it measures more.
- Listening measured under the new generation before a tab hears of the clear is thrown away by
  the tab's clearing write, whatever its generation: the exception in `ListeningKept`.
- An edit that only moves files collects nothing. When it is cancelled while its job is
  claimed and not yet activated, the settlement may put files back while the executor keeps
  the checkpoint it was handed. With two moved files of one size the executor then passes over
  the lifting it finds recorded, takes one file for the other by its size, and records the
  cancelled run as succeeded with nothing moved. Sizes that tell the files apart exclude it
  (`SuccessIsTrue`), and so does an added file in the runs.
- That a change of session rejects the reads of the old one is protected twice (the map is
  emptied, and each caller compares its session), so no single change of the code breaks it.

## Proofs

### The queue

The three `WorkflowQueue…Proofs` modules prove, for every set of jobs, inline jobs and
leases, every assignment of kinds and priorities and every budget that satisfy
`QueueAssumption`:

| Theorem | States |
|---|---|
| `TypeCorrect` | `Spec => []TypeOK` |
| `OneRunning` | `Spec => []OneRunningRow` |
| `KeepsItsJob` | `Spec => []ExecutorKeepsItsJob` |
| `OneExecutorPerJob` | `Spec => []JobHasOneExecutor` |
| `Settled` | `Spec => SettledStaysSettled`: a cancellation gives way only to the one result still due |
| `ResumesSpent` | `Spec => ResumesSpentOnOrphans` |
| `LibraryHeld` | `Spec => []LibraryExclusive` |
| `Agreement` | `Spec => []JobAndRunAgree` |
| `Implements` | `Spec => QueueSpec`, the refinement |

`QueueAssumption` only separates the sets that the code separates: worker ids, lease tokens
and sentinels are distinct, inline jobs need the library, and a job has one kind of result.

The inductive invariant `IInv` is `TypeOK` with six parts. `Assigned` says which
executors have a job and a lease, and that an inline executor's job is its own.
`LeasesHeld` says that the lease of an executor at work is in the registry and that no two
executors share one. `RunningHasLease` says that a running row carries a lease
token. `OneRunningRow`, `ExecutorKeepsItsJob` and
`JobHasOneExecutor` are the properties themselves: none is inductive alone. That a sweep
spares a live executor needs its lease to be registered from before the claim until after
the settlement; that a claim gives a job to nobody else's executor needs every working
executor to have its row running (then the claim's `NOT EXISTS` fails), cancelled, or
queued as a resent translation, and the last case needs that only the worker executes
translations.

`RowChanges` and `LocalChanges` say which actions touch a row and which touch an executor
or the registry, so that no later proof expands the rest. The step is then proved in two
layers. `RowStep` shows once that every step of `Next` moves a row in one of nine ways
(claimed, settled under its lease, cancelled, resent and so on), each with what it needed.
The lemmas on leases, on running rows and on executors reason about the nine moves and the
changes of executors, not about the actions. The two action properties follow from the
same classification.

`LibraryHeld` needs only the types and `Assigned` beside itself: who enters holds the
mutex, and who holds it gives it up after leaving. `Agreement` goes through the actions once
more. The statements that write a job and its run in one transaction keep them equal by
themselves; those with a guard on each keep them equal because the guards fall together
while both agree. Two facts carry the rest: only a result written row by row is ever half
recorded, and no executor at work finds its job in the queue (`ExecutorKeepsItsJob`),
since `failClaimedWorkflowJob` would fail the run of such a job and leave the job.

`Implements` maps the initial states, and each step by what it does to the row and to the
executor: `GivesUp` for the steps that end an executor's work with or without a result,
`Settles` for a sweep, a recovery or a start, `UserMoves` for cancellations, retries and
resent translations, `Stutters` for the rest. It needs from the invariant that a claim finds
no row running and nobody at its job (`OneRunningRow`, `ExecutorKeepsItsJob`,
`JobHasOneExecutor`), that a sweep settles only rows without an executor, and one part more:
`StartsAfresh`, that an executor has recorded nothing before it claims.

### The folder edit

`FolderEditProofs` and `FolderEditMoveProofs` prove, for any folder, plan, sizes and budgets
that satisfy `FolderEditAssumption`. It says what the planner guarantees or refuses
otherwise: no two files for one path; a path is taken only where the plan frees it or
replaces its file; a moved file is at one path, and its new path is another
(`workFolderEditMoves` drops a move to where the file is); a file that is moved or removed is
not replaced; and added files, or those of others, are new to the folder.

| Theorem | States |
|---|---|
| `TypeCorrect` | `Spec => []TypeOK` |
| `Invariance` | `Spec => []IInv` |
| `OnePlace` | `Spec => []OneCopy` |
| `CollectingComesFirst` | no file leaves its path before every added file is collected or recorded as published |
| `OnlyLiftingIsFragile` | `Spec /\ CrashesSpareLifting => []MovedFileSurvives` |
| `ForeignKept` | `ReplacedStandsOut => (Spec /\ CrashesSpareLifting => []ForeignFileKept)` |
| `SuccessIsTrue` | `SizesTell => (Spec => []SuccessIsComplete)` |
| `LeavesWhenCollected` | `SizesTell => (Spec => LeavesAfterCollecting)` |
| `StoppedPutsBack` | `SizesTell => (Spec /\ CrashesSpareLifting /\ ResumesSuffice => []StoppedEditPutsBack)` |

`OneCopy` is not inductive: after a crash between the rename that publishes a file and the
checkpoint that records it, only the file at its path tells that it is published. So
`Recognised` says that an added file in the folder has no copy, and is recorded as
published or is at its path and recorded as collected, which is what
`recoverPublishedItem` looks for. For that to last, nothing may take the file from its
path before the next attempt has recorded it: `CollectedFirst` says that behind the
collecting every added file is collected or published in the executor's memory, and
`ExecutorRecorded` that the memory is the checkpoint before the next operation begins
(`dirty`). `Mutex` keeps the settlement, which deletes the copies, out of these phases, and
`SettlerRecorded` says that it saves nothing new about added files. `CollectingComesFirst`
follows from the same parts. The proof does not need that nobody else touches the folder,
nor that a lifted file is the planned one, which `Matches` cannot tell.

The other theorems have hypotheses, and each names something the code leaves open:

- `CrashesSpareLifting`: no crash falls between a rename of `liftMoves` and the checkpoint
  that records it. The third finding shows what happens there otherwise. Any number of
  crashes may come anywhere else.
- `SizesTell`: the size of a moved file is that of no other file. `existingFileMatches` knows
  a moved file by its size only. The runs check the same properties where the moved files
  have one size, for the plans of the runs; for every plan `SuccessIsComplete` would be false
  there (the edit that only moves files, above).
- `ReplacedStandsOut`: a file of somebody else has another size than a file the edit
  replaces. `publishItem` deletes what it finds at the path if it has the planned size.
- `ResumesSuffice`: no stop or start finds the run at work with no resume left. Neither
  `ReleaseInterruptedJob` nor `SettleOrphans` puts files back when it fails such a run (see
  the hazards).

`MovedFileSurvives` holds because whoever works, and the checkpoint, names every file that is
in the staging folder as lifted and not placed (`LiftsKnown`), so whoever puts files back
passes over none (`NoneLeftBehind`) and keeps the staging folder when a file cannot go back.
The checkpoint lags behind by the file lifted last, which is the window of the crash.
`WorkMoves` reduces the steps of an executor at work to seven kinds by what they do to moved
files. `FolderSteps` does the same for the folder: every step of `Next` leaves it alone, or a
removal takes a file (`Removes`), a file is lifted (`Takes`), makes way (`GivesWay`), is
published (`Lands`), goes to its new place or back (`Returns`), or somebody adds one. The
remaining theorems reason about these.

`ForeignKept` counts: a file of somebody else may be lifted in place of a moved one of its
size, and then goes where that one would go; only `Appear` changes their number, and what
is cleared holds none of them.

`SuccessIsTrue` rests on `RecordsTrue`: what the checkpoint, the executor and the settlement
record as removed, published or placed is so in the folder, and stays so (`TruthLasts`);
a crash only loses records that say more. `PhasesInOrder` says that no phase
begins before the earlier ones recorded all of theirs, so that at the end the record names
everything; `NothingAfterSuccess` that the executor then only cleans up. No hypothesis on
crashes is needed. `LeavesWhenCollected` reads the same record in `CollectingComesFirst`.

`StoppedPutsBack` calls a lifted file *barred* when its old path is taken. `ReturnsAll` says
that whoever puts files back puts back, or still will, every file that is not barred;
`StoppedBarred` that in a failed run, or a cancelled one with no signal pending and nobody to
settle it, all lifted files are barred. The hard part is a retry between a cancellation and
its signal: the settlement of the old attempt may then be started beside a new one.
`LateSignalBarred` says that the new attempt begins with all barred, so that it does not
matter which of the two ends first. `OwnPlaces` (a moved file is at its old or new path) turns
that into `FilesInPlace`.

### The playback reports

`PlaybackReportsProofs` proves, for any tabs, works, families, sessions, capacities and
budgets that satisfy `ReportsAssumption` (finite sets of works and sessions, and numbers):

| Theorem | States |
|---|---|
| `Invariance` | `Spec => []IInv` |
| `TypeCorrect` | `Spec => []TypeOK` |
| `CountedInFull` | `Spec => []CountedOnce` |
| `Implements` | `Spec => LedgerSpec`, the refinement |
| `ClearedTime` | `Spec => []ClearedStaysCleared` |
| `ClearHolds` | `Spec => []ClearIsNotUndone` |
| `AnnouncedInRecord` | `Spec => []AnnouncedIsRecorded` |
| `NoCheckpointLost` | `Spec => CheckpointsKept` |
| `NoListeningLost` | `Spec => ListeningKept` |

The invariant says of everything on its way what it may be. `ProgressAcks` and `HistoryAcks`
are the acknowledgements that are true of the record: a settled checkpoint is not later than
its cursor, a settled total of the record's generation is in the record, and a session
answered as cleared is of another generation. `TakenCheckpoints` and `MeasuredTotals` are
what was taken and measured. `WritesOK`, `PostOK`, `LateOK` and `LookupsOK` say that chains,
reports, late reports and lookups hold only such entries, `OutboxOK` that the outbox does
and that its sessions are of its generation, `TakenOK` that every order is given once, and
`Dated` that whatever was read in a tab's present epoch has seen the last clear that tab
heard of.

The proof has three layers. Every step moves the record and what was measured and taken in
one of six ways, or not at all (`NextMoves`): a second passes, a checkpoint is taken, the
history is cleared, a report is recorded, another device reports. Each move is a step of the
ledger (`MovesLedger`), and each leaves what is true of the record true (`MovesGrown`), which
is where a clear and a late answer meet: a clear makes no acknowledged session one of the new
generation. Then tabs (`NextTabs`): each ages, entering a new epoch when it hears of a
clear, or closes and forgets everything on its way. With both, what was good stays good
(`NextGrows`), and each action has to be good only in what it adds: one lemma each for
chains, lookups, reports and the outbox. That an acknowledgement removes only what the record
has follows from the truth of the acknowledgement and from orders being given once.

`CountedOnce` relates the counter `counted` to the sum of what is credited over all sessions,
`SumFunction` of the library, a fold that is recursive over finite sets. The library's
induction theorems take a predicate as a parameter, which the provers here cannot instantiate,
so the proof uses sets instead (`Naturals`): the numbers up to which the subsets of that many
elements have sums contain zero and with each number the next (`SumsExist`). From that follows
what the moves need: a sum of zeros is zero, and a sum grows by what its members grow by.
`TypeOK` then follows from `IInv`, the sum, and the parts that no other property needs (`RestOK`).

### The shared reads

`SharedReadsProofs` proves `Spec => []TypeOK`, `Spec => []ReadersHaveRequests`,
`Spec => ReadYourWrites` and `Spec => NoOvertakenAnswer` for any paths, mutations, calls,
writes and budgets. `ReadsAssumption` carries the one thing the client cannot know: a
mutation changes on the server only what its resources name (`Changes[m] \subseteq
Forgotten[m]`).

The invariant's parts: `OwnRequests` (a request is for the path of the call that started
it), `Served` and `Wanted` (readers wait for live requests of their session, and live
requests have readers), `OnlyLiveShown`, `ToldIsCommitted` (the page is told of commits
only), `ShownAreFresh` (the request a new caller would join was read, or will be read,
after every write the page was told of), `ReadersAreFresh` and `LiveAreNotOvertaken`. The
first of the last three is the heart: it holds at the end of a write because the fence is
put up again then, which is what the mutant of `ReadYourWrites` leaves out.

### The run watcher

`RunWatcherProofs` proves `Spec => []TypeOK`, `Spec => NothingStartsUnwatched`,
`Spec => []DeniedShowsNothing` and `Spec => SnapshotNeverGoesBack` for any parts of a page,
flights, budgets and length of the run. The invariant is stated about an entry, its listeners and
the server's version as arguments (`Good(e, s, v)`), because handlers apply several functions
to the entry in one step: one lemma per function (`SchedulePollGood` to `LandGood`) shows
that it keeps `Good`, and the proof of each action composes them. `StepsCalmly` shows the
same way that no step starts a stream or a reconnect where nobody polls. The parts of `Good`:
`OneFlight` (the refresh that is named is the only one on its way), `Quiet` (no poll timer
where nobody polls, no stream where nobody is left), `Denied` (the property),
`Ahead` (the answer that a refresh that may still publish brings, or will
bring, is at least as new as the snapshot) and `AtMost` (nothing is newer than the server).

### Only model-checked

All liveness (`OrphansAreSettled`, `QueuedJobsMove`, `CancelledIsSettled`, `OutboxDrains`,
`EveryReadSettles`, `EndIsShown`), which is out of the prover's reach. Of the folder edit,
what holds when moved files share a size: the runs check `SuccessIsComplete`,
`LeavesAfterCollecting` and `StoppedEditPutsBack` there, and the theorems assume `SizesTell`.
Every other invariant and action property that a passing run checks is a theorem without
such a proviso, but for `MovedFileSurvives` and `ForeignFileKept` as said above.

## Not modelled, and the plan

Next, in this order:

1. `FetchPublication`: the manifest from *planned* to *completed*, the renames of
   `publishRemoteFetchRoot` and their rollbacks, `reconcilePublishingRemoteFetch`, a stop
   that lets a started publication finish, a crash between any two steps. Properties: target
   or backup is complete at every step, a recovery never publishes half a folder, a
   publication is registered once.
2. A run of `FolderEdit` with a crash and another program, for the hazard at
   `work_folder_edit_job.go:641`, and one for retries whose copies were discarded.
3. `RealtimeLimiter` (slots, bounded waiters, timeouts, a changing limit), the recovery of a
   failed playback source beside a change of track, then the metadata tag queue.

Left out for good: schema migrations and the SQLite layer (taken as given), account and
session rows, indexing and metadata mapping, packaging, the mobile shells and
`kikoto-helper`. They are single transactions, data mapping or packaging.

Most of the client's lines have no states a model could tell apart, and stay out for that
reason: the tables of texts in five languages (`i18n/surfaces`, about twenty thousand lines),
the layout of pages, cards and dialogs in JSX, the parsing and formatting of addresses, dates,
lyrics and filters, which unit tests cover by examples, and the typed wrappers of the API.
What they do to state that something else also changes is a call into the modules above.
