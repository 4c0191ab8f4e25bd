---------------------------- MODULE WorkflowQueue ----------------------------
(***************************************************************************)
(* The durable workflow queue of the backend: job_runner.go,               *)
(* workflow_leases.go, workflow/orphans.go, workflow/shutdown.go, the      *)
(* cancel, retry and recover handlers of workflow_run_actions.go, and the  *)
(* ways an executor records its result.                                    *)
(*                                                                         *)
(* SQLite gives every transaction the one writer connection, so a          *)
(* transaction is one action; a read through the reader pool is a step of  *)
(* its own and may be stale when it is used.  A run and its only job are   *)
(* inserted by one transaction, so a job stands for both rows.             *)
(*                                                                         *)
(* Executors are the background worker and the HTTP requests that lease    *)
(* their own job inline; an inline executor is named by that job.          *)
(***************************************************************************)
EXTENDS Integers, FiniteSets

CONSTANTS
    Job,            \* row ids; the order of ids is the order of insertion
    Inline,         \* jobs whose request first tries to execute them itself
    Library,        \* jobs that change library folders (changesLibraryFolders)
    Recoverable,    \* jobs inserted with recoverable = 1
    Graph,          \* custom workflows: guarded results, may defer themselves
    Split,          \* jobs whose result is written row by row, not in one tx
    Translation,    \* AI translation: yields, and is queued again by a resend
    Detached,       \* jobs whose result is written WithoutCancel
    Priority,       \* priority each job is inserted with
    Background,     \* workflow.JobPriorityBackground
    MaxRetries,     \* max_retries of a job
    Worker,         \* the background worker
    Lease,          \* lease tokens
    NoLease,        \* an empty locked_by
    NoJob,
    NoOne,          \* nobody holds a mutex, nobody registered a lease
    Reserved,       \* a lease reserved and not yet activated
    Other,          \* a library holder that is no workflow executor
    Budgets         \* how often each bounded event occurs: one is drawn at the start

Exec == {Worker} \union Inline

Occasion == {"retry", "recover", "crash", "stop", "defer", "lost"}

ASSUME QueueAssumption ==
    /\ Job \subseteq Nat
    /\ IsFiniteSet(Job)
    /\ Inline \subseteq (Job \cap Library)
    /\ Graph \cap (Split \union Translation \union Inline) = {}
    /\ Translation \cap (Split \union Inline) = {}
    /\ Worker \notin Job
    /\ NoJob \notin Job
    /\ NoLease \notin Lease
    /\ NoOne \notin Exec
    /\ Other \notin (Exec \union {NoOne})
    /\ {NoOne, Reserved} \cap Job = {}
    /\ NoOne # Reserved
    /\ Priority \in [Job -> Int]
    /\ Background \in Int
    /\ MaxRetries \in Nat
    /\ Budgets \subseteq [Occasion -> Nat]

VARIABLES
    row,            \* workflow_job and workflow_run of every job
    ex,             \* the local state of every executor
    registry,       \* workflowLeaseRegistry: what each lease token is doing
    migrationMu,    \* layoutMigrationMu, held while a claim is made
    libraryMu,      \* mediaCleanupMu, the media:cleanup resource
    mode,           \* the service: up, stopping, or down
    cancelling,     \* cancelled runs whose executors were not yet signalled
    left            \* what is left of the budget

vars == <<row, ex, registry, migrationMu, libraryMu, mode, cancelling, left>>

-----------------------------------------------------------------------------
(* Rows.  "partial" is a success here: nothing in the queue tells them apart. *)

Open == {"queued", "running"}
Status == Open \union {"absent", "succeeded", "failed", "cancelled"}

Row == [status : Status, run : Status, lock : Lease \union {NoLease},
        retries : Nat, resumes : Nat, priority : Int, due : BOOLEAN]

Context == {"live", "cancelled", "stopped"}
Outcome == {"ok", "error", "transient", "backoff"}
PC == {"idle", "offered", "picked", "claimed", "waiting", "executing",
       "returned", "handling", "settling", "leaving"}

\* recorded: has the executor itself moved the row of its job ("half": a
\* split result whose job row is written and whose run row is not).
Local == [pc : PC, job : Job \union {NoJob}, lease : Lease \union {NoLease},
          ctx : Context, outcome : Outcome, recorded : {"no", "half", "yes"},
          retries : Nat]

TypeOK ==
    /\ row \in [Job -> Row]
    /\ ex \in [Exec -> Local]
    /\ registry \in [Lease -> Job \union {NoOne, Reserved}]
    /\ migrationMu \in Exec \union {NoOne}
    /\ libraryMu \in Exec \union {NoOne, Other}
    /\ mode \in {"up", "stopping", "down"}
    /\ cancelling \subseteq Job
    /\ left \in [Occasion -> Nat]

Idle == [pc |-> "idle", job |-> NoJob, lease |-> NoLease, ctx |-> "live",
         outcome |-> "ok", recorded |-> "no", retries |-> 0]

Init ==
    /\ row = [j \in Job |->
                [status |-> "absent", run |-> "absent", lock |-> NoLease,
                 retries |-> 0, resumes |-> 0, priority |-> Priority[j],
                 due |-> TRUE]]
    /\ ex = [e \in Exec |-> Idle]
    /\ registry = [l \in Lease |-> NoOne]
    /\ migrationMu = NoOne
    /\ libraryMu = NoOne
    /\ mode = "up"
    /\ cancelling = {}
    /\ left \in Budgets

Spend(o) == /\ left[o] > 0
            /\ left' = [left EXCEPT ![o] = @ - 1]

\* No executor holds l and no row carries it: reserve() never returns a token
\* twice, and the instance nonce keeps earlier processes apart.
Fresh(l) == /\ registry[l] = NoOne
            /\ \A j \in Job : row[j].lock # l
            /\ \A e \in Exec : ex[e].lease # l

NoneRunning == \A j \in Job : row[j].status # "running"

Claimable(j) == /\ row[j].status = "queued"
                /\ row[j].run = "queued"
                /\ row[j].due

\* ORDER BY priority DESC, created_at ASC, id ASC LIMIT 1
Head(j) == /\ Claimable(j)
           /\ \A i \in Job \ {j} : Claimable(i) =>
                 \/ row[j].priority > row[i].priority
                 \/ row[j].priority = row[i].priority /\ j < i

Unlocked(r, status) == [r EXCEPT !.status = status, !.lock = NoLease]

\* UPDATE workflow_run ... WHERE status IN ('queued', 'running')
RunTo(r, status) == IF r.run \in Open THEN [r EXCEPT !.run = status] ELSE r

\* Mutant: whatever is not open is queued again, so a failure that is reported
\* after the run was cancelled revives it.
RequeuedUnguarded(r, lease, counted, due) ==
    IF r.status \in {"failed", "cancelled"} \/ (r.status = "running" /\ r.lock = lease)
    THEN [Unlocked(r, "queued") EXCEPT
             !.run = "queued", !.due = due,
             !.retries = IF counted THEN r.retries + 1 ELSE r.retries]
    ELSE r

\* requeueWorkflowJobTx: the job leaves a failed state, or the state running
\* under this lease; the run is queued whatever its status was.
Requeued(r, lease, counted, due) ==
    IF r.status = "failed" \/ (r.status = "running" /\ r.lock = lease /\ lease # NoLease)
    THEN [Unlocked(r, "queued") EXCEPT
             !.run = "queued", !.due = due,
             !.retries = IF counted THEN r.retries + 1 ELSE r.retries]
    ELSE r

\* failLeasedWorkflowJob with failWorkflowRunTx
FailedUnder(r, lease) ==
    IF r.status = "running" /\ r.lock = lease
    THEN RunTo(Unlocked(r, "failed"), "failed")
    ELSE r

\* recoverable = 1 AND resume_count < max_retries
Resumable(j) == j \in Recoverable /\ row[j].resumes < MaxRetries

\* Mutant: a stop spends a resume as well.
LeaseSettledAlwaysSpends(j, spent) ==
    IF Resumable(j)
    THEN RunTo([Unlocked(row[j], "queued") EXCEPT
                   !.resumes = @ + 1, !.due = TRUE], "queued")
    ELSE RunTo(Unlocked(row[j], "failed"), "failed")

\* Mutant: a stop gives a resume back.
LeaseSettledRefunds(j, spent) ==
    IF Resumable(j)
    THEN RunTo([Unlocked(row[j], "queued") EXCEPT
                   !.resumes = @ + 2 * spent - 1, !.due = TRUE], "queued")
    ELSE RunTo(Unlocked(row[j], "failed"), "failed")

\* Mutant: a job that cannot resume is left as it is.
LeaseSettledResumesOnly(j, spent) ==
    IF Resumable(j)
    THEN RunTo([Unlocked(row[j], "queued") EXCEPT
                   !.resumes = row[j].resumes + spent, !.due = TRUE], "queued")
    ELSE row[j]

\* settleLeaseTx; the sweep spends one resume, a service stop spends none
LeaseSettled(j, spent) ==
    IF Resumable(j)
    THEN RunTo([Unlocked(row[j], "queued") EXCEPT
                   !.resumes = row[j].resumes + spent, !.due = TRUE], "queued")
    ELSE RunTo(Unlocked(row[j], "failed"), "failed")

\* settleIdleRuns: a run left running beside a queued job returns to the
\* queue, and a run without a queued or running job fails.
IdleRunRepaired(r) ==
    CASE r.run = "running" /\ r.status = "queued" -> [r EXCEPT !.run = "queued"]
      [] r.run \in Open /\ r.status \notin Open   -> [r EXCEPT !.run = "failed"]
      [] OTHER                                    -> r

-----------------------------------------------------------------------------
(* Submission, and the passing of time.                                    *)

Submit(j) ==
    /\ mode # "down"
    /\ row[j].status = "absent"
    /\ \A i \in Job : i < j => row[i].status # "absent"
    /\ row' = [row EXCEPT ![j].status = "queued", ![j].run = "queued"]
    /\ ex' = IF j \in Inline
             THEN [ex EXCEPT ![j] = [Idle EXCEPT !.pc = "offered", !.job = j]]
             ELSE ex
    /\ UNCHANGED <<registry, migrationMu, libraryMu, mode, cancelling, left>>

\* available_at passes
BecomeDue(j) ==
    /\ row[j].status = "queued"
    /\ ~row[j].due
    /\ row' = [row EXCEPT ![j].due = TRUE]
    /\ UNCHANGED <<ex, registry, migrationMu, libraryMu, mode, cancelling, left>>

-----------------------------------------------------------------------------
(* Claiming.  Both kinds of executor claim under layoutMigrationMu.        *)

\* runNextQueuedWorkflowJob: reserve a lease, read the candidate
Pick(l, j) ==
    /\ mode = "up"
    /\ ex[Worker].pc = "idle"
    /\ migrationMu = NoOne
    /\ Fresh(l)
    /\ NoneRunning
    /\ Head(j)
    /\ ex' = [ex EXCEPT ![Worker] =
                 [Idle EXCEPT !.pc = "picked", !.job = j, !.lease = l]]
    /\ registry' = [registry EXCEPT ![l] = Reserved]
    /\ migrationMu' = Worker
    /\ UNCHANGED <<row, libraryMu, mode, cancelling, left>>

\* leaseInlineWorkflowJob: the request's job heads the queue, and the library
\* is free (TryLock)
PickInline(l, e) ==
    /\ ex[e].pc = "offered"
    /\ ex[e].ctx = "live"
    /\ migrationMu = NoOne
    /\ Fresh(l)
    /\ Head(e)
    /\ libraryMu = NoOne
    /\ ex' = [ex EXCEPT ![e].pc = "picked", ![e].lease = l]
    /\ registry' = [registry EXCEPT ![l] = Reserved]
    /\ migrationMu' = e
    /\ libraryMu' = e
    /\ UNCHANGED <<row, mode, cancelling, left>>

\* errWorkflowJobQueued: another job heads the queue or the library is busy,
\* so the job is left to the worker
LeaveQueued(e) ==
    /\ ex[e].pc = "offered"
    /\ migrationMu = NoOne
    /\ \/ ex[e].ctx # "live"
       \/ ~Head(e)
       \/ libraryMu # NoOne
    /\ ex' = [ex EXCEPT ![e] = Idle]
    /\ UNCHANGED <<row, registry, migrationMu, libraryMu, mode, cancelling, left>>

\* Mutant: the transaction trusts what the candidate read saw running.
ClaimUnchecked(e) ==
    LET j == ex[e].job IN
    /\ ex[e].pc = "picked"
    /\ ex[e].ctx = "live"
    /\ Claimable(j)
    /\ row' = [row EXCEPT ![j].status = "running", ![j].run = "running",
                          ![j].lock = ex[e].lease]
    /\ ex' = [ex EXCEPT ![e].pc = "claimed", ![e].retries = row[j].retries]
    /\ migrationMu' = IF e = Worker THEN NoOne ELSE migrationMu
    /\ UNCHANGED <<registry, libraryMu, mode, cancelling, left>>

\* claimQueuedWorkflowJob: one transaction rechecks everything the candidate
\* read had found, and writes the lease
Claim(e) ==
    LET j == ex[e].job IN
    /\ ex[e].pc = "picked"
    /\ ex[e].ctx = "live"
    /\ Claimable(j)
    /\ NoneRunning
    /\ row' = [row EXCEPT ![j].status = "running", ![j].run = "running",
                          ![j].lock = ex[e].lease]
    /\ ex' = [ex EXCEPT ![e].pc = "claimed", ![e].retries = row[j].retries]
    /\ migrationMu' = IF e = Worker THEN NoOne ELSE migrationMu
    /\ UNCHANGED <<registry, libraryMu, mode, cancelling, left>>

\* Mutant: a request that could not claim keeps the library.
ClaimMissedKeepsLibrary(e) ==
    /\ ex[e].pc = "picked"
    /\ \/ ex[e].ctx # "live"
       \/ ~Claimable(ex[e].job)
       \/ ~NoneRunning
    /\ registry' = [registry EXCEPT ![ex[e].lease] = NoOne]
    /\ ex' = [ex EXCEPT ![e] = Idle]
    /\ migrationMu' = NoOne
    /\ UNCHANGED <<row, libraryMu, mode, cancelling, left>>

ClaimMissed(e) ==
    /\ ex[e].pc = "picked"
    /\ \/ ex[e].ctx # "live"
       \/ ~Claimable(ex[e].job)
       \/ ~NoneRunning
    /\ registry' = [registry EXCEPT ![ex[e].lease] = NoOne]
    /\ ex' = [ex EXCEPT ![e] = Idle]
    /\ migrationMu' = NoOne
    /\ libraryMu' = IF e \in Inline THEN NoOne ELSE libraryMu
    /\ UNCHANGED <<row, mode, cancelling, left>>

\* From here cancelActiveWorkflowJob finds the executor.
Activate(e) ==
    /\ ex[e].pc = "claimed"
    /\ registry' = [registry EXCEPT ![ex[e].lease] = ex[e].job]
    /\ ex' = [ex EXCEPT ![e].pc =
                 IF e = Worker /\ ex[e].job \in Library THEN "waiting" ELSE "executing"]
    /\ migrationMu' = IF e = Worker THEN migrationMu ELSE NoOne
    /\ UNCHANGED <<row, libraryMu, mode, cancelling, left>>

\* executeClaimedWorkflowJobWithResources: LockContext
EnterLibrary ==
    /\ ex[Worker].pc = "waiting"
    /\ ex[Worker].ctx = "live"
    /\ libraryMu = NoOne
    /\ libraryMu' = Worker
    /\ ex' = [ex EXCEPT ![Worker].pc = "executing"]
    /\ UNCHANGED <<row, registry, migrationMu, mode, cancelling, left>>

\* Mutant: the unlock is deferred before the lock is taken.
GiveUpLibraryUnlocks ==
    /\ ex[Worker].pc = "waiting"
    /\ ex[Worker].ctx # "live"
    /\ ex' = [ex EXCEPT ![Worker].pc = "returned", ![Worker].outcome = "ok"]
    /\ libraryMu' = NoOne
    /\ UNCHANGED <<row, registry, migrationMu, mode, cancelling, left>>

\* The wait ends with the job's context.  What a cancelled edit still has to
\* put back is settled by another holder of the library, not by this executor.
GiveUpLibrary ==
    /\ ex[Worker].pc = "waiting"
    /\ ex[Worker].ctx # "live"
    /\ ex' = [ex EXCEPT ![Worker].pc = "returned", ![Worker].outcome = "ok"]
    /\ UNCHANGED <<row, registry, migrationMu, libraryMu, mode, cancelling, left>>

-----------------------------------------------------------------------------
(* Results an executor records itself, each at most once per attempt.      *)

CanWrite(e) == /\ ex[e].pc = "executing"
               /\ ex[e].ctx = "live" \/ ex[e].job \in Detached

Recorded(e) == ex' = [ex EXCEPT ![e].recorded = "yes"]

\* finishWorkflowRunResultTx: unconditional, job and run in one transaction
RecordResult(e, status) ==
    LET j == ex[e].job IN
    /\ CanWrite(e)
    /\ ex[e].recorded = "no"
    /\ j \notin Split \union Graph \union Translation
    /\ row' = [row EXCEPT ![j] = [Unlocked(@, status) EXCEPT !.run = status]]
    /\ Recorded(e)
    /\ UNCHANGED <<registry, migrationMu, libraryMu, mode, cancelling, left>>

\* Mutant: the result of a graph is written whatever became of its run.
RecordGraphResultAlways(e, status) ==
    LET j == ex[e].job IN
    /\ CanWrite(e)
    /\ ex[e].recorded = "no"
    /\ j \in Graph
    /\ row' = [row EXCEPT ![j] = [Unlocked(@, status) EXCEPT !.run = status]]
    /\ Recorded(e)
    /\ UNCHANGED <<registry, migrationMu, libraryMu, mode, cancelling, left>>

\* finishWorkflowGraphJob and markWorkflowGraphRunAndJobFailed: only while
\* the run is queued or running
RecordGraphResult(e, status) ==
    LET j == ex[e].job IN
    /\ CanWrite(e)
    /\ ex[e].recorded = "no"
    /\ j \in Graph
    /\ row' = IF row[j].run \in Open
              THEN [row EXCEPT ![j] =
                       [IF @.status \in Open THEN Unlocked(@, status) ELSE @
                        EXCEPT !.run = status]]
              ELSE row
    /\ Recorded(e)
    /\ UNCHANGED <<registry, migrationMu, libraryMu, mode, cancelling, left>>

\* finishAITranslationJob: only while the job is running; items queued in the
\* meantime put it back in the queue instead
RecordTranslation(e, status) ==
    LET j == ex[e].job
        r == row[j] IN
    /\ CanWrite(e)
    /\ ex[e].recorded = "no"
    /\ j \in Translation
    /\ r.status = "running"
    /\ row' = [row EXCEPT ![j] =
                  [Unlocked(r, status)
                   EXCEPT !.run = IF r.run = "running" THEN status ELSE r.run]]
    /\ Recorded(e)
    /\ UNCHANGED <<registry, migrationMu, libraryMu, mode, cancelling, left>>

\* deferWorkflowJob by the executor: it yields between two requests, or finds
\* newly queued items when it finishes
Yield(e) ==
    LET j == ex[e].job IN
    /\ CanWrite(e)
    /\ ex[e].recorded = "no"
    /\ j \in Translation
    /\ Spend("defer")
    /\ row' = [row EXCEPT ![j] = Requeued(@, ex[e].lease, FALSE, FALSE)]
    /\ Recorded(e)
    /\ UNCHANGED <<registry, migrationMu, libraryMu, mode, cancelling>>

\* finishLocalMediaDelete, finishMediaCacheCleanup, finishCacheLimitCleanup:
\* the job row by one statement ...
RecordJobRow(e, status) ==
    LET j == ex[e].job IN
    /\ CanWrite(e)
    /\ ex[e].recorded = "no"
    /\ j \in Split
    /\ row' = [row EXCEPT ![j] = Unlocked(@, status)]
    /\ ex' = [ex EXCEPT ![e].recorded = "half",
                        ![e].outcome = IF status = "failed" THEN "error" ELSE "ok"]
    /\ UNCHANGED <<registry, migrationMu, libraryMu, mode, cancelling, left>>

\* ... and the run row by the next
RecordRunRow(e) ==
    /\ CanWrite(e)
    /\ ex[e].recorded = "half"
    /\ row' = [row EXCEPT ![ex[e].job].run =
                  IF ex[e].outcome = "error" THEN "failed" ELSE "succeeded"]
    /\ Recorded(e)
    /\ UNCHANGED <<registry, migrationMu, libraryMu, mode, cancelling, left>>

\* failClaimedWorkflowJob: not conditioned on the lease
FailClaimed(e) ==
    LET j == ex[e].job IN
    /\ CanWrite(e)
    /\ ex[e].recorded = "no"
    /\ j \notin Translation
    /\ row' = [row EXCEPT ![j] =
                  RunTo(IF @.status = "running" /\ @.run # "cancelled"
                        THEN Unlocked(@, "failed") ELSE @, "failed")]
    /\ Recorded(e)
    /\ UNCHANGED <<registry, migrationMu, libraryMu, mode, cancelling, left>>

\* Mutant: only the job row is queued again.
DeferGraphJobOnly(e) ==
    LET j == ex[e].job IN
    /\ CanWrite(e)
    /\ ex[e].recorded = "no"
    /\ j \in Graph
    /\ Spend("defer")
    /\ row' = [row EXCEPT ![j] =
                  IF @.status = "running"
                  THEN [Unlocked(@, "queued") EXCEPT
                           !.priority = Background - 1, !.due = FALSE]
                  ELSE @]
    /\ Recorded(e)
    /\ UNCHANGED <<registry, migrationMu, libraryMu, mode, cancelling>>

\* deferWorkflowGraphJob: a graph that waits for its child runs
DeferGraph(e) ==
    LET j == ex[e].job
        r == row[j] IN
    /\ CanWrite(e)
    /\ ex[e].recorded = "no"
    /\ j \in Graph
    /\ Spend("defer")
    /\ row' = [row EXCEPT ![j] =
                  [IF r.status = "running"
                   THEN [Unlocked(r, "queued") EXCEPT
                            !.priority = Background - 1, !.due = FALSE]
                   ELSE r
                   EXCEPT !.run = IF r.run = "running" THEN "queued" ELSE r.run]]
    /\ Recorded(e)
    /\ UNCHANGED <<registry, migrationMu, libraryMu, mode, cancelling>>

\* The executor returns, fails, or panics, having recorded a result or not; "ok"
\* is every outcome that asks for no retry.  The worker unlocks the library
\* before it looks at the result.
Return(e, outcome) ==
    /\ ex[e].pc = "executing"
    /\ ex[e].recorded = "half" => ex[e].ctx # "live"
    /\ e \in Inline => outcome = "ok"
    /\ ex' = [ex EXCEPT ![e].pc = "returned", ![e].outcome = outcome]
    /\ libraryMu' = IF e = Worker /\ ex[e].job \in Library THEN NoOne ELSE libraryMu
    /\ IF outcome = "backoff" THEN Spend("defer") ELSE UNCHANGED left
    /\ UNCHANGED <<row, registry, migrationMu, mode, cancelling>>

-----------------------------------------------------------------------------
(* handleWorkflowJobResult, and the closer of an inline lease.             *)

\* ReleaseInterruptedJob: nothing changes when the lease no longer owns a
\* running job or the run is cancelled
ReleaseInterrupted(e) ==
    LET j     == ex[e].job
        owned == row[j].status = "running" /\ row[j].lock = ex[e].lease
                 /\ row[j].run # "cancelled" IN
    /\ ex[e].pc = "returned"
    /\ ex[e].ctx = "stopped"
    /\ row' = IF owned THEN [row EXCEPT ![j] = LeaseSettled(j, 0)] ELSE row
    /\ ex' = [ex EXCEPT ![e].pc = IF owned \/ e \in Inline THEN "leaving" ELSE "handling",
                        ![e].recorded = IF owned THEN "yes" ELSE @]
    /\ UNCHANGED <<registry, migrationMu, libraryMu, mode, cancelling, left>>

\* An inline request stops its own context first, and knows no retry: it
\* settles what its operation left.
HandleResult(e) ==
    /\ ex[e].pc = "returned"
    /\ ex[e].ctx # "stopped"
    /\ ex' = [ex EXCEPT ![e].pc = IF e = Worker THEN "handling" ELSE "settling",
                        ![e].ctx = IF e \in Inline THEN "cancelled" ELSE @]
    /\ UNCHANGED <<row, registry, migrationMu, libraryMu, mode, cancelling, left>>

WantsRequeue(e) == \/ ex[e].outcome = "backoff"
                   \/ ex[e].outcome = "transient" /\ ex[e].retries < MaxRetries

\* requeueFailedWorkflowJob after a transient failure, deferWorkflowJob while
\* the source is rate limited; only the first counts as a retry
Requeue(e) ==
    LET j == ex[e].job IN
    /\ ex[e].pc = "handling"
    /\ WantsRequeue(e)
    /\ row' = [row EXCEPT ![j] =
                  Requeued(@, ex[e].lease, ex[e].outcome = "transient", FALSE)]
    /\ ex' = [ex EXCEPT ![e].pc = "settling",
                        ![e].recorded = "yes"]
    /\ UNCHANGED <<registry, migrationMu, libraryMu, mode, cancelling, left>>

Settling(e) == \/ ex[e].pc = "settling"
               \/ ex[e].pc = "handling" /\ ~WantsRequeue(e)

\* settleUnfinishedWorkflowJob: a job stopped by a service stop is left alone
SettleUnfinished(e) ==
    LET j == ex[e].job IN
    /\ Settling(e)
    /\ row' = IF ex[e].ctx = "stopped" THEN row
              ELSE [row EXCEPT ![j] = FailedUnder(@, ex[e].lease)]
    /\ ex' = [ex EXCEPT ![e].pc = "leaving"]
    /\ UNCHANGED <<registry, migrationMu, libraryMu, mode, cancelling, left>>

\* The transaction of one of the three steps above fails and changes nothing.
WriteLost(e) ==
    /\ Spend("lost")
    /\ \/ /\ ex[e].pc = "returned"
          /\ ex[e].ctx = "stopped"
          /\ ex' = [ex EXCEPT ![e].pc = IF e = Worker THEN "handling" ELSE "leaving"]
       \/ /\ ex[e].pc = "handling"
          /\ WantsRequeue(e)
          /\ ex' = [ex EXCEPT ![e].pc = "settling"]
       \/ /\ Settling(e)
          /\ ex' = [ex EXCEPT ![e].pc = "leaving"]
    /\ UNCHANGED <<row, registry, migrationMu, libraryMu, mode, cancelling>>

\* Mutant: the lease is never released.
LeaveKeepingLease(e) ==
    /\ ex[e].pc = "leaving"
    /\ ex' = [ex EXCEPT ![e] = Idle]
    /\ libraryMu' = IF e \in Inline THEN NoOne ELSE libraryMu
    /\ UNCHANGED <<row, registry, migrationMu, mode, cancelling, left>>

\* The lease is released last; an inline request then unlocks the library.
Leave(e) ==
    /\ ex[e].pc = "leaving"
    /\ registry' = [registry EXCEPT ![ex[e].lease] = NoOne]
    /\ ex' = [ex EXCEPT ![e] = Idle]
    /\ libraryMu' = IF e \in Inline THEN NoOne ELSE libraryMu
    /\ UNCHANGED <<row, migrationMu, mode, cancelling, left>>

-----------------------------------------------------------------------------
(* What users do.                                                          *)

\* cancelWorkflowRunForActor, up to its commit
CancelRun(j) ==
    /\ mode # "down"
    /\ row[j].run \in Open
    /\ row' = [row EXCEPT ![j] =
                  [IF @.status \in Open THEN Unlocked(@, "cancelled") ELSE @
                   EXCEPT !.run = "cancelled"]]
    /\ cancelling' = cancelling \union {j}
    /\ UNCHANGED <<ex, registry, migrationMu, libraryMu, mode, left>>

\* cancelActiveWorkflowJob, after the commit: it cancels the executors whose
\* lease is already activated with this run
SignalCancel(j) ==
    /\ j \in cancelling
    /\ cancelling' = cancelling \ {j}
    /\ ex' = [e \in Exec |->
                IF /\ ex[e].lease \in Lease
                   /\ registry[ex[e].lease] = j
                   /\ ex[e].ctx = "live"
                THEN [ex[e] EXCEPT !.ctx = "cancelled"]
                ELSE ex[e]]
    /\ UNCHANGED <<row, registry, migrationMu, libraryMu, mode, left>>

\* retryFailedWorkflowJobFor: requeueFailedWorkflowJob with no lease
RetryFailed(j) ==
    /\ mode # "down"
    /\ row[j].status = "failed"
    /\ row[j].run \notin Open
    /\ j \in Recoverable \ Translation
    /\ Spend("retry")
    /\ row' = [row EXCEPT ![j] = Requeued(@, NoLease, TRUE, TRUE)]
    /\ UNCHANGED <<ex, registry, migrationMu, libraryMu, mode, cancelling>>

\* requeueAITranslationJobTx: stopped items are sent again, whatever the job
\* ended with
Resend(j) ==
    /\ mode # "down"
    /\ j \in Translation
    /\ row[j].status \in {"succeeded", "failed", "cancelled"}
    /\ Spend("retry")
    /\ row' = [row EXCEPT ![j] =
                  [Unlocked(@, "queued") EXCEPT !.run = "queued", !.due = TRUE]]
    /\ UNCHANGED <<ex, registry, migrationMu, libraryMu, mode, cancelling>>

\* The client of an inline request goes away: its context is cancelled, and
\* not by a stop.
ClientGone(e) ==
    /\ ex[e].pc # "idle"
    /\ ex[e].ctx = "live"
    /\ ex' = [ex EXCEPT ![e].ctx = "cancelled"]
    /\ UNCHANGED <<row, registry, migrationMu, libraryMu, mode, cancelling, left>>

-----------------------------------------------------------------------------
(* SettleOrphans.                                                          *)

\* Mutant: a lease counts as live only once it is activated.
OrphanedUntilActive(j) == /\ row[j].status = "running"
                          /\ row[j].lock = NoLease \/ registry[row[j].lock] \notin Job

\* Mutant: liveness is guessed (an old heartbeat) instead of read from the registry.
OrphanedByAge(j) == row[j].status = "running"

\* A running row whose lease no executor of this process holds
Orphaned(j) == /\ row[j].status = "running"
               /\ row[j].lock = NoLease \/ registry[row[j].lock] = NoOne

\* settleOrphanedWorkflowJobs, on every tick of the coordinator
Sweep ==
    /\ mode = "up"
    /\ \E j \in Job : Orphaned(j)
    /\ row' = [j \in Job |-> IF Orphaned(j) THEN LeaseSettled(j, 1) ELSE row[j]]
    /\ UNCHANGED <<ex, registry, migrationMu, libraryMu, mode, cancelling, left>>

\* recoverStaleWorkflowRuns: the same rule for the runs the user sees, and idle
\* runs whose jobs did not change for a minute (the set "old") are repaired
Recover(seen, old) ==
    /\ mode # "down"
    /\ Spend("recover")
    /\ old \subseteq seen
    /\ row' = [j \in Job |->
                 IF j \in seen /\ Orphaned(j) THEN LeaseSettled(j, 1)
                 ELSE IF j \in old THEN IdleRunRepaired(row[j])
                 ELSE row[j]]
    /\ UNCHANGED <<ex, registry, migrationMu, libraryMu, mode, cancelling>>

-----------------------------------------------------------------------------
(* Other library holders: custom works, Fetch publication, cleanup of       *)
(* staging folders, the settlement of a cancelled folder edit.              *)

OtherLocks ==
    /\ mode # "down"
    /\ libraryMu = NoOne
    /\ libraryMu' = Other
    /\ UNCHANGED <<row, ex, registry, migrationMu, mode, cancelling, left>>

OtherUnlocks ==
    /\ libraryMu = Other
    /\ libraryMu' = NoOne
    /\ UNCHANGED <<row, ex, registry, migrationMu, mode, cancelling, left>>

-----------------------------------------------------------------------------
(* Stop, crash and start.                                                  *)

\* Shutdown: background work is cancelled with ErrShuttingDown.  The cause of
\* a context is that of its first cancellation.
Stop ==
    /\ mode = "up"
    /\ Spend("stop")
    /\ mode' = "stopping"
    /\ ex' = IF ex[Worker].pc # "idle" /\ ex[Worker].ctx = "live"
             THEN [ex EXCEPT ![Worker].ctx = "stopped"] ELSE ex
    /\ UNCHANGED <<row, registry, migrationMu, libraryMu, cancelling>>

\* serveUntilStopped: requests still open at half of the timeout
CutRequests ==
    /\ mode = "stopping"
    /\ \E e \in Inline : ex[e].pc # "idle" /\ ex[e].ctx = "live"
    /\ ex' = [e \in Exec |->
                IF e \in Inline /\ ex[e].pc # "idle" /\ ex[e].ctx = "live"
                THEN [ex[e] EXCEPT !.ctx = "stopped"] ELSE ex[e]]
    /\ UNCHANGED <<row, registry, migrationMu, libraryMu, mode, cancelling, left>>

ProcessEnds ==
    /\ mode' = "down"
    /\ ex' = [e \in Exec |-> Idle]
    /\ registry' = [l \in Lease |-> NoOne]
    /\ migrationMu' = NoOne
    /\ libraryMu' = NoOne
    /\ cancelling' = {}
    /\ UNCHANGED row

Exit ==
    /\ mode = "stopping"
    /\ \A e \in Exec : ex[e].pc = "idle"
    /\ ProcessEnds
    /\ UNCHANGED left

\* A crash, a forced kill, or a stop that exceeds its deadline
Crash ==
    /\ mode # "down"
    /\ Spend("crash")
    /\ ProcessEnds

\* RecoverInterruptedWorkflows: no lease is live, idle runs need no grace
Start ==
    /\ mode = "down"
    /\ mode' = "up"
    /\ row' = [j \in Job |->
                 IF Orphaned(j) THEN LeaseSettled(j, 1) ELSE IdleRunRepaired(row[j])]
    /\ UNCHANGED <<ex, registry, migrationMu, libraryMu, cancelling, left>>

-----------------------------------------------------------------------------
ExecutorStep(e) ==
    \/ Claim(e)
    \/ ClaimMissed(e)
    \/ Activate(e)
    \/ \E status \in {"succeeded", "failed"} :
          \/ RecordResult(e, status)
          \/ RecordGraphResult(e, status)
          \/ RecordTranslation(e, status)
          \/ RecordJobRow(e, status)
    \/ RecordRunRow(e)
    \/ FailClaimed(e)
    \/ DeferGraph(e)
    \/ Yield(e)
    \/ \E outcome \in Outcome \ {"error"} : Return(e, outcome)
    \/ ReleaseInterrupted(e)
    \/ HandleResult(e)
    \/ Requeue(e)
    \/ SettleUnfinished(e)
    \/ WriteLost(e)
    \/ Leave(e)

Next ==
    \/ \E j \in Job :
          \/ Submit(j)
          \/ BecomeDue(j)
          \/ CancelRun(j)
          \/ SignalCancel(j)
          \/ RetryFailed(j)
          \/ Resend(j)
          \/ \E l \in Lease : Pick(l, j)
    \/ \E e \in Inline :
          \/ \E l \in Lease : PickInline(l, e)
          \/ LeaveQueued(e)
          \/ ClientGone(e)
    \/ \E e \in Exec : ExecutorStep(e)
    \/ EnterLibrary
    \/ GiveUpLibrary
    \/ Sweep
    \/ \E seen, old \in SUBSET Job : Recover(seen, old)
    \/ OtherLocks
    \/ OtherUnlocks
    \/ Stop
    \/ CutRequests
    \/ Exit
    \/ Crash
    \/ Start

Spec == Init /\ [][Next]_vars

(***************************************************************************)
(* Fairness.  Goroutines run, executors return, the coordinator and the    *)
(* worker tick, time passes, a stopped service exits and is started again. *)
(* Waiters of mediaCleanupMu queue on a channel first come, first served,  *)
(* so a worker that waits is not passed over for ever.                     *)
(***************************************************************************)
Fairness ==
    /\ \A e \in Exec : WF_vars(ExecutorStep(e))
    /\ \A e \in Inline : WF_vars((\E l \in Lease : PickInline(l, e)) \/ LeaveQueued(e))
    /\ WF_vars(\E l \in Lease, j \in Job : Pick(l, j))
    /\ SF_vars(EnterLibrary)
    /\ WF_vars(GiveUpLibrary)
    /\ \A j \in Job : WF_vars(BecomeDue(j)) /\ WF_vars(SignalCancel(j))
    /\ WF_vars(Sweep)
    /\ WF_vars(OtherUnlocks)
    /\ WF_vars(CutRequests)
    /\ WF_vars(Exit)
    /\ WF_vars(Start)

FairSpec == Spec /\ Fairness

-----------------------------------------------------------------------------
(* Properties.                                                             *)

Holding == {"picked", "claimed", "waiting", "executing", "returned",
            "handling", "settling", "leaving"}

\* The executor was given its job and has not yet moved the job's row itself.
Working(e) == /\ ex[e].pc \in Holding \ {"picked", "leaving"}
              /\ ex[e].recorded = "no"

\* The executor is inside the part of its work that changes library folders;
\* an inline request keeps the library until it has left.
InLibrary(e) == /\ ex[e].job \in Library
                /\ \/ ex[e].pc = "executing"
                   \/ e \in Inline /\ ex[e].pc \in Holding

\* At most one row of the queue is running, whoever claims, requeues, sweeps
\* or cancels: the claim's NOT EXISTS is all that keeps a second one out.
OneRunningRow ==
    \A i, j \in Job :
        row[i].status = "running" /\ row[j].status = "running" => i = j

\* While an executor works, its row is running under its lease, or its run was
\* cancelled (and a translation then perhaps sent again).  No sweep, retry or
\* recovery takes a job away from a live executor, and its lease stays in the
\* registry (comment on workflowLeaseRegistry).
ExecutorKeepsItsJob ==
    \A e \in Exec : Working(e) =>
        LET r == row[ex[e].job] IN
        /\ registry[ex[e].lease] # NoOne
        /\ \/ r.status = "running" /\ r.lock = ex[e].lease
           \/ r.status = "cancelled"
           \/ r.status = "queued" /\ ex[e].job \in Translation

\* Two executors never work on one job, so no edit, download or deletion is
\* done by two attempts at once, even across cancel, retry and a late inline
\* request.
JobHasOneExecutor ==
    \A e, f \in Exec :
        Working(e) /\ Working(f) /\ ex[e].job = ex[f].job => e = f

\* Two holders are never inside the library at once, though two executors may
\* be alive (a cancelled row is free before its executor has wound down):
\* whoever is inside holds mediaCleanupMu.
LibraryExclusive ==
    \A e \in Exec : InLibrary(e) => libraryMu = e

\* Except where the result is written row by row, a job and its run always
\* have the same status, so a queued job is never stranded behind a run that
\* keeps it from being claimed.
JobAndRunAgree ==
    \A j \in Job \ Split : row[j].status = row[j].run

\* The executor may still write the result of its job: it is not done with it,
\* and was not told to stop or writes all the same.
MayRecord(e) == /\ Working(e)
                /\ ex[e].pc \in {"claimed", "waiting", "executing"}
                /\ ex[e].ctx = "live" \/ ex[e].job \in Detached

NoResultDue(j) == \A e \in Exec : ex[e].job = j => ~MayRecord(e)

\* A success is final.  A cancellation is final once no executor may still write
\* a result of the job; until then that one result, and nothing else, may take
\* its place (finishWorkflowRunResultTx), and if it is a failure, be retried like
\* any other.  Requeues, retries, sweeps, recoveries and starts never take a
\* cancellation back.  Left out: a translation, queued when items are sent again.
SettledStaysSettled ==
    [][\A j \in Job \ Translation :
          /\ row[j].status = "succeeded" => row'[j].status = "succeeded"
          /\ row[j].status = "cancelled" =>
                \/ row'[j].status = "cancelled" /\ (NoResultDue(j) => NoResultDue(j)')
                \/ /\ row'[j].status \in {"succeeded", "failed"}
                   /\ ~NoResultDue(j) /\ NoResultDue(j)']_vars

\* Resumes are spent only on a row no executor holds, within max_retries; a
\* requested stop, a retry and a yield spend none.
ResumesSpentOnOrphans ==
    [][\A j \in Job : row'[j].resumes # row[j].resumes =>
          /\ \A e \in Exec : ex[e].lease # row[j].lock
          /\ row'[j].resumes <= MaxRetries]_vars

\* The queue as JobQueue sees it: of a row its status and its resumes, of an
\* executor the job it works at.
Queue == INSTANCE JobQueue WITH
             status <- [j \in Job |-> row[j].status],
             resumes <- [j \in Job |-> row[j].resumes],
             at <- [e \in Exec |-> IF Working(e) THEN ex[e].job ELSE NoJob],
             Resendable <- Translation,
             Guarded <- Graph \union Translation

\* The leases, contexts, mutexes and guarded statements together keep the
\* promise of JobQueue: nothing but a claim starts a job, nothing but its
\* executor or a cancellation ends it while that lives, and a result stays
\* unless it may be retried, sent again or, cancelled, overtaken by a late one.
QueueSpec == Queue!Spec

\* A running row that lost its executor is settled: by the coordinator's sweep,
\* or by the next start (settleOrphanedWorkflowJobs, settleInterruptedWorkflowRuns).
OrphansAreSettled ==
    \A j \in Job : Orphaned(j) ~> ~Orphaned(j)

\* A queued job leaves the queue: nothing holds the single-executor queue for
\* ever, not a lost settlement, a panic, a crash, a stop, or a busy library.
QueuedJobsMove ==
    \A j \in Job : row[j].status = "queued" ~> row[j].status # "queued"

-----------------------------------------------------------------------------
(* What the documentation says and the code does not keep.                 *)

\* work_folder_edit_job.go, fail: "A cancelled run is settled by its
\* cancellation, and a finished one keeps its result."
CancelledRunStaysCancelled ==
    [][\A j \in Job \ Translation :
          row[j].run = "cancelled" => row'[j].run = "cancelled"]_vars

\* docs/architecture/workflows.md: simple result writes commit "their node,
\* job, and run states in one transaction, so an interrupted write keeps the
\* lease for the runner's settlement path": with the executor gone, a job that
\* has a result has a run that has one.
InterruptedResultIsSettled ==
    \A j \in Job :
        /\ row[j].status \in {"succeeded", "failed"}
        /\ \A e \in Exec : ex[e].job # j
        => row[j].run \notin Open

=============================================================================
