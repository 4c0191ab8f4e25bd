------------------------------ MODULE JobQueue ------------------------------
(***************************************************************************)
(* What the workflow queue promises whoever submits a job, whatever stops, *)
(* crashes, lost writes and cancellations come in between: only a claim    *)
(* starts a job, while no other is running and nobody works at it; from    *)
(* then on it belongs to the executor that claimed it until that executor  *)
(* gives it up or dies; only a running job that nobody works at is settled *)
(* by others; a success stays, and a cancellation gives way to nothing but *)
(* the result its executor was about to write, until items are sent again. *)
(* It knows neither leases, nor contexts, nor mutexes, nor the steps       *)
(* between a claim and a result.                                           *)
(* WorkflowQueue implements it.                                            *)
(***************************************************************************)
EXTENDS Integers

CONSTANTS
    Job,            \* row ids
    Exec,           \* who can execute a job
    NoJob,
    Resendable,     \* jobs that are queued again when items are sent again
    Guarded,        \* jobs whose cancellation no late result replaces
    MaxRetries      \* how often a job may be resumed

VARIABLES
    status,         \* the status of every job
    resumes,        \* how often each was resumed after its executor died
    at              \* the job each executor works at

vars == <<status, resumes, at>>

-----------------------------------------------------------------------------
Init ==
    /\ status = [j \in Job |-> "absent"]
    /\ resumes = [j \in Job |-> 0]
    /\ at = [e \in Exec |-> NoJob]

Unattended(j) == \A e \in Exec : at[e] # j

Becomes(j, values) == \E s \in values : status' = [status EXCEPT ![j] = s]

Submit(j) ==
    /\ status[j] = "absent"
    /\ Becomes(j, {"queued"})
    /\ UNCHANGED <<resumes, at>>

Claim(e, j) ==
    /\ at[e] = NoJob
    /\ status[j] = "queued"
    /\ Unattended(j)
    /\ \A i \in Job : status[i] # "running"
    /\ Becomes(j, {"running"})
    /\ at' = [at EXCEPT ![e] = j]
    /\ UNCHANGED resumes

\* An executor is done with its job.  It records a result, puts the job back,
\* or leaves it as it is: running, when its last write was lost.  A cancelled
\* job may still get the result its executor was about to write, unless results
\* of its kind are written only while the run is open.
GiveUp(e) ==
    LET j == at[e] IN
    /\ j # NoJob
    /\ \/ UNCHANGED status
       \/ status[j] = "running" /\ Becomes(j, {"succeeded", "failed", "queued"})
       \/ status[j] = "cancelled" /\ j \notin Guarded /\ Becomes(j, {"succeeded", "failed"})
    /\ at' = [at EXCEPT ![e] = NoJob]
    /\ UNCHANGED resumes

Cancel(j) ==
    /\ status[j] \in {"queued", "running"}
    /\ Becomes(j, {"cancelled"})
    /\ UNCHANGED <<resumes, at>>

Retry(j) ==
    /\ status[j] = "failed"
    /\ Unattended(j)
    /\ Becomes(j, {"queued"})
    /\ UNCHANGED <<resumes, at>>

Resend(j) ==
    /\ j \in Resendable
    /\ status[j] \in {"succeeded", "failed", "cancelled"}
    /\ Becomes(j, {"queued"})
    /\ UNCHANGED <<resumes, at>>

\* A running job that nobody works at fails, or is queued again, which may
\* spend one of its resumes.
Settle(j) ==
    /\ status[j] = "running"
    /\ Unattended(j)
    /\ \/ Becomes(j, {"queued", "failed"}) /\ UNCHANGED resumes
       \/ /\ Becomes(j, {"queued"})
          /\ resumes[j] < MaxRetries
          /\ resumes' = [resumes EXCEPT ![j] = resumes[j] + 1]
    /\ UNCHANGED at

\* The process ends: rows stay, executors are gone.
Die ==
    /\ at' = [e \in Exec |-> NoJob]
    /\ UNCHANGED <<status, resumes>>

Next ==
    \/ \E j \in Job :
          \/ Submit(j)
          \/ Cancel(j)
          \/ Retry(j)
          \/ Resend(j)
          \/ Settle(j)
          \/ \E e \in Exec : Claim(e, j)
    \/ \E e \in Exec : GiveUp(e)
    \/ Die

Spec == Init /\ [][Next]_vars
=============================================================================
