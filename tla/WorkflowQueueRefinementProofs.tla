-------------------- MODULE WorkflowQueueRefinementProofs --------------------
(***************************************************************************)
(* WorkflowQueue implements JobQueue, for every instance.  Each step of    *)
(* the queue is one step of JobQueue or none: ExecutorMoves says in which  *)
(* ways an executor moves its row and itself, OrphanSettles what becomes   *)
(* of a row without an executor, and the rest are users and the process.   *)
(***************************************************************************)
EXTENDS WorkflowQueueProofs

QStatus == [j \in Job |-> row[j].status]
QResumes == [j \in Job |-> row[j].resumes]
QAt == [e \in Exec |-> IF Working(e) THEN ex[e].job ELSE NoJob]

QueueStep == [Queue!Next]_(Queue!vars)

-----------------------------------------------------------------------------
(* An executor that holds a job it did not claim yet has recorded nothing. *)

StartsAfresh == \A e \in Exec : ex[e].pc \in {"offered", "picked"} => ex[e].recorded = "no"

LEMMA NobodyOffered ==
    ASSUME StartsAfresh,
           \A e \in Exec : ex'[e].pc \in {"offered", "picked"} =>
              \/ ex'[e].recorded = "no"
              \/ ex[e].pc \in {"offered", "picked"} /\ ex'[e].recorded = ex[e].recorded
    PROVE  StartsAfresh'
BY DEF StartsAfresh

LEMMA AfreshExecutorStep ==
    ASSUME TypeOK, StartsAfresh, NEW f \in Exec, ExecutorStep(f)
    PROVE  StartsAfresh'
<1>1. ex \in [Exec -> Local] /\ Idle.recorded = "no" /\ Idle.pc = "idle"
  BY DEF TypeOK, Idle
<1> DEFINE Moved == /\ \A e \in Exec \ {f} : ex'[e] = ex[e]
                    /\ ex'[f].pc \notin {"offered", "picked"}
<1>2. Moved
  <2>1. ASSUME \/ Claim(f) \/ Activate(f) \/ HandleResult(f) \/ Requeue(f) \/ SettleUnfinished(f)
               \/ \E outcome : Return(f, outcome)
        PROVE  Moved
    <3>1. CASE Claim(f)
      BY <1>1, <3>1 DEF Claim
    <3>2. CASE Activate(f)
      BY <1>1, <3>2 DEF Activate
    <3>3. CASE HandleResult(f)
      BY <1>1, <3>3 DEF HandleResult, Local
    <3>4. CASE Requeue(f)
      BY <1>1, <3>4 DEF Requeue, Local
    <3>5. CASE SettleUnfinished(f)
      BY <1>1, <3>5 DEF SettleUnfinished
    <3>6. ASSUME NEW outcome, Return(f, outcome) PROVE Moved
      BY <1>1, <3>6 DEF Return, Local
    <3> QED
      BY <2>1, <3>1, <3>2, <3>3, <3>4, <3>5, <3>6
  <2>2. ASSUME ClaimMissed(f) \/ Leave(f) PROVE Moved
    BY <1>1, <2>2 DEF ClaimMissed, Leave
  <2>3. ASSUME \/ RecordRunRow(f) \/ FailClaimed(f) \/ DeferGraph(f) \/ Yield(f)
               \/ \E status : \/ RecordResult(f, status) \/ RecordGraphResult(f, status)
                              \/ RecordTranslation(f, status)
        PROVE  Moved
    <3>1. ex[f].pc = "executing" /\ Recorded(f)
      BY <2>3 DEF RecordRunRow, FailClaimed, DeferGraph, Yield, RecordResult, RecordGraphResult,
         RecordTranslation, CanWrite
    <3> QED
      BY <1>1, <3>1 DEF Recorded
  <2>4. ASSUME NEW status, RecordJobRow(f, status) PROVE Moved
    BY <1>1, <2>4 DEF RecordJobRow, CanWrite
  <2>5. ASSUME ReleaseInterrupted(f) PROVE Moved
    BY <2>5, ReleaseInterruptedLocal
  <2>6. ASSUME WriteLost(f) PROVE Moved
    <3>1. \E pc \in {"handling", "settling", "leaving"} : ex' = [ex EXCEPT ![f].pc = pc]
      BY <2>6 DEF WriteLost
    <3> QED
      BY <1>1, <3>1
  <2> QED
    BY <2>1, <2>2, <2>3, <2>4, <2>5, <2>6 DEF ExecutorStep
<1> HIDE DEF Moved
<1> QED
  BY <1>2, NobodyOffered DEF Moved

LEMMA AfreshStep ==
    ASSUME TypeOK, StartsAfresh, [Next]_vars
    PROVE  StartsAfresh'
<1>0. ex \in [Exec -> Local] /\ Idle.recorded = "no" /\ Idle.pc = "idle"
  BY DEF TypeOK, Idle
<1>1. ASSUME NEW j \in Job, Submit(j) PROVE StartsAfresh'
  BY <1>0, <1>1, NobodyOffered DEF Submit, Idle
<1>2. ASSUME NEW j \in Job, SignalCancel(j) PROVE StartsAfresh'
  BY <1>0, <1>2, NobodyOffered DEF SignalCancel
<1>3. ASSUME NEW j \in Job, NEW l \in Lease, Pick(l, j) PROVE StartsAfresh'
  BY <1>0, <1>3, NobodyOffered DEF Pick, Idle
<1>4. ASSUME NEW f \in Inline, NEW l \in Lease, PickInline(l, f) PROVE StartsAfresh'
  BY <1>0, <1>4, NobodyOffered DEF PickInline
<1>5. ASSUME NEW f \in Inline, LeaveQueued(f) PROVE StartsAfresh'
  BY <1>0, <1>5, NobodyOffered DEF LeaveQueued
<1>6. ASSUME NEW f \in Inline, ClientGone(f) PROVE StartsAfresh'
  BY <1>0, <1>6, NobodyOffered DEF ClientGone
<1>7. ASSUME EnterLibrary PROVE StartsAfresh'
  BY <1>0, <1>7, NobodyOffered DEF EnterLibrary
<1>7a. ASSUME GiveUpLibrary PROVE StartsAfresh'
  BY <1>0, <1>7a, NobodyOffered DEF GiveUpLibrary, Local
<1>8. ASSUME Stop PROVE StartsAfresh'
  BY <1>0, <1>8, NobodyOffered DEF Stop
<1>9. ASSUME CutRequests PROVE StartsAfresh'
  BY <1>0, <1>9, NobodyOffered DEF CutRequests
<1>10. ASSUME Exit \/ Crash PROVE StartsAfresh'
  BY <1>0, <1>10, NobodyOffered DEF Exit, Crash, ProcessEnds
<1>11. ASSUME UNCHANGED ex PROVE StartsAfresh'
  BY <1>11, NobodyOffered
<1>12. ASSUME NEW f \in Exec, ExecutorStep(f) PROVE StartsAfresh'
  BY <1>12, AfreshExecutorStep
<1> QED
  BY <1>1, <1>2, <1>3, <1>4, <1>5, <1>6, <1>7, <1>7a, <1>8, <1>9, <1>10, <1>11, <1>12, LocalChanges

-----------------------------------------------------------------------------
(* From rows and executors to the variables of JobQueue.                   *)

\* Nobody starts or stops working.
SameWork == \A e \in Exec : /\ Working(e)' <=> Working(e)
                            /\ Working(e) => ex'[e].job = ex[e].job

\* The statuses and resumes of all jobs but j stay.
OtherRowsKept(j) ==
    \A i \in Job \ {j} : row'[i].status = row[i].status /\ row'[i].resumes = row[i].resumes

LEMMA SameWorkStutters ==
    ASSUME SameWork
    PROVE  QAt' = QAt
BY DEF SameWork, QAt

LEMMA WorkEnds ==
    ASSUME NEW e \in Exec, ~Working(e)', \A f \in Exec \ {e} : ex'[f] = ex[f]
    PROVE  QAt' = [QAt EXCEPT ![e] = NoJob]
<1>1. \A f \in Exec \ {e} : Working(f)' <=> Working(f)
  BY DEF Working
<1> QED
  BY <1>1 DEF QAt

LEMMA WorkStarts ==
    ASSUME NEW e \in Exec, Working(e)', ex'[e].job = ex[e].job,
           \A f \in Exec \ {e} : ex'[f] = ex[f]
    PROVE  QAt' = [QAt EXCEPT ![e] = ex[e].job]
<1>1. \A f \in Exec \ {e} : Working(f)' <=> Working(f)
  BY DEF Working
<1> QED
  BY <1>1 DEF QAt

LEMMA RowMoved ==
    ASSUME NEW j \in Job, OtherRowsKept(j)
    PROVE  /\ QStatus' = [QStatus EXCEPT ![j] = row'[j].status]
           /\ QResumes' = [QResumes EXCEPT ![j] = row'[j].resumes]
BY DEF OtherRowsKept, QStatus, QResumes

LEMMA RowsKept ==
    ASSUME \A i \in Job : row'[i].status = row[i].status /\ row'[i].resumes = row[i].resumes
    PROVE  QStatus' = QStatus /\ QResumes' = QResumes
BY DEF QStatus, QResumes

\* Nobody works at a job that is not running, nor cancelled, nor sent again.
LEMMA NobodyAt ==
    ASSUME IInv, NEW j \in Job
    PROVE  /\ row[j].status \in {"absent", "succeeded", "failed"} => \A e \in Exec : QAt[e] # j
           /\ Orphaned(j) => \A e \in Exec : QAt[e] # j
<1> SUFFICES ASSUME NEW e \in Exec, QAt[e] = j
             PROVE  row[j].status \notin {"absent", "succeeded", "failed"} /\ ~Orphaned(j)
  OBVIOUS
<1>1. Working(e) /\ ex[e].job = j
  BY QueueAssumption DEF QAt
<1>2. ex[e].lease \in Lease /\ registry[ex[e].lease] # NoOne
  BY <1>1 DEF IInv, Assigned, LeasesHeld, Working, Holding
<1> QED
  BY <1>1, <1>2, QueueAssumption DEF IInv, ExecutorKeepsItsJob, Orphaned

-----------------------------------------------------------------------------
(* The steps of JobQueue.                                                  *)

\* The ways an executor leaves its job.
Ends(j, old, new) ==
    \/ new = old
    \/ old = "running" /\ new \in {"succeeded", "failed", "queued"}
    \/ old = "cancelled" /\ j \notin Graph \union Translation /\ new \in {"succeeded", "failed"}

LEMMA GivesUp ==
    ASSUME IInv, NEW e \in Exec, Working(e), ~Working(e)',
           \A f \in Exec \ {e} : ex'[f] = ex[f],
           OtherRowsKept(ex[e].job), row'[ex[e].job].resumes = row[ex[e].job].resumes,
           Ends(ex[e].job, row[ex[e].job].status, row'[ex[e].job].status)
    PROVE  QueueStep
<1> DEFINE j == ex[e].job
<1>1. j \in Job /\ j # NoJob
  BY QueueAssumption DEF IInv, Assigned, Working, Holding
<1>2. QAt[e] = j /\ QAt' = [QAt EXCEPT ![e] = NoJob]
  BY WorkEnds DEF QAt
<1>3. /\ QStatus' = [QStatus EXCEPT ![j] = row'[j].status]
      /\ QResumes' = QResumes /\ QStatus[j] = row[j].status
  BY <1>1, RowMoved DEF QStatus, QResumes
<1>4. Queue!GiveUp(e)
  <2>1. CASE row'[j].status = row[j].status
    <3>1. QStatus' = QStatus
      BY <1>3, <2>1 DEF QStatus
    <3> QED
      BY <1>1, <1>2, <1>3, <3>1 DEF Queue!GiveUp, QStatus, QResumes, QAt
  <2>2. CASE row'[j].status # row[j].status
    BY <1>1, <1>2, <1>3, <2>2 DEF Ends, Queue!GiveUp, Queue!Becomes, QStatus, QResumes, QAt
  <2> QED
    BY <2>1, <2>2
<1> QED
  BY <1>4 DEF QueueStep, Queue!Next

LEMMA Stutters ==
    ASSUME SameWork,
           \A i \in Job : row'[i].status = row[i].status /\ row'[i].resumes = row[i].resumes
    PROVE  QueueStep
BY SameWorkStutters, RowsKept DEF QueueStep, Queue!vars, QStatus, QResumes, QAt

\* A job that nobody works at fails or returns to the queue.
LEMMA Settles ==
    ASSUME IInv, SameWork, NEW j \in Job, OtherRowsKept(j),
           row[j].status = "running", \A e \in Exec : QAt[e] # j,
           row'[j].status \in {"queued", "failed"},
           \/ row'[j].resumes = row[j].resumes
           \/ /\ row'[j].resumes = row[j].resumes + 1 /\ row'[j].status = "queued"
              /\ row[j].resumes < MaxRetries
    PROVE  QueueStep
<1>1. /\ QStatus' = [QStatus EXCEPT ![j] = row'[j].status]
      /\ QResumes' = [QResumes EXCEPT ![j] = row'[j].resumes]
      /\ QStatus[j] = row[j].status /\ QResumes[j] = row[j].resumes
      /\ QAt' = QAt
  BY RowMoved, SameWorkStutters DEF QStatus, QResumes
<1>2. row'[j].resumes = row[j].resumes => QResumes' = QResumes
  BY <1>1 DEF QResumes
<1>3. Queue!Settle(j)
  BY <1>1, <1>2 DEF Queue!Settle, Queue!Unattended, Queue!Becomes, QStatus, QResumes, QAt
<1> QED
  BY <1>3 DEF QueueStep, Queue!Next

\* A user, or an executor that has let go of its job, moves a row.
LEMMA UserMoves ==
    ASSUME IInv, SameWork, NEW j \in Job, OtherRowsKept(j), row'[j].resumes = row[j].resumes,
           \/ row[j].status = "absent" /\ row'[j].status = "queued"
           \/ row[j].status \in Open /\ row'[j].status = "cancelled"
           \/ row[j].status = "failed" /\ row'[j].status = "queued"
           \/ /\ j \in Translation /\ row'[j].status = "queued"
              /\ row[j].status \in {"succeeded", "failed", "cancelled"}
    PROVE  QueueStep
<1>1. /\ QStatus' = [QStatus EXCEPT ![j] = row'[j].status] /\ QStatus[j] = row[j].status
      /\ QResumes' = QResumes /\ QAt' = QAt
  BY RowMoved, SameWorkStutters DEF QStatus, QResumes
<1>2. CASE row[j].status = "absent" /\ row'[j].status = "queued"
  <2>1. Queue!Submit(j)
    BY <1>1, <1>2 DEF Queue!Submit, Queue!Becomes, QStatus, QResumes, QAt
  <2> QED
    BY <2>1 DEF QueueStep, Queue!Next
<1>3. CASE row[j].status \in Open /\ row'[j].status = "cancelled"
  <2>1. Queue!Cancel(j)
    BY <1>1, <1>3 DEF Open, Queue!Cancel, Queue!Becomes, QStatus, QResumes, QAt
  <2> QED
    BY <2>1 DEF QueueStep, Queue!Next
<1>4. CASE row[j].status = "failed" /\ row'[j].status = "queued"
  <2>1. \A e \in Exec : QAt[e] # j
    BY <1>4, NobodyAt
  <2>2. Queue!Retry(j)
    BY <1>1, <1>4, <2>1 DEF Queue!Retry, Queue!Unattended, Queue!Becomes, QStatus, QResumes, QAt
  <2> QED
    BY <2>2 DEF QueueStep, Queue!Next
<1>5. CASE /\ j \in Translation /\ row'[j].status = "queued"
           /\ row[j].status \in {"succeeded", "failed", "cancelled"}
  <2>1. Queue!Resend(j)
    BY <1>1, <1>5 DEF Queue!Resend, Queue!Becomes, QStatus, QResumes, QAt
  <2> QED
    BY <2>1 DEF QueueStep, Queue!Next
<1> QED
  BY <1>2, <1>3, <1>4, <1>5

-----------------------------------------------------------------------------
(* The steps of an executor.                                               *)

\* A step of e leaves the other executors and the other rows alone, spends no
\* resume, and either ends e's work, or moves a row that e does not work at,
\* or moves nothing.
ExecutorMoves(e) ==
    LET j == ex[e].job
        Idles == ~Working(e) /\ ~Working(e)' IN
    /\ \A f \in Exec \ {e} : ex'[f] = ex[f]
    /\ \A i \in Job \ {j} : row'[i] = row[i]
    /\ row'[j].resumes = row[j].resumes
    /\ \/ Working(e) /\ ~Working(e)' /\ Ends(j, row[j].status, row'[j].status)
       \/ /\ row'[j].status = row[j].status
          /\ Idles \/ (Working(e) /\ Working(e)' /\ ex'[e].job = j)
       \/ /\ Idles /\ ex[e].pc \in Holding
          /\ row[j].status = "running" /\ row[j].lock = ex[e].lease
          /\ row'[j].status \in {"queued", "failed"}
       \/ Idles /\ row[j].status = "failed" /\ row'[j].status = "queued"

\* The row of an executor at work.
LEMMA WorkingRow ==
    ASSUME IInv, NEW e \in Exec, Working(e)
    PROVE  LET j == ex[e].job IN
           /\ j \in Job /\ row[j] \in Row
           /\ \/ row[j].status = "running" /\ row[j].lock = ex[e].lease
              \/ row[j].status = "cancelled"
              \/ row[j].status = "queued" /\ j \in Translation
BY DEF IInv, TypeOK, Assigned, ExecutorKeepsItsJob, Working, Holding

\* An executor that records its own result.  A graph finds its run cancelled with
\* its job, as the two agree, and writes nothing.
LEMMA RecordMoves ==
    ASSUME IInv, JobAndRunAgree, NEW e \in Exec,
           \/ \E status \in {"succeeded", "failed"} :
                 \/ RecordResult(e, status)
                 \/ RecordGraphResult(e, status)
                 \/ RecordTranslation(e, status)
                 \/ RecordJobRow(e, status)
           \/ FailClaimed(e) \/ DeferGraph(e) \/ Yield(e)
    PROVE  ExecutorMoves(e)
<1> DEFINE j == ex[e].job
           r == row[j]
<1>1. /\ Working(e) /\ ~Working(e)'
      /\ \A f \in Exec \ {e} : ex'[f] = ex[f]
  <2>1. ASSUME NEW status, RecordJobRow(e, status) PROVE <1>1
    BY <2>1 DEF IInv, TypeOK, Local, RecordJobRow, CanWrite, Working, Holding
  <2>2. ASSUME CanWrite(e), ex[e].recorded = "no", Recorded(e) PROVE <1>1
    BY <2>2 DEF IInv, TypeOK, CanWrite, Recorded, Working, Holding
  <2> QED
    BY <2>1, <2>2 DEF RecordResult, RecordGraphResult, RecordTranslation, FailClaimed, DeferGraph, Yield
<1>2. /\ j \in Job /\ r \in Row /\ row \in [Job -> Row]
      /\ \/ r.status = "running" /\ r.lock = ex[e].lease
         \/ r.status = "cancelled"
         \/ r.status = "queued" /\ j \in Translation
  BY <1>1, WorkingRow DEF IInv, TypeOK
<1>3. ASSUME NEW s, row' = [row EXCEPT ![j] = s], s.resumes = r.resumes, Ends(j, r.status, s.status)
      PROVE  ExecutorMoves(e)
  BY <1>1, <1>2, <1>3 DEF ExecutorMoves
<1>4. r.status \in Open => r.status \in {"running", "queued"}
  BY DEF Open
<1> HIDE DEF j, r
<1>5. ASSUME NEW status \in {"succeeded", "failed"}, RecordResult(e, status) PROVE ExecutorMoves(e)
  <2> DEFINE s == [Unlocked(r, status) EXCEPT !.run = status]
  <2>1. row' = [row EXCEPT ![j] = s] /\ j \notin Graph \union Translation
    BY <1>5 DEF RecordResult, j, r
  <2>2. s.status = status /\ s.resumes = r.resumes
    BY <1>2 DEF Unlocked, Row
  <2> QED
    BY <1>2, <1>3, <2>1, <2>2 DEF Ends
<1>6. ASSUME NEW status \in {"succeeded", "failed"}, RecordGraphResult(e, status)
      PROVE  ExecutorMoves(e)
  <2> DEFINE s == [IF r.status \in Open THEN Unlocked(r, status) ELSE r EXCEPT !.run = status]
  <2>1. (r.run \in Open /\ row' = [row EXCEPT ![j] = s]) \/ row' = [row EXCEPT ![j] = r]
    BY <1>2, <1>6 DEF RecordGraphResult, j, r
  <2>2. r.status = r.run /\ j \notin Translation
    BY <1>2, <1>6, QueueAssumption DEF RecordGraphResult, JobAndRunAgree, j, r
  <2>3. s.status = (IF r.status \in Open THEN status ELSE r.status) /\ s.resumes = r.resumes
    BY <1>2 DEF Unlocked, Row
  <2> QED
    BY <1>2, <1>3, <1>4, <2>1, <2>2, <2>3 DEF Ends
<1>7. ASSUME NEW status \in {"succeeded", "failed"}, RecordTranslation(e, status)
      PROVE  ExecutorMoves(e)
  <2> DEFINE s == [Unlocked(r, status) EXCEPT !.run = IF r.run = "running" THEN status ELSE r.run]
  <2>1. row' = [row EXCEPT ![j] = s] /\ r.status = "running"
    BY <1>7 DEF RecordTranslation, j, r
  <2>2. s.status = status /\ s.resumes = r.resumes
    BY <1>2 DEF Unlocked, Row
  <2> QED
    BY <1>3, <2>1, <2>2 DEF Ends
<1>8. ASSUME NEW status \in {"succeeded", "failed"}, RecordJobRow(e, status)
      PROVE  ExecutorMoves(e)
  <2>1. row' = [row EXCEPT ![j] = Unlocked(r, status)]
    BY <1>8 DEF RecordJobRow, j, r
  <2>2. j \notin Graph \union Translation
    BY <1>8, QueueAssumption DEF RecordJobRow, j
  <2> QED
    BY <1>2, <1>3, <2>1, <2>2, RowEffects DEF Ends
<1>9. CASE FailClaimed(e)
  <2> DEFINE s == RunTo(IF r.status = "running" /\ r.run # "cancelled"
                        THEN Unlocked(r, "failed") ELSE r, "failed")
  <2>1. row' = [row EXCEPT ![j] = s]
    BY <1>9 DEF FailClaimed, j, r
  <2>2. /\ s.status = r.status \/ (r.status = "running" /\ s.status = "failed")
        /\ s.resumes = r.resumes
    BY <1>2 DEF RunTo, Unlocked, Row
  <2> QED
    BY <1>3, <2>1, <2>2 DEF Ends
<1>10. CASE DeferGraph(e)
  <2> DEFINE q == [Unlocked(r, "queued") EXCEPT !.priority = Background - 1, !.due = FALSE]
             s == [IF r.status = "running" THEN q ELSE r
                   EXCEPT !.run = IF r.run = "running" THEN "queued" ELSE r.run]
  <2>1. row' = [row EXCEPT ![j] = s]
    BY <1>10 DEF DeferGraph, j, r
  <2>2. Unlocked(r, "queued") \in Row /\ Background - 1 \in Int
    <3>1. Unlocked(r, "queued") \in Row
      BY <1>2, RowResults, StatusValues
    <3>2. Background - 1 \in Int
      BY QueueAssumption
    <3> QED
      BY <3>1, <3>2
  <2>3. q \in Row /\ q.status = "queued" /\ q.resumes = r.resumes
    <3>1. q \in Row
      BY <2>2, RowUpdates
    <3> QED
      BY <1>2, <2>2, <3>1, RowEffects DEF Row
  <2> HIDE DEF q
  <2>4. /\ s.status = r.status \/ (r.status = "running" /\ s.status = "queued")
        /\ s.resumes = r.resumes
    BY <1>2, <2>3, RunEffect
  <2> QED
    BY <1>3, <2>1, <2>4 DEF Ends
<1>11. CASE Yield(e)
  <2> DEFINE s == Requeued(r, ex[e].lease, FALSE, FALSE)
  <2>1. row' = [row EXCEPT ![j] = s]
    BY <1>11 DEF Yield, j, r
  <2>2. s = r \/ (r.status \in {"failed", "running"} /\ s.status = "queued" /\ s.resumes = r.resumes)
    BY <1>2 DEF Requeued, Unlocked, Row
  <2> QED
    BY <1>2, <1>3, <2>1, <2>2 DEF Ends
<1> QED
  BY <1>5, <1>6, <1>7, <1>8, <1>9, <1>10, <1>11

\* An executor that is done settles its job, or does not.
LEMMA SettleMoves ==
    ASSUME IInv, NEW e \in Exec,
           ReleaseInterrupted(e) \/ Requeue(e) \/ SettleUnfinished(e) \/ WriteLost(e)
    PROVE  ExecutorMoves(e)
<1> DEFINE j == ex[e].job
           r == row[j]
           Idles == ~Working(e) /\ ~Working(e)'
<1>1. /\ ex[e].pc \in Holding /\ j \in Job /\ r \in Row /\ row \in [Job -> Row]
      /\ ex \in [Exec -> Local]
  BY DEF IInv, TypeOK, Assigned, ReleaseInterrupted, Requeue, SettleUnfinished, WriteLost, Settling,
     Holding
<1>2. r.status = "failed" => ~Working(e)
  BY WorkingRow
\* The ways an executor settles its row.
<1> DEFINE SettledTo(s) ==
        /\ s.resumes = r.resumes
        /\ \/ s.status = r.status
           \/ /\ r.status = "running" /\ r.lock = ex[e].lease
              /\ s.status \in {"queued", "failed"}
           \/ r.status = "failed" /\ s.status = "queued"
<1>3. ASSUME NEW s, row' = [row EXCEPT ![j] = s], SettledTo(s), ~Working(e)',
             \A f \in Exec \ {e} : ex'[f] = ex[f]
      PROVE  ExecutorMoves(e)
  BY <1>1, <1>2, <1>3 DEF ExecutorMoves, Ends
<1>4. ASSUME row' = row, Working(e)' => Working(e), ex'[e].job = j,
             \A f \in Exec \ {e} : ex'[f] = ex[f]
      PROVE  ExecutorMoves(e)
  BY <1>4 DEF ExecutorMoves, Ends
<1> HIDE DEF SettledTo
<1>5. CASE ReleaseInterrupted(e)
  <2>1. \A f \in Exec \ {e} : ex'[f] = ex[f]
    BY <1>5, ReleaseInterruptedLocal DEF IInv
  <2>2. CASE r.status = "running" /\ r.lock = ex[e].lease /\ r.run # "cancelled"
    <3>1. row' = [row EXCEPT ![j] = LeaseSettled(j, 0)]
      BY <1>5, <2>2 DEF ReleaseInterrupted
    <3>2. SettledTo(LeaseSettled(j, 0))
      BY <1>1, <2>2, LeaseSettledEffect DEF IInv, SettledTo
    <3>3. ex'[e].pc = "leaving"
      BY <1>1, <1>5, <2>2 DEF ReleaseInterrupted, Local
    <3> QED
      BY <1>3, <2>1, <3>1, <3>2, <3>3 DEF Working
  <2>3. CASE ~(r.status = "running" /\ r.lock = ex[e].lease /\ r.run # "cancelled")
    <3>1. row' = row
      BY <1>5, <2>3 DEF ReleaseInterrupted
    <3>2. ex'[e].job = j /\ ex'[e].recorded = ex[e].recorded /\ ex[e].pc = "returned"
      BY <1>1, <1>5, <2>3 DEF ReleaseInterrupted, Local
    <3>3. Working(e)' => Working(e)
      BY <3>2 DEF Working, Holding
    <3> QED
      BY <1>4, <2>1, <3>1, <3>2, <3>3
  <2> QED
    BY <2>2, <2>3
<1>6. CASE Requeue(e)
  <2> DEFINE s == Requeued(r, ex[e].lease, ex[e].outcome = "transient", FALSE)
  <2>1. row' = [row EXCEPT ![j] = s]
    BY <1>6 DEF Requeue
  <2>2. SettledTo(s)
    BY <1>1 DEF Requeued, Unlocked, Row, SettledTo
  <2>3. ~Working(e)' /\ \A f \in Exec \ {e} : ex'[f] = ex[f]
    BY <1>1, <1>6 DEF Requeue, Working, Local
  <2> QED
    BY <1>3, <2>1, <2>2, <2>3
<1>7. CASE SettleUnfinished(e)
  <2>1. ~Working(e)' /\ \A f \in Exec \ {e} : ex'[f] = ex[f] /\ ex'[e].job = j
    BY <1>1, <1>7 DEF SettleUnfinished, Working
  <2>2. CASE ex[e].ctx = "stopped"
    BY <1>1, <1>7, <2>1, <2>2, <1>4 DEF SettleUnfinished
  <2>3. CASE ex[e].ctx # "stopped"
    <3>1. row' = [row EXCEPT ![j] = FailedUnder(r, ex[e].lease)]
      BY <1>7, <2>3 DEF SettleUnfinished
    <3>2. SettledTo(FailedUnder(r, ex[e].lease))
      BY <1>1, FailedUnderEffect DEF SettledTo
    <3> QED
      BY <1>3, <2>1, <3>1, <3>2
  <2> QED
    BY <2>2, <2>3
<1>8. CASE WriteLost(e)
  <2>1. row' = row /\ ex[e].pc \in {"returned", "handling", "settling"}
    BY <1>8 DEF WriteLost, Settling
  <2>2. \E pc \in {"handling", "settling", "leaving"} : ex' = [ex EXCEPT ![e].pc = pc]
    BY <1>8 DEF WriteLost
  <2>3. /\ ex'[e].job = j /\ ex'[e].recorded = ex[e].recorded
        /\ \A f \in Exec \ {e} : ex'[f] = ex[f]
    BY <1>1, <2>2
  <2>4. Working(e)' => Working(e)
    BY <2>1, <2>3 DEF Working, Holding
  <2> QED
    BY <1>4, <2>1, <2>3, <2>4
<1> QED
  BY <1>5, <1>6, <1>7, <1>8

\* Every other step of an executor but its claim moves nothing.
LEMMA QuietMoves ==
    ASSUME IInv, NEW e \in Exec,
           \/ ClaimMissed(e) \/ Activate(e) \/ RecordRunRow(e) \/ HandleResult(e) \/ Leave(e)
           \/ \E outcome \in Outcome : Return(e, outcome)
    PROVE  ExecutorMoves(e)
<1> DEFINE j == ex[e].job
           Idles == ~Working(e) /\ ~Working(e)'
<1>1. ex \in [Exec -> Local] /\ row \in [Job -> Row]
  BY DEF IInv, TypeOK
<1>2. ASSUME \A i \in Job : row'[i].status = row[i].status /\ row'[i].resumes = row[i].resumes,
             \A i \in Job \ {j} : row'[i] = row[i], j \in Job \/ row' = row,
             \A f \in Exec \ {e} : ex'[f] = ex[f],
             Idles \/ (Working(e) /\ Working(e)' /\ ex'[e].job = j)
      PROVE  ExecutorMoves(e)
  BY <1>2 DEF ExecutorMoves
<1>3. ASSUME row' = row, \A f \in Exec \ {e} : ex'[f] = ex[f], ex'[e].job = j,
             ex'[e].recorded = ex[e].recorded,
             {ex[e].pc, ex'[e].pc} \subseteq Holding \ {"picked", "leaving"}
      PROVE  ExecutorMoves(e)
  BY <1>2, <1>3 DEF Working
<1>4. CASE ClaimMissed(e) \/ Leave(e)
  BY <1>1, <1>2, <1>4 DEF ClaimMissed, Leave, Idle, Working, Holding
<1>5. CASE Activate(e)
  BY <1>1, <1>3, <1>5 DEF Activate, Holding
<1>6. CASE RecordRunRow(e)
  <2>1. Idles /\ \A f \in Exec \ {e} : ex'[f] = ex[f]
    BY <1>1, <1>6 DEF RecordRunRow, Recorded, Working
  <2>2. j \in Job
    BY <1>6 DEF IInv, Assigned, RecordRunRow, CanWrite
  <2>3. /\ \A i \in Job : row'[i].status = row[i].status /\ row'[i].resumes = row[i].resumes
        /\ \A i \in Job \ {j} : row'[i] = row[i]
    <3>1. PICK run : row' = [row EXCEPT ![j].run = run]
      BY <1>6 DEF RecordRunRow
    <3>2. \A i \in Job : row'[i] = IF i = j THEN [row[i] EXCEPT !.run = run] ELSE row[i]
      BY <1>1, <3>1
    <3>3. \A x \in Row : LET y == [x EXCEPT !.run = run] IN
             y.status = x.status /\ y.resumes = x.resumes
      BY DEF Row
    <3>4. row[j] \in Row /\ row'[j] = [row[j] EXCEPT !.run = run]
      BY <1>1, <2>2, <3>2
    <3> QED
      BY <3>2, <3>3, <3>4
  <2> QED
    BY <1>2, <2>1, <2>2, <2>3
<1>7. CASE HandleResult(e)
  <2>1. /\ row' = row /\ ex'[e].job = j /\ ex'[e].recorded = ex[e].recorded
        /\ \A f \in Exec \ {e} : ex'[f] = ex[f]
        /\ ex[e].pc = "returned" /\ ex'[e].pc \in {"handling", "settling"}
    BY <1>1, <1>7 DEF HandleResult, Local
  <2> QED
    BY <1>3, <2>1 DEF Holding
<1>8. ASSUME NEW outcome \in Outcome, Return(e, outcome) PROVE ExecutorMoves(e)
  <2>1. /\ row' = row /\ ex'[e].job = j /\ ex'[e].recorded = ex[e].recorded
        /\ \A f \in Exec \ {e} : ex'[f] = ex[f]
        /\ ex[e].pc = "executing" /\ ex'[e].pc = "returned"
    <3>1. /\ row' = row /\ ex[e].pc = "executing"
          /\ ex' = [ex EXCEPT ![e].pc = "returned", ![e].outcome = outcome]
      BY <1>8 DEF Return
    <3>2. ex'[e] = [ex[e] EXCEPT !.pc = "returned", !.outcome = outcome]
      BY <1>1, <3>1
    <3> QED
      BY <1>1, <3>1, <3>2 DEF Local
  <2> QED
    BY <1>3, <2>1 DEF Holding
<1> QED
  BY <1>4, <1>5, <1>6, <1>7, <1>8

\* An executor step is a step of JobQueue.
LEMMA ExecutorImplements ==
    ASSUME IInv, JobAndRunAgree, StartsAfresh, NEW e \in Exec, ExecutorStep(e)
    PROVE  QueueStep
<1> DEFINE j == ex[e].job
<1>0. j \in Job
  BY DEF IInv, Assigned, ExecutorStep, Claim, ClaimMissed, Activate, RecordResult, RecordGraphResult,
     RecordTranslation, RecordJobRow, RecordRunRow, FailClaimed, DeferGraph, Yield, CanWrite, Return,
     ReleaseInterrupted, HandleResult, Requeue, SettleUnfinished, Settling, WriteLost, Leave
<1>1. ASSUME ExecutorMoves(e) PROVE QueueStep
  <2>1. OtherRowsKept(j) /\ row'[j].resumes = row[j].resumes
    BY <1>1 DEF ExecutorMoves, OtherRowsKept
  <2>2. ASSUME Working(e), ~Working(e)', Ends(j, row[j].status, row'[j].status)
        PROVE  QueueStep
    BY <1>1, <2>1, <2>2, GivesUp DEF ExecutorMoves
  <2>3. ASSUME \/ ~Working(e) /\ ~Working(e)'
               \/ Working(e) /\ Working(e)' /\ ex'[e].job = j
        PROVE  SameWork
    BY <1>1, <2>3 DEF ExecutorMoves, SameWork, Working
  <2>4. ASSUME row'[j].status = row[j].status, SameWork
        PROVE  QueueStep
    BY <2>1, <2>4, Stutters DEF OtherRowsKept
  <2>5. ASSUME ~Working(e), ~Working(e)', ex[e].pc \in Holding,
               row[j].status = "running", row[j].lock = ex[e].lease, row'[j].status \in {"queued", "failed"}
        PROVE  QueueStep
    <3>1. \A f \in Exec : QAt[f] # j
      <4>1. SUFFICES ASSUME NEW f \in Exec, QAt[f] = j PROVE FALSE
        OBVIOUS
      <4>2. Working(f) /\ ex[f].job = j
        BY <1>0, <4>1, QueueAssumption DEF QAt
      <4>3. ex[f].lease = ex[e].lease /\ ex[f].pc \in Holding
        BY <2>5, <4>2 DEF IInv, ExecutorKeepsItsJob, Working
      <4> QED
        BY <2>5, <4>2, <4>3 DEF IInv, LeasesHeld
    <3> QED
      BY <1>0, <2>1, <2>3, <2>5, <3>1, Settles
  <2>6. ASSUME ~Working(e), ~Working(e)', row[j].status = "failed", row'[j].status = "queued"
        PROVE  QueueStep
    BY <1>0, <2>1, <2>3, <2>6, UserMoves
  <2> QED
    BY <1>1, <2>2, <2>3, <2>4, <2>5, <2>6 DEF ExecutorMoves
<1>2. CASE Claim(e)
  <2>1. /\ row'[j].status = "running" /\ row'[j].resumes = row[j].resumes
        /\ OtherRowsKept(j) /\ ex[e].lease \in Lease /\ ex[e].pc = "picked"
        /\ \A f \in Exec \ {e} : ex'[f] = ex[f]
    BY <1>2, ClaimEffect DEF IInv, OtherRowsKept
  <2>2. Working(e)' /\ ~Working(e) /\ ex'[e].job = j
    BY <1>2 DEF IInv, TypeOK, Claim, StartsAfresh, Working, Holding
  <2>3. /\ QAt' = [QAt EXCEPT ![e] = j] /\ QAt[e] = NoJob
        /\ \A f \in Exec : QAt[f] # j
    <3>1. \A f \in Exec : QAt[f] # j
      BY <1>0, <1>2, ClaimedByNobodyElse, QueueAssumption DEF QAt
    <3> QED
      BY <2>1, <2>2, <3>1, WorkStarts DEF QAt
  <2>4. QStatus' = [QStatus EXCEPT ![j] = "running"] /\ QResumes' = QResumes
    BY <1>0, <2>1, RowMoved DEF QResumes
  <2>5. QStatus[j] = "queued" /\ \A i \in Job : QStatus[i] # "running"
    BY <1>0, <1>2 DEF Claim, Claimable, NoneRunning, QStatus
  <2>6. ASSUME NEW i \in Job, i = j PROVE Queue!Claim(e, i)
    BY <2>3, <2>4, <2>5, <2>6
       DEF Queue!Claim, Queue!Unattended, Queue!Becomes, QStatus, QResumes, QAt
  <2>7. PICK i \in Job : Queue!Claim(e, i)
    BY <1>0, <2>6
  <2> QED
    BY <2>7 DEF QueueStep, Queue!Next
<1> QED
  BY <1>1, <1>2, RecordMoves, SettleMoves, QuietMoves DEF ExecutorStep

-----------------------------------------------------------------------------
(* The other steps, and the theorem.                                       *)

\* The row of an orphan after a sweep: it fails, or is queued again at the
\* price of one resume.
LEMMA OrphanSettles ==
    ASSUME TypeOK, NEW j \in Job
    PROVE  LET s == LeaseSettled(j, 1) IN
           /\ s.status \in {"queued", "failed"}
           /\ \/ s.resumes = row[j].resumes
              \/ /\ s.resumes = row[j].resumes + 1 /\ s.status = "queued"
                 /\ row[j].resumes < MaxRetries
<1>1. row[j] \in Row
  BY DEF TypeOK
<1> QED
  BY <1>1 DEF LeaseSettled, Resumable, RunTo, Unlocked, Row

\* A sweep, a repair and a start settle orphans, of which there is one at most,
\* and otherwise touch runs only.
LEMMA SweepImplements ==
    ASSUME IInv, UNCHANGED ex,
           \A j \in Job : \/ Orphaned(j) /\ row'[j] = LeaseSettled(j, 1)
                          \/ row'[j] \in {row[j], IdleRunRepaired(row[j])}
    PROVE  QueueStep
<1>1. SameWork
  BY DEF SameWork, Working
<1>2. \A j \in Job : ~Orphaned(j) => row'[j].status = row[j].status /\ row'[j].resumes = row[j].resumes
  BY RowEffects DEF IInv, TypeOK
<1>3. CASE \E j \in Job : Orphaned(j) /\ row'[j] = LeaseSettled(j, 1)
  <2>1. PICK j \in Job : Orphaned(j) /\ row'[j] = LeaseSettled(j, 1)
    BY <1>3
  <2>2. \A i \in Job \ {j} : ~Orphaned(i)
    BY <2>1 DEF Orphaned, IInv, OneRunningRow
  <2>3. OtherRowsKept(j)
    BY <1>2, <2>2 DEF OtherRowsKept
  <2>4. \A e \in Exec : QAt[e] # j
    BY <2>1, NobodyAt
  <2> QED
    BY <1>1, <2>1, <2>3, <2>4, OrphanSettles, Settles DEF IInv, Orphaned
<1>4. CASE ~\E j \in Job : Orphaned(j) /\ row'[j] = LeaseSettled(j, 1)
  <2>1. \A j \in Job : row'[j].status = row[j].status /\ row'[j].resumes = row[j].resumes
    BY <1>4, RowEffects DEF IInv, TypeOK
  <2> QED
    BY <1>1, <2>1, Stutters
<1> QED
  BY <1>3, <1>4

\* Users.
LEMMA UserImplements ==
    ASSUME IInv, NEW j \in Job,
           Submit(j) \/ BecomeDue(j) \/ CancelRun(j) \/ RetryFailed(j) \/ Resend(j)
    PROVE  QueueStep
<1>1. row[j] \in Row /\ row \in [Job -> Row] /\ ex \in [Exec -> Local]
  BY DEF IInv, TypeOK
<1>2. UNCHANGED ex => SameWork
  BY DEF SameWork, Working
<1>3. CASE Submit(j)
  <2>1. /\ OtherRowsKept(j) /\ row'[j].resumes = row[j].resumes
        /\ row[j].status = "absent" /\ row'[j].status = "queued"
    BY <1>1, <1>3 DEF Submit, OtherRowsKept, Row
  <2>2. ASSUME j \in Inline PROVE ~Working(j) /\ j \in Exec
    <3>1. j \in Exec
      BY <2>2 DEF Exec
    <3>2. Working(j) => ex[j].job = j
      BY <2>2, <3>1 DEF IInv, Assigned, Working, Holding
    <3> QED
      BY <2>1, <3>1, <3>2, WorkingRow
  <2>3. SameWork
    BY <1>1, <1>3, <2>2 DEF Submit, SameWork, Working, Idle, Holding
  <2> QED
    BY <2>1, <2>3, UserMoves
<1>4. CASE BecomeDue(j)
  <2>1. \A i \in Job : row'[i].status = row[i].status /\ row'[i].resumes = row[i].resumes
    BY <1>1, <1>4 DEF BecomeDue, Row
  <2> QED
    BY <1>2, <1>4, <2>1, Stutters DEF BecomeDue
<1>5. CASE CancelRun(j)
  <2> DEFINE s == [IF row[j].status \in Open THEN Unlocked(row[j], "cancelled") ELSE row[j]
                   EXCEPT !.run = "cancelled"]
  <2>1. row' = [row EXCEPT ![j] = s] /\ UNCHANGED ex
    BY <1>5 DEF CancelRun
  <2>2. /\ s.resumes = row[j].resumes
        /\ s.status = IF row[j].status \in Open THEN "cancelled" ELSE row[j].status
    BY <1>1 DEF Unlocked, Row
  <2>3. OtherRowsKept(j) /\ row'[j] = s
    BY <1>1, <2>1 DEF OtherRowsKept
  <2>4. CASE row[j].status \in Open
    BY <1>2, <2>1, <2>2, <2>3, <2>4, UserMoves
  <2>5. CASE row[j].status \notin Open
    BY <1>2, <2>1, <2>2, <2>3, <2>5, Stutters DEF OtherRowsKept
  <2> QED
    BY <2>4, <2>5
<1>6. CASE RetryFailed(j)
  <2>1. row' = [row EXCEPT ![j] = Requeued(row[j], NoLease, TRUE, TRUE)] /\ UNCHANGED ex
    BY <1>6 DEF RetryFailed
  <2>2. LET s == Requeued(row[j], NoLease, TRUE, TRUE) IN
        s.status = "queued" /\ s.resumes = row[j].resumes /\ row[j].status = "failed"
    BY <1>1, <1>6 DEF RetryFailed, Requeued, Unlocked, Row
  <2>3. OtherRowsKept(j) /\ row'[j] = Requeued(row[j], NoLease, TRUE, TRUE)
    BY <1>1, <2>1 DEF OtherRowsKept
  <2> QED
    BY <1>2, <2>1, <2>2, <2>3, UserMoves
<1>7. CASE Resend(j)
  <2> DEFINE s == [Unlocked(row[j], "queued") EXCEPT !.run = "queued", !.due = TRUE]
  <2>1. row' = [row EXCEPT ![j] = s] /\ UNCHANGED ex
    BY <1>7 DEF Resend
  <2>2. s.status = "queued" /\ s.resumes = row[j].resumes
    BY <1>1 DEF Unlocked, Row
  <2>3. OtherRowsKept(j) /\ row'[j] = s
    BY <1>1, <2>1 DEF OtherRowsKept
  <2> QED
    BY <1>2, <1>7, <2>1, <2>2, <2>3, UserMoves DEF Resend
<1> QED
  BY <1>3, <1>4, <1>5, <1>6, <1>7

\* The process ends.
LEMMA DeathImplements ==
    ASSUME Exit \/ Crash
    PROVE  QueueStep
<1>1. ex' = [e \in Exec |-> Idle] /\ row' = row
  BY DEF Exit, Crash, ProcessEnds
<1>2. QAt' = [e \in Exec |-> NoJob] /\ QStatus' = QStatus /\ QResumes' = QResumes
  BY <1>1 DEF QAt, QStatus, QResumes, Working, Idle, Holding
<1>3. Queue!Die
  BY <1>2 DEF Queue!Die, QAt, QStatus, QResumes
<1> QED
  BY <1>3 DEF QueueStep, Queue!Next

\* Steps before a claim, contexts and the library.
LEMMA OtherImplements ==
    ASSUME IInv,
           \/ \E j \in Job : SignalCancel(j) \/ \E l \in Lease : Pick(l, j)
           \/ \E e \in Inline : \/ \E l \in Lease : PickInline(l, e)
                                \/ LeaveQueued(e) \/ ClientGone(e)
           \/ EnterLibrary \/ GiveUpLibrary \/ OtherLocks \/ OtherUnlocks
           \/ Stop \/ CutRequests \/ UNCHANGED vars
    PROVE  QueueStep
<1>1. ex \in [Exec -> Local] /\ Worker \in Exec /\ Inline \subseteq Exec
  BY DEF IInv, TypeOK, Exec
<1>2. ASSUME UNCHANGED row, SameWork PROVE QueueStep
  BY <1>2, Stutters
<1>3. ASSUME \A e \in Exec : ex'[e].pc = ex[e].pc /\ ex'[e].job = ex[e].job
                            /\ ex'[e].recorded = ex[e].recorded
      PROVE  SameWork
  BY <1>3 DEF SameWork, Working
<1>4. ASSUME NEW j \in Job, NEW l \in Lease, Pick(l, j) PROVE QueueStep
  BY <1>1, <1>2, <1>4 DEF Pick, SameWork, Working, Idle, Holding
<1>5. ASSUME NEW f \in Inline, NEW l \in Lease, PickInline(l, f) PROVE QueueStep
  BY <1>1, <1>2, <1>5 DEF PickInline, SameWork, Working, Holding
<1>6. ASSUME NEW f \in Inline, LeaveQueued(f) PROVE QueueStep
  BY <1>1, <1>2, <1>6 DEF LeaveQueued, SameWork, Working, Idle, Holding
<1>7. ASSUME NEW f \in Inline, ClientGone(f) PROVE QueueStep
  BY <1>1, <1>2, <1>3, <1>7 DEF ClientGone
<1>8. ASSUME NEW j \in Job, SignalCancel(j) PROVE QueueStep
  BY <1>1, <1>2, <1>3, <1>8 DEF SignalCancel
<1>9. CASE EnterLibrary
  BY <1>1, <1>2, <1>9 DEF EnterLibrary, SameWork, Working, Holding
<1>10. CASE GiveUpLibrary
  BY <1>1, <1>2, <1>10 DEF GiveUpLibrary, SameWork, Working, Holding, Local
<1>11. CASE Stop
  BY <1>1, <1>2, <1>3, <1>11 DEF Stop
<1>12. CASE CutRequests
  BY <1>1, <1>2, <1>3, <1>12 DEF CutRequests
<1>13. CASE OtherLocks \/ OtherUnlocks \/ UNCHANGED vars
  BY <1>2, <1>3, <1>13 DEF OtherLocks, OtherUnlocks, vars
<1> QED
  BY <1>4, <1>5, <1>6, <1>7, <1>8, <1>9, <1>10, <1>11, <1>12, <1>13

LEMMA StepImplements ==
    ASSUME IInv, JobAndRunAgree, StartsAfresh, [Next]_vars
    PROVE  QueueStep
<1>1. ASSUME NEW e \in Exec, ExecutorStep(e) PROVE QueueStep
  BY <1>1, ExecutorImplements
<1>2. CASE Sweep
  BY <1>2, SweepImplements DEF Sweep
<1>3. ASSUME NEW seen \in SUBSET Job, NEW old \in SUBSET Job, Recover(seen, old) PROVE QueueStep
  BY <1>3, SweepImplements DEF Recover
<1>4. CASE Start
  BY <1>4, SweepImplements DEF Start
<1> QED
  BY <1>1, <1>2, <1>3, <1>4, UserImplements, DeathImplements, OtherImplements DEF Next

\* The queue, with its leases, contexts, mutexes and guarded statements, keeps
\* the promise of JobQueue, whatever the jobs and however often it crashes.
THEOREM Implements == Spec => QueueSpec
<1>1. Init => Queue!Init /\ StartsAfresh
  BY DEF Init, Queue!Init, Idle, Working, Holding, StartsAfresh
<1>2. IInv /\ JobAndRunAgree /\ StartsAfresh /\ [Next]_vars => StartsAfresh' /\ [Queue!Next]_(Queue!vars)
  BY AfreshStep, StepImplements DEF IInv, QueueStep
<1> QED
  BY <1>1, <1>2, Inductive, Agreement, PTL DEF Spec, QueueSpec, Queue!Spec
=============================================================================
