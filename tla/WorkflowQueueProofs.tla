------------------------ MODULE WorkflowQueueProofs ------------------------
(***************************************************************************)
(* What holds of WorkflowQueue for every set of jobs, whatever their kinds *)
(* and priorities, every number of leases and every budget.                *)
(***************************************************************************)
EXTENDS WorkflowQueue, TLAPS

-----------------------------------------------------------------------------
(* Which steps change what.                                                *)

LEMMA RowChanges ==
    ASSUME [Next]_vars, row' # row
    PROVE  \/ \E j \in Job : \/ Submit(j)
                             \/ BecomeDue(j)
                             \/ CancelRun(j)
                             \/ RetryFailed(j)
                             \/ Resend(j)
           \/ \E e \in Exec : ExecutorStep(e)
           \/ Sweep
           \/ \E seen, old \in SUBSET Job : Recover(seen, old)
           \/ Start
<1>1. ASSUME NEW j \in Job PROVE ~SignalCancel(j) /\ \A l \in Lease : ~Pick(l, j)
  BY DEF SignalCancel, Pick
<1>2. ASSUME NEW e \in Inline
      PROVE  ~LeaveQueued(e) /\ ~ClientGone(e) /\ \A l \in Lease : ~PickInline(l, e)
  BY DEF LeaveQueued, ClientGone, PickInline
<1>3. ~EnterLibrary /\ ~GiveUpLibrary /\ ~OtherLocks /\ ~OtherUnlocks
  BY DEF EnterLibrary, GiveUpLibrary, OtherLocks, OtherUnlocks
<1>4. ~Stop /\ ~CutRequests /\ ~Exit /\ ~Crash
  BY DEF Stop, CutRequests, Exit, Crash, ProcessEnds
<1>5. ~UNCHANGED vars
  BY DEF vars
<1> QED
  BY <1>1, <1>2, <1>3, <1>4, <1>5 DEF Next

LEMMA ExecutorRowChanges ==
    ASSUME NEW e \in Exec, ExecutorStep(e), row' # row
    PROVE  \/ Claim(e)
           \/ \E status \in {"succeeded", "failed"} :
                 \/ RecordResult(e, status)
                 \/ RecordGraphResult(e, status)
                 \/ RecordTranslation(e, status)
                 \/ RecordJobRow(e, status)
           \/ RecordRunRow(e) \/ FailClaimed(e) \/ DeferGraph(e) \/ Yield(e)
           \/ ReleaseInterrupted(e) \/ Requeue(e) \/ SettleUnfinished(e)
<1>1. ~ClaimMissed(e) /\ ~Activate(e) /\ ~HandleResult(e) /\ ~WriteLost(e) /\ ~Leave(e)
  BY DEF ClaimMissed, Activate, HandleResult, WriteLost, Leave
<1>2. \A outcome : ~Return(e, outcome)
  BY DEF Return
<1> QED
  BY <1>1, <1>2 DEF ExecutorStep

LEMMA LocalChanges ==
    ASSUME [Next]_vars
    PROVE  \/ UNCHANGED <<ex, registry>> /\ (libraryMu' = libraryMu \/ OtherLocks \/ OtherUnlocks)
           \/ \E j \in Job : \/ Submit(j)
                             \/ SignalCancel(j)
                             \/ \E l \in Lease : Pick(l, j)
           \/ \E e \in Inline : \/ \E l \in Lease : PickInline(l, e)
                                \/ LeaveQueued(e)
                                \/ ClientGone(e)
           \/ \E e \in Exec : ExecutorStep(e)
           \/ EnterLibrary \/ GiveUpLibrary
           \/ Stop \/ CutRequests \/ Exit \/ Crash
<1> DEFINE Still == UNCHANGED <<ex, registry, libraryMu>>
<1>1. ASSUME NEW j \in Job, BecomeDue(j) \/ CancelRun(j) \/ RetryFailed(j) \/ Resend(j)
      PROVE  Still
  BY <1>1 DEF BecomeDue, CancelRun, RetryFailed, Resend
<1>2. Sweep \/ Start => Still
  BY DEF Sweep, Start
<1>3. ASSUME NEW seen \in SUBSET Job, NEW old \in SUBSET Job, Recover(seen, old) PROVE Still
  BY <1>3 DEF Recover
<1>4. OtherLocks \/ OtherUnlocks => UNCHANGED <<ex, registry>>
  BY DEF OtherLocks, OtherUnlocks
<1>5. UNCHANGED vars => Still
  BY DEF vars
<1>6. Still => UNCHANGED <<ex, registry>> /\ libraryMu' = libraryMu
  OBVIOUS
<1> HIDE DEF Still
<1> QED
  BY <1>1, <1>2, <1>3, <1>4, <1>5, <1>6 DEF Next

-----------------------------------------------------------------------------
(* Type correctness.                                                       *)

\* An executor that is not idle has a job, an inline one its own, and one past
\* the offer has a lease.
Assigned ==
    \A e \in Exec :
        /\ ex[e].pc # "idle" => ex[e].job \in Job
        /\ ex[e].pc # "idle" /\ e \in Inline => ex[e].job = e
        /\ ex[e].pc \in Holding <=> ex[e].lease \in Lease

LEMMA StatusValues ==
    {"absent", "queued", "running", "succeeded", "failed", "cancelled"} \subseteq Status
BY DEF Status, Open

LEMMA LocalValues ==
    /\ {"idle", "offered", "picked", "claimed", "waiting", "executing", "returned",
        "handling", "settling", "leaving"} \subseteq PC
    /\ {"live", "cancelled", "stopped"} \subseteq Context
    /\ {"ok", "error", "transient", "backoff"} \subseteq Outcome
BY DEF PC, Context, Outcome

\* An update of one column keeps the type of a row.
LEMMA RowUpdates ==
    \A r \in Row :
        /\ r.status \in Status /\ r.run \in Status
        /\ r.retries \in Nat /\ r.resumes \in Nat
        /\ \A s \in Status : [r EXCEPT !.status = s] \in Row /\ [r EXCEPT !.run = s] \in Row
        /\ \A l \in Lease \union {NoLease} : [r EXCEPT !.lock = l] \in Row
        /\ \A n \in Nat : [r EXCEPT !.retries = n] \in Row /\ [r EXCEPT !.resumes = n] \in Row
        /\ \A p \in Int : [r EXCEPT !.priority = p] \in Row
        /\ \A d \in BOOLEAN : [r EXCEPT !.due = d] \in Row
BY DEF Row

\* An update of one field keeps the type of an executor's local state.
LEMMA LocalUpdates ==
    /\ Idle \in Local
    /\ \A x \in Local :
          /\ x.lease \in Lease \union {NoLease} /\ x.job \in Job \union {NoJob}
          /\ x.ctx \in Context /\ x.outcome \in Outcome
          /\ x.recorded \in {"no", "half", "yes"} /\ x.retries \in Nat
          /\ \A pc \in PC : [x EXCEPT !.pc = pc] \in Local
          /\ \A j \in Job : [x EXCEPT !.job = j] \in Local
          /\ \A l \in Lease : [x EXCEPT !.lease = l] \in Local
          /\ \A c \in Context : [x EXCEPT !.ctx = c] \in Local
          /\ \A o \in Outcome : [x EXCEPT !.outcome = o] \in Local
          /\ \A v \in {"no", "half", "yes"} : [x EXCEPT !.recorded = v] \in Local
          /\ \A n \in Nat : [x EXCEPT !.retries = n] \in Local
<1>1. Idle \in Local
  BY DEF Idle, Local, PC, Context, Outcome
<1> QED
  BY <1>1 DEF Local

\* What the statements of the queue make of a row is a row.
LEMMA RowResults ==
    ASSUME NEW r \in Row
    PROVE  /\ \A status \in Status : Unlocked(r, status) \in Row
           /\ \A status \in Status : RunTo(r, status) \in Row
           /\ \A lease : FailedUnder(r, lease) \in Row
           /\ IdleRunRepaired(r) \in Row
           /\ \A lease, counted : \A due \in BOOLEAN :
                 Requeued(r, lease, counted, due) \in Row
<1>1. \A status \in Status : Unlocked(r, status) \in Row
  BY RowUpdates DEF Unlocked
<1>2. \A s \in Row, status \in Status : RunTo(s, status) \in Row
  BY RowUpdates DEF RunTo
<1>3. \A lease : FailedUnder(r, lease) \in Row
  BY <1>1, <1>2, StatusValues DEF FailedUnder
<1>4. IdleRunRepaired(r) \in Row
  BY RowUpdates, StatusValues DEF IdleRunRepaired
<1>5. ASSUME NEW lease, NEW counted, NEW due \in BOOLEAN
      PROVE  Requeued(r, lease, counted, due) \in Row
  <2>1. r.retries + 1 \in Nat
    BY RowUpdates
  <2>2. [Unlocked(r, "queued") EXCEPT !.run = "queued", !.due = due] \in Row
    BY <1>1, RowUpdates, StatusValues
  <2>3. (IF counted THEN r.retries + 1 ELSE r.retries) \in Nat
    BY <2>1, RowUpdates
  <2> QED
    BY <2>2, <2>3, RowUpdates DEF Requeued
<1> QED
  BY <1>1, <1>2, <1>3, <1>4, <1>5

\* A settled lease leaves a row.
LEMMA LeaseSettledType ==
    ASSUME TypeOK, NEW j \in Job, NEW spent \in Nat
    PROVE  LeaseSettled(j, spent) \in Row
<1>1. row[j] \in Row
  BY DEF TypeOK
<1>2. row[j].resumes + spent \in Nat
  BY <1>1, RowUpdates
<1> QED
  BY <1>1, <1>2, RowUpdates, StatusValues DEF LeaseSettled, Unlocked, RunTo

\* Budgets stay natural numbers.
LEMMA SpendType ==
    ASSUME TypeOK, NEW o \in Occasion, Spend(o)
    PROVE  left' \in [Occasion -> Nat]
<1>1. left[o] \in Nat /\ left[o] > 0
  BY DEF TypeOK, Spend
<1>2. left[o] - 1 \in Nat
  BY <1>1
<1> QED
  BY <1>2 DEF TypeOK, Spend

\* A release moves its executor on, and may close its record.
LEMMA ReleaseInterruptedLocal ==
    ASSUME TypeOK, NEW e \in Exec, ReleaseInterrupted(e)
    PROVE  /\ ex[e].pc = "returned" /\ ex'[e].pc \in {"leaving", "handling"}
           /\ ex'[e].job = ex[e].job /\ ex'[e].lease = ex[e].lease
           /\ ex'[e].recorded = ex[e].recorded \/ ex'[e].recorded = "yes"
           /\ \A d \in Exec \ {e} : ex'[d] = ex[d]
           /\ registry' = registry
BY DEF TypeOK, Local, ReleaseInterrupted

\* No step leaves the types.
LEMMA TypeStep == TypeOK /\ Assigned /\ [Next]_vars => TypeOK'
<1> SUFFICES ASSUME TypeOK, Assigned, [Next]_vars PROVE TypeOK'
  OBVIOUS
<1>1. ASSUME NEW j \in Job, Submit(j) PROVE TypeOK'
  BY <1>1, RowUpdates, StatusValues, LocalUpdates, LocalValues, QueueAssumption DEF TypeOK, Assigned, Submit, Exec
<1>2. ASSUME NEW j \in Job, BecomeDue(j) PROVE TypeOK'
  BY <1>2, RowUpdates, StatusValues, QueueAssumption DEF TypeOK, Assigned, BecomeDue
<1>3. ASSUME NEW j \in Job, CancelRun(j) PROVE TypeOK'
  BY <1>3, RowUpdates, StatusValues, QueueAssumption DEF TypeOK, Assigned, CancelRun, Unlocked
<1>4. ASSUME NEW j \in Job, SignalCancel(j) PROVE TypeOK'
  BY <1>4, LocalUpdates, LocalValues, QueueAssumption DEF TypeOK, Assigned, SignalCancel
<1>5. ASSUME NEW j \in Job, RetryFailed(j) PROVE TypeOK'
  BY <1>5, RowResults, SpendType, QueueAssumption DEF Occasion, TypeOK, Assigned, RetryFailed
<1>6. ASSUME NEW j \in Job, Resend(j) PROVE TypeOK'
  BY <1>6, RowUpdates, StatusValues, SpendType, QueueAssumption DEF Occasion, TypeOK, Assigned, Resend, Unlocked
<1>7. ASSUME NEW j \in Job, NEW l \in Lease, Pick(l, j) PROVE TypeOK'
  BY <1>7, LocalUpdates, LocalValues, QueueAssumption DEF TypeOK, Assigned, Pick, Exec
<1>8. ASSUME NEW e \in Inline, NEW l \in Lease, PickInline(l, e) PROVE TypeOK'
  BY <1>8, LocalUpdates, LocalValues, QueueAssumption DEF TypeOK, Assigned, PickInline, Exec
<1>9. ASSUME NEW e \in Inline, LeaveQueued(e) PROVE TypeOK'
  BY <1>9, LocalUpdates, LocalValues, QueueAssumption DEF TypeOK, Assigned, LeaveQueued, Exec
<1>10. ASSUME NEW e \in Inline, ClientGone(e) PROVE TypeOK'
  BY <1>10, LocalUpdates, LocalValues, QueueAssumption DEF TypeOK, Assigned, ClientGone, Exec
<1>11. ASSUME NEW e \in Exec, ExecutorStep(e) PROVE TypeOK'
  <2>1. CASE Claim(e)
    <3>1. ex[e].job \in Job /\ ex[e].lease \in Lease
      BY <2>1 DEF Assigned, Claim, Holding
    <3>2. row' \in [Job -> Row]
      BY <2>1, <3>1, RowUpdates, StatusValues DEF TypeOK, Claim
    <3>3. ex' \in [Exec -> Local]
      BY <2>1, <3>1, RowUpdates, LocalUpdates, LocalValues DEF TypeOK, Claim
    <3> QED
      BY <2>1, <3>2, <3>3 DEF TypeOK, Claim
  <2>2. CASE ClaimMissed(e)
    BY <2>2, LocalUpdates, LocalValues, QueueAssumption DEF TypeOK, Assigned, ClaimMissed
  <2>3. CASE Activate(e)
    BY <2>3, LocalUpdates, LocalValues, QueueAssumption DEF TypeOK, Assigned, Activate
  <2>4. ASSUME NEW status \in {"succeeded", "failed"}, RecordResult(e, status) PROVE TypeOK'
    <3>1. row' \in [Job -> Row]
      <4>1. \A r \in Row : [Unlocked(r, status) EXCEPT !.run = status] \in Row
        BY RowUpdates, RowResults, StatusValues
      <4> QED
        BY <2>4, <4>1 DEF TypeOK, RecordResult
    <3>2. ex' \in [Exec -> Local]
      BY <2>4, LocalUpdates DEF TypeOK, RecordResult, Recorded
    <3> QED
      BY <2>4, <3>1, <3>2 DEF TypeOK, RecordResult
  <2>5. ASSUME NEW status \in {"succeeded", "failed"}, RecordGraphResult(e, status) PROVE TypeOK'
    <3>1. row' \in [Job -> Row]
      <4> DEFINE Result(r) == [IF r.status \in Open THEN Unlocked(r, status) ELSE r
                               EXCEPT !.run = status]
      <4>1. \A r \in Row : Result(r) \in Row
        BY RowUpdates, RowResults, StatusValues
      <4>2. row' = row \/ row' = [row EXCEPT ![ex[e].job] = Result(row[ex[e].job])]
        BY <2>5 DEF RecordGraphResult
      <4> HIDE DEF Result
      <4> QED
        BY <4>1, <4>2 DEF TypeOK
    <3>2. ex' \in [Exec -> Local]
      BY <2>5, LocalUpdates DEF TypeOK, RecordGraphResult, Recorded
    <3> QED
      BY <2>5, <3>1, <3>2 DEF TypeOK, RecordGraphResult
  <2>6. ASSUME NEW status \in {"succeeded", "failed"}, RecordTranslation(e, status) PROVE TypeOK'
    <3>1. row' \in [Job -> Row]
      <4>1. ex[e].job \in Job
        BY <2>6 DEF Assigned, RecordTranslation, CanWrite
      <4> DEFINE r == row[ex[e].job]
                 run == IF r.run = "running" THEN status ELSE r.run
      <4>2. r \in Row
        BY <4>1 DEF TypeOK
      <4>3. [Unlocked(r, status) EXCEPT !.run = run] \in Row
        BY <4>2, RowResults, RowUpdates, StatusValues
      <4> QED
        BY <2>6, <4>3 DEF TypeOK, RecordTranslation
    <3>2. ex' \in [Exec -> Local]
      BY <2>6, LocalUpdates DEF TypeOK, RecordTranslation, Recorded
    <3> QED
      BY <2>6, <3>1, <3>2 DEF TypeOK, RecordTranslation
  <2>7. ASSUME NEW status \in {"succeeded", "failed"}, RecordJobRow(e, status) PROVE TypeOK'
    <3>1. row' \in [Job -> Row]
      BY <2>7, RowUpdates, StatusValues DEF TypeOK, RecordJobRow, Unlocked
    <3>2. ex' \in [Exec -> Local]
      BY <2>7, LocalUpdates, LocalValues DEF TypeOK, RecordJobRow
    <3> QED
      BY <2>7, <3>1, <3>2 DEF TypeOK, RecordJobRow
  <2>8. CASE RecordRunRow(e)
    BY <2>8, RowUpdates, StatusValues, LocalUpdates, LocalValues, QueueAssumption DEF TypeOK, Assigned, RecordRunRow, Recorded
  <2>9. CASE FailClaimed(e)
    BY <2>9, RowResults, RowUpdates, StatusValues, LocalUpdates, LocalValues, QueueAssumption DEF TypeOK, Assigned, FailClaimed, Recorded
  <2>10. CASE DeferGraph(e)
    <3>1. row' \in [Job -> Row]
      <4>1. ex[e].job \in Job
        BY <2>10 DEF Assigned, DeferGraph, CanWrite
      <4> DEFINE r == row[ex[e].job]
                 run == IF r.run = "running" THEN "queued" ELSE r.run
      <4>2. r \in Row /\ Background - 1 \in Int /\ run \in Status
        BY <4>1, RowUpdates, StatusValues, QueueAssumption DEF TypeOK
      <4>3. [Unlocked(r, "queued") EXCEPT !.priority = Background - 1, !.due = FALSE] \in Row
        BY <4>2, RowResults, RowUpdates, StatusValues
      <4>4. \A s \in Row : [s EXCEPT !.run = run] \in Row
        BY <4>2, RowUpdates
      <4> QED
        BY <2>10, <4>2, <4>3, <4>4 DEF TypeOK, DeferGraph
    <3>2. ex' \in [Exec -> Local]
      BY <2>10, LocalUpdates DEF TypeOK, DeferGraph, Recorded
    <3> QED
      BY <2>10, <3>1, <3>2, SpendType DEF Occasion, TypeOK, DeferGraph
  <2>11. CASE Yield(e)
    BY <2>11, RowResults, LocalUpdates, LocalValues, SpendType, QueueAssumption DEF Occasion, TypeOK, Assigned, Yield, Recorded
  <2>12. ASSUME NEW outcome \in Outcome, Return(e, outcome) PROVE TypeOK'
    <3>1. ex' \in [Exec -> Local]
      <4>1. \A x \in Local : [x EXCEPT !.pc = "returned", !.outcome = outcome] \in Local
        BY <2>12, LocalUpdates, LocalValues
      <4> QED
        BY <2>12, <4>1 DEF TypeOK, Return
    <3>2. left' \in [Occasion -> Nat]
      BY <2>12, SpendType DEF Occasion, TypeOK, Return
    <3>3. libraryMu' \in {libraryMu, NoOne}
      BY <2>12 DEF Return
    <3> QED
      BY <2>12, <3>1, <3>2, <3>3 DEF TypeOK, Return
  <2>13. CASE ReleaseInterrupted(e)
    <3>1. ex[e].job \in Job
      BY <2>13 DEF Assigned, ReleaseInterrupted
    <3>2. row' \in [Job -> Row]
      BY <2>13, <3>1, LeaseSettledType DEF TypeOK, ReleaseInterrupted
    <3>3. ex' \in [Exec -> Local]
      <4> DEFINE Recorded3 == {"no", "half", "yes"}
      <4>1. ex[e].recorded \in Recorded3
        BY LocalUpdates DEF TypeOK
      <4>2. \A pc \in PC, v \in Recorded3, x \in Local :
               [x EXCEPT !.pc = pc, !.recorded = v] \in Local
        BY LocalUpdates
      <4>3. ASSUME NEW pc \in PC, NEW v \in Recorded3, ex' = [ex EXCEPT ![e].pc = pc, ![e].recorded = v]
            PROVE  ex' \in [Exec -> Local]
        BY <4>2, <4>3 DEF TypeOK
      <4>4. \E pc \in PC, v \in Recorded3 : ex' = [ex EXCEPT ![e].pc = pc, ![e].recorded = v]
        BY <2>13, <4>1, LocalValues DEF ReleaseInterrupted
      <4> QED
        BY <4>3, <4>4
    <3> QED
      BY <2>13, <3>2, <3>3 DEF TypeOK, ReleaseInterrupted
  <2>14. CASE HandleResult(e)
    <3>1. \A x \in Local, pc \in PC, c \in Context : [x EXCEPT !.pc = pc, !.ctx = c] \in Local
      BY LocalUpdates
    <3>2. \E pc \in PC, c \in Context : ex' = [ex EXCEPT ![e].pc = pc, ![e].ctx = c]
      <4>1. ex[e] \in Local
        BY DEF TypeOK
      <4>2. (IF e = Worker THEN "handling" ELSE "settling") \in PC
        BY LocalValues
      <4>3. (IF e \in Inline THEN "cancelled" ELSE ex[e].ctx) \in Context
        BY <4>1, LocalUpdates, LocalValues
      <4> QED
        BY <2>14, <4>2, <4>3 DEF HandleResult
    <3>3. ex' \in [Exec -> Local]
      <4>1. ASSUME NEW pc \in PC, NEW c \in Context, ex' = [ex EXCEPT ![e].pc = pc, ![e].ctx = c]
            PROVE  ex' \in [Exec -> Local]
        BY <3>1, <4>1 DEF TypeOK
      <4> QED
        BY <3>2, <4>1
    <3> QED
      BY <2>14, <3>3 DEF TypeOK, HandleResult
  <2>15. CASE Requeue(e)
    <3>1. row' \in [Job -> Row]
      BY <2>15, RowResults DEF TypeOK, Requeue
    <3>2. ex' \in [Exec -> Local]
      BY <2>15, LocalUpdates, LocalValues DEF TypeOK, Requeue
    <3> QED
      BY <2>15, <3>1, <3>2 DEF TypeOK, Requeue
  <2>16. CASE SettleUnfinished(e)
    BY <2>16, RowResults, LocalUpdates, LocalValues, QueueAssumption DEF TypeOK, Assigned, SettleUnfinished
  <2>17. CASE WriteLost(e)
    <3>1. ex' \in [Exec -> Local]
      <4>1. ASSUME NEW pc \in PC, ex' = [ex EXCEPT ![e].pc = pc]
            PROVE  ex' \in [Exec -> Local]
        BY <4>1, LocalUpdates DEF TypeOK
      <4> QED
        BY <2>17, <4>1, LocalValues DEF WriteLost
    <3> QED
      BY <2>17, <3>1, SpendType DEF Occasion, TypeOK, WriteLost
  <2>18. CASE Leave(e)
    BY <2>18, LocalUpdates, LocalValues, QueueAssumption DEF TypeOK, Assigned, Leave
  <2> QED
    BY <1>11, <2>1, <2>2, <2>3, <2>4, <2>5, <2>6, <2>7, <2>8, <2>9, <2>10, <2>11,
       <2>12, <2>13, <2>14, <2>15, <2>16, <2>17, <2>18 DEF ExecutorStep
<1>12. ASSUME EnterLibrary \/ GiveUpLibrary PROVE TypeOK'
  <2>1. Worker \in Exec
    BY DEF Exec
  <2>2. CASE EnterLibrary
    BY <2>1, <2>2, LocalUpdates, LocalValues DEF TypeOK, EnterLibrary
  <2>3. CASE GiveUpLibrary
    BY <2>1, <2>3, LocalUpdates, LocalValues DEF TypeOK, GiveUpLibrary
  <2> QED
    BY <1>12, <2>2, <2>3
<1>13. ASSUME Sweep PROVE TypeOK'
  BY <1>13, LeaseSettledType, QueueAssumption DEF TypeOK, Assigned, Sweep
<1>14. ASSUME NEW seen \in SUBSET Job, NEW old \in SUBSET Job, Recover(seen, old) PROVE TypeOK'
  BY <1>14, LeaseSettledType, RowResults, SpendType, QueueAssumption DEF Occasion, TypeOK, Assigned, Recover
<1>15. ASSUME OtherLocks \/ OtherUnlocks PROVE TypeOK'
  BY <1>15, QueueAssumption DEF TypeOK, Assigned, OtherLocks, OtherUnlocks
<1>16. ASSUME Stop PROVE TypeOK'
  BY <1>16, LocalUpdates, LocalValues, SpendType, QueueAssumption DEF Occasion, TypeOK, Assigned, Stop, Exec
<1>17. ASSUME CutRequests PROVE TypeOK'
  BY <1>17, LocalUpdates, LocalValues, QueueAssumption DEF TypeOK, Assigned, CutRequests
<1>18. ASSUME Exit \/ Crash PROVE TypeOK'
  BY <1>18, LocalUpdates, LocalValues, SpendType, QueueAssumption DEF Occasion, TypeOK, Assigned, Exit, Crash, ProcessEnds
<1>19. ASSUME Start PROVE TypeOK'
  BY <1>19, LeaseSettledType, RowResults, QueueAssumption DEF TypeOK, Assigned, Start
<1>20. ASSUME UNCHANGED vars PROVE TypeOK'
  BY <1>20 DEF TypeOK, vars
<1> QED
  BY <1>1, <1>2, <1>3, <1>4, <1>5, <1>6, <1>7, <1>8, <1>9, <1>10, <1>11, <1>12, <1>13,
     <1>14, <1>15, <1>16, <1>17, <1>18, <1>19, <1>20 DEF Next

\* Assignments outlive every step.
LEMMA AssignedStep == TypeOK /\ Assigned /\ [Next]_vars => Assigned'
<1> SUFFICES ASSUME TypeOK, Assigned, [Next]_vars PROVE Assigned'
  OBVIOUS
<1>1. ASSUME NEW j \in Job, Submit(j) PROVE Assigned'
  BY <1>1, QueueAssumption DEF Assigned, TypeOK, Idle, Holding, Exec, Submit
<1>2. ASSUME NEW j \in Job, SignalCancel(j) PROVE Assigned'
  BY <1>2, QueueAssumption DEF Assigned, TypeOK, Idle, Holding, Exec, SignalCancel
<1>3. ASSUME NEW j \in Job, NEW l \in Lease, Pick(l, j) PROVE Assigned'
  BY <1>3, QueueAssumption DEF Assigned, TypeOK, Idle, Holding, Exec, Pick
<1>4. ASSUME NEW e \in Inline, NEW l \in Lease, PickInline(l, e) PROVE Assigned'
  BY <1>4, QueueAssumption DEF Assigned, TypeOK, Idle, Holding, Exec, PickInline
<1>5. ASSUME NEW e \in Inline, LeaveQueued(e) PROVE Assigned'
  BY <1>5, QueueAssumption DEF Assigned, TypeOK, Idle, Holding, Exec, LeaveQueued
<1>6. ASSUME NEW e \in Inline, ClientGone(e) PROVE Assigned'
  BY <1>6, QueueAssumption DEF Assigned, TypeOK, Idle, Holding, Exec, ClientGone
<1>7. ASSUME NEW e \in Exec, ExecutorStep(e) PROVE Assigned'
  <2>1. CASE Claim(e)
    BY <2>1, QueueAssumption DEF Assigned, TypeOK, Idle, Holding, Recorded, CanWrite, Settling, Claim
  <2>2. CASE ClaimMissed(e)
    BY <2>2, QueueAssumption DEF Assigned, TypeOK, Idle, Holding, Recorded, CanWrite, Settling, ClaimMissed
  <2>3. CASE Activate(e)
    BY <2>3, QueueAssumption DEF Assigned, TypeOK, Idle, Holding, Recorded, CanWrite, Settling, Activate
  <2>4. CASE RecordRunRow(e)
    BY <2>4, QueueAssumption DEF Assigned, TypeOK, Idle, Holding, Recorded, CanWrite, Settling, RecordRunRow
  <2>5. CASE FailClaimed(e)
    BY <2>5, QueueAssumption DEF Assigned, TypeOK, Idle, Holding, Recorded, CanWrite, Settling, FailClaimed
  <2>6. CASE DeferGraph(e)
    BY <2>6, QueueAssumption DEF Assigned, TypeOK, Idle, Holding, Recorded, CanWrite, Settling, DeferGraph
  <2>7. CASE Yield(e)
    BY <2>7, QueueAssumption DEF Assigned, TypeOK, Idle, Holding, Recorded, CanWrite, Settling, Yield
  <2>8. CASE ReleaseInterrupted(e)
    BY <2>8, ReleaseInterruptedLocal DEF Assigned, Holding
  <2>9. CASE HandleResult(e)
    BY <2>9, QueueAssumption DEF Assigned, TypeOK, Idle, Holding, Recorded, CanWrite, Settling, HandleResult
  <2>10. CASE Requeue(e)
    BY <2>10, QueueAssumption DEF Assigned, TypeOK, Idle, Holding, Recorded, CanWrite, Settling, Requeue
  <2>11. CASE SettleUnfinished(e)
    BY <2>11, QueueAssumption DEF Assigned, TypeOK, Idle, Holding, Recorded, CanWrite, Settling, SettleUnfinished
  <2>12. CASE WriteLost(e)
    <3>1. /\ ex[e].pc \in Holding
          /\ \E pc \in Holding : ex' = [ex EXCEPT ![e].pc = pc]
      BY <2>12 DEF WriteLost, Settling, Holding
    <3> QED
      BY <3>1 DEF Assigned, TypeOK, Holding
  <2>13. CASE Leave(e)
    BY <2>13, QueueAssumption DEF Assigned, TypeOK, Idle, Holding, Recorded, CanWrite, Settling, Leave
  <2>14. ASSUME NEW status, RecordResult(e, status) PROVE Assigned'
    BY <2>14 DEF Assigned, TypeOK, Holding, Recorded, CanWrite, RecordResult
  <2>15. ASSUME NEW status, RecordGraphResult(e, status) PROVE Assigned'
    BY <2>15 DEF Assigned, TypeOK, Holding, Recorded, CanWrite, RecordGraphResult
  <2>16. ASSUME NEW status, RecordTranslation(e, status) PROVE Assigned'
    BY <2>16 DEF Assigned, TypeOK, Holding, Recorded, CanWrite, RecordTranslation
  <2>17. ASSUME NEW status, RecordJobRow(e, status) PROVE Assigned'
    BY <2>17 DEF Assigned, TypeOK, Holding, Recorded, CanWrite, RecordJobRow
  <2>18. ASSUME NEW outcome, Return(e, outcome) PROVE Assigned'
    BY <2>18 DEF Assigned, TypeOK, Holding, Return
  <2> QED
    BY <1>7, <2>1, <2>2, <2>3, <2>4, <2>5, <2>6, <2>7, <2>8, <2>9, <2>10, <2>11, <2>12, <2>13, <2>14, <2>15, <2>16, <2>17, <2>18 DEF ExecutorStep
<1>8. ASSUME EnterLibrary \/ GiveUpLibrary PROVE Assigned'
  <2>1. CASE EnterLibrary
    BY <2>1 DEF Assigned, TypeOK, Holding, EnterLibrary
  <2>2. CASE GiveUpLibrary
    BY <2>2 DEF Assigned, TypeOK, Holding, GiveUpLibrary
  <2> QED
    BY <1>8, <2>1, <2>2
<1>9. ASSUME Stop PROVE Assigned'
  BY <1>9, QueueAssumption DEF Assigned, TypeOK, Idle, Holding, Exec, Stop
<1>10. ASSUME CutRequests PROVE Assigned'
  BY <1>10, QueueAssumption DEF Assigned, TypeOK, Idle, Holding, Exec, CutRequests
<1>11. ASSUME Exit \/ Crash PROVE Assigned'
  BY <1>11, QueueAssumption DEF Assigned, TypeOK, Idle, Holding, Exec, Exit, Crash, ProcessEnds
<1>12. ASSUME UNCHANGED ex PROVE Assigned'
  BY <1>12 DEF Assigned
<1> QED
  BY <1>1, <1>2, <1>3, <1>4, <1>5, <1>6, <1>7, <1>8, <1>9, <1>10, <1>11, <1>12, LocalChanges

\* Rows, executors, the lease registry and the locks keep their types.
THEOREM TypeCorrect == Spec => []TypeOK
<1>1. Init => TypeOK /\ Assigned
  BY QueueAssumption DEF Init, TypeOK, Assigned, Row, Local, Idle, PC, Context, Outcome, Exec, Status, Open, Holding
<1> QED
  BY <1>1, TypeStep, AssignedStep, PTL DEF Spec

-----------------------------------------------------------------------------
(* Who moves a row.                                                        *)

\* What a statement of the queue leaves of a row.
LEMMA RowEffects ==
    ASSUME NEW r \in Row
    PROVE  /\ \A status : /\ Unlocked(r, status).status = status
                          /\ Unlocked(r, status).lock = NoLease
                          /\ Unlocked(r, status).run = r.run
                          /\ Unlocked(r, status).resumes = r.resumes
           /\ \A status : /\ RunTo(r, status).status = r.status
                          /\ RunTo(r, status).lock = r.lock
                          /\ RunTo(r, status).resumes = r.resumes
                          /\ RunTo(r, status).run = IF r.run \in Open THEN status ELSE r.run
           /\ /\ IdleRunRepaired(r).status = r.status
              /\ IdleRunRepaired(r).lock = r.lock
              /\ IdleRunRepaired(r).resumes = r.resumes
<1>1. \A status : /\ Unlocked(r, status).status = status
                  /\ Unlocked(r, status).lock = NoLease
                  /\ Unlocked(r, status).run = r.run
                  /\ Unlocked(r, status).resumes = r.resumes
  BY DEF Unlocked, Row
<1>2. \A status : /\ RunTo(r, status).status = r.status
                  /\ RunTo(r, status).lock = r.lock
                  /\ RunTo(r, status).resumes = r.resumes
                  /\ RunTo(r, status).run = IF r.run \in Open THEN status ELSE r.run
  BY DEF RunTo, Row
<1>3. /\ IdleRunRepaired(r).status = r.status
      /\ IdleRunRepaired(r).lock = r.lock
      /\ IdleRunRepaired(r).resumes = r.resumes
  BY DEF IdleRunRepaired, Row
<1> QED
  BY <1>1, <1>2, <1>3

LEMMA RunEffect ==
    \A r \in Row : \A run :
        LET s == [r EXCEPT !.run = run] IN
        s.status = r.status /\ s.lock = r.lock /\ s.resumes = r.resumes /\ s.run = run
BY DEF Row

LEMMA FailedUnderEffect ==
    ASSUME NEW r \in Row, NEW lease
    PROVE  LET s == FailedUnder(r, lease) IN
           \/ s = r
           \/ /\ r.status = "running" /\ r.lock = lease
              /\ s.status = "failed" /\ s.lock = NoLease /\ s.resumes = r.resumes
              /\ s.run = IF r.run \in Open THEN "failed" ELSE r.run
BY DEF FailedUnder, Unlocked, RunTo, Row

LEMMA LeaseSettledEffect ==
    ASSUME TypeOK, NEW j \in Job, NEW spent \in {0, 1}
    PROVE  LET s == LeaseSettled(j, spent) IN
           /\ s.status \in {"queued", "failed"}
           /\ s.lock = NoLease
           /\ s.resumes # row[j].resumes => spent = 1 /\ s.resumes <= MaxRetries
           /\ row[j].run \in Open => s.run = s.status
           /\ row[j].run \notin Open => s.run = row[j].run
<1>1. row[j] \in Row /\ row[j].resumes \in Nat /\ MaxRetries \in Nat
  BY QueueAssumption DEF TypeOK, Row
<1>2. CASE Resumable(j)
  <2> DEFINE r == [Unlocked(row[j], "queued") EXCEPT
                      !.resumes = row[j].resumes + spent, !.due = TRUE]
  <2>1. row[j].resumes < MaxRetries
    BY <1>2 DEF Resumable
  <2>2. /\ r.status = "queued" /\ r.lock = NoLease /\ r.run = row[j].run
        /\ r.resumes = row[j].resumes + spent
    BY <1>1 DEF Unlocked, Row
  <2>3. r \in Row
    <3>1. Unlocked(row[j], "queued") \in Row /\ row[j].resumes + spent \in Nat
      <4>1. Unlocked(row[j], "queued") \in Row
        BY <1>1, RowResults, StatusValues
      <4>2. row[j].resumes + spent \in Nat
        BY <1>1
      <4> QED
        BY <4>1, <4>2
    <3> QED
      BY <3>1, RowUpdates
  <2>4. row[j].resumes + spent # row[j].resumes
           => spent = 1 /\ row[j].resumes + spent <= MaxRetries
    BY <1>1, <2>1
  <2>5. LeaseSettled(j, spent) = RunTo(r, "queued")
    BY <1>2 DEF LeaseSettled
  <2> HIDE DEF r
  <2> QED
    BY <2>2, <2>3, <2>4, <2>5, RowEffects
<1>3. CASE ~Resumable(j)
  <2>1. LeaseSettled(j, spent) = RunTo(Unlocked(row[j], "failed"), "failed")
    BY <1>3 DEF LeaseSettled
  <2>2. Unlocked(row[j], "failed") \in Row
    BY <1>1, RowResults, StatusValues
  <2> QED
    BY <1>1, <2>1, <2>2, RowEffects
<1> QED
  BY <1>2, <1>3

\* A claim makes its queued job the running one, under the lease of the executor.
LEMMA ClaimEffect ==
    ASSUME TypeOK, Assigned, NEW e \in Exec, Claim(e)
    PROVE  LET j == ex[e].job IN
           /\ j \in Job /\ ex[e].lease \in Lease /\ ex[e].pc = "picked"
           /\ row'[j].status = "running" /\ row'[j].lock = ex[e].lease
           /\ row'[j].resumes = row[j].resumes
           /\ \A i \in Job \ {j} : row'[i] = row[i]
           /\ \A d \in Exec \ {e} : ex'[d] = ex[d]
<1>1. ex[e].job \in Job /\ ex[e].lease \in Lease
  BY DEF Assigned, Claim, Holding
<1>2. row[ex[e].job] \in Row /\ row \in [Job -> Row] /\ ex \in [Exec -> Local]
  BY <1>1 DEF TypeOK
<1> QED
  BY <1>1, <1>2 DEF Claim, Row

\* The ways a step may move the row of a job: it is claimed, submitted or
\* cancelled, its executor records a result or gives it up, it is settled as an
\* orphan, retried, or sent again.
Claimed(j) == \E e \in Exec : Claim(e) /\ ex[e].job = j

\* An executor at work records a result or puts its job back.
Finished(j) ==
    \E e \in Exec : /\ MayRecord(e) /\ ex[e].job = j /\ ~Working(e)'
                    /\ row'[j].status \in {"succeeded", "failed", "queued"}
                    /\ row'[j].status = "queued" => row[j].status = "running"

\* An executor settles its job under its lease.
LeaseGivenUp(j) ==
    \E e \in Exec : /\ ex[e].pc \in Holding /\ ex[e].job = j /\ ~Working(e)'
                    /\ row[j].status = "running" /\ row[j].lock = ex[e].lease
                    /\ row'[j].status \in {"queued", "failed"}

RowMoves(j) ==
    LET r == row[j]
        s == row'[j] IN
    \/ s.status = r.status /\ s.lock = r.lock
    \/ Claimed(j) \/ Finished(j) \/ LeaseGivenUp(j)
    \/ r.status = "absent" /\ s.status = "queued"
    \/ r.status \in Open /\ s.status = "cancelled"
    \/ Orphaned(j) /\ s.status \in {"queued", "failed"}
    \/ r.status = "failed" /\ s.status = "queued"
    \/ /\ j \in Translation /\ s.status = "queued"
       /\ r.status \in {"succeeded", "failed", "cancelled"}

ResumesKept(j) ==
    row'[j].resumes # row[j].resumes => Orphaned(j) /\ row'[j].resumes <= MaxRetries

LEMMA RowStep ==
    ASSUME TypeOK, Assigned, [Next]_vars, NEW i \in Job
    PROVE  RowMoves(i) /\ ResumesKept(i)
<1>0. row[i] \in Row
  BY DEF TypeOK
<1>1. ASSUME NEW j \in Job, Submit(j) PROVE RowMoves(i) /\ ResumesKept(i)
  BY <1>0, <1>1 DEF TypeOK, Submit, RowMoves, Claimed, Finished, LeaseGivenUp, ResumesKept, Row
<1>2. ASSUME NEW j \in Job, BecomeDue(j) PROVE RowMoves(i) /\ ResumesKept(i)
  BY <1>0, <1>2 DEF TypeOK, BecomeDue, RowMoves, Claimed, Finished, LeaseGivenUp, ResumesKept, Row
<1>3. ASSUME NEW j \in Job, CancelRun(j) PROVE RowMoves(i) /\ ResumesKept(i)
  BY <1>0, <1>3, RowEffects DEF TypeOK, CancelRun, RowMoves, Claimed, Finished, LeaseGivenUp, ResumesKept
<1>4. ASSUME NEW j \in Job, RetryFailed(j) PROVE RowMoves(i) /\ ResumesKept(i)
  <2> DEFINE r == row[i]
             s == Requeued(r, NoLease, TRUE, TRUE)
  <2>1. row'[i] = IF i = j THEN s ELSE r
    BY <1>4 DEF TypeOK, RetryFailed
  <2>2. \/ s = r
        \/ r.status = "failed" /\ s.status = "queued" /\ s.resumes = r.resumes
    BY <1>0 DEF Requeued, Unlocked, Row
  <2> HIDE DEF s
  <2> QED
    BY <2>1, <2>2 DEF RowMoves, Claimed, Finished, LeaseGivenUp, ResumesKept
<1>5. ASSUME NEW j \in Job, Resend(j) PROVE RowMoves(i) /\ ResumesKept(i)
  BY <1>0, <1>5, RowEffects, RowResults, StatusValues DEF TypeOK, Resend, RowMoves, Claimed, Finished, LeaseGivenUp, ResumesKept, Row
<1>6. ASSUME NEW e \in Exec, ExecutorStep(e), row' # row PROVE RowMoves(i) /\ ResumesKept(i)
  <2>0. ex[e].pc # "idle" => ex[e].job \in Job
    BY DEF Assigned
  <2>1. CASE Claim(e)
    <3>1. /\ i # ex[e].job => row'[i] = row[i]
          /\ row'[i].resumes = row[i].resumes
      BY <2>1, ClaimEffect
    <3> QED
      BY <2>1, <3>1 DEF RowMoves, Claimed, Finished, LeaseGivenUp, ResumesKept
  <2>2. ASSUME NEW status \in {"succeeded", "failed"}, RecordResult(e, status) PROVE RowMoves(i) /\ ResumesKept(i)
    <3>1. MayRecord(e) /\ ~Working(e)'
      BY <2>2 DEF TypeOK, RecordResult, CanWrite, MayRecord, Working, Holding, Recorded
    <3> DEFINE r == row[i]
               s == [Unlocked(r, status) EXCEPT !.run = status]
    <3>2. row'[i] = IF i = ex[e].job THEN s ELSE r
      BY <2>2 DEF TypeOK, RecordResult
    <3>3. \/ s.status = r.status /\ s.lock = r.lock /\ s.resumes = r.resumes
          \/ /\ s.status \in {"succeeded", "failed", "queued"} /\ s.resumes = r.resumes
             /\ s.status = "queued" => r.status \in {"running", "failed"}
      BY <1>0 DEF Unlocked, Row, Status, Open
    <3> HIDE DEF s
    <3> QED
      BY <3>1, <3>2, <3>3 DEF RowMoves, Claimed, Finished, LeaseGivenUp, ResumesKept
  <2>3. ASSUME NEW status \in {"succeeded", "failed"}, RecordGraphResult(e, status) PROVE RowMoves(i) /\ ResumesKept(i)
    <3>1. MayRecord(e) /\ ~Working(e)'
      BY <2>3 DEF TypeOK, RecordGraphResult, CanWrite, MayRecord, Working, Holding, Recorded
    <3> DEFINE r == row[i]
               s == [IF r.status \in Open THEN Unlocked(r, status) ELSE r EXCEPT !.run = status]
    <3>2. row'[i] = IF i = ex[e].job /\ r.run \in Open THEN s ELSE r
      BY <2>3 DEF TypeOK, RecordGraphResult
    <3>3. \/ s.status = r.status /\ s.lock = r.lock /\ s.resumes = r.resumes
          \/ /\ s.status \in {"succeeded", "failed", "queued"} /\ s.resumes = r.resumes
             /\ s.status = "queued" => r.status \in {"running", "failed"}
      BY <1>0 DEF Unlocked, Row, Status, Open
    <3> HIDE DEF s
    <3> QED
      BY <3>1, <3>2, <3>3 DEF RowMoves, Claimed, Finished, LeaseGivenUp, ResumesKept
  <2>4. ASSUME NEW status \in {"succeeded", "failed"}, RecordTranslation(e, status) PROVE RowMoves(i) /\ ResumesKept(i)
    <3>1. MayRecord(e) /\ ~Working(e)'
      BY <2>4 DEF TypeOK, RecordTranslation, CanWrite, MayRecord, Working, Holding, Recorded
    <3> DEFINE r == row[i]
               s == [Unlocked(r, status) EXCEPT
                        !.run = IF r.run = "running" THEN status ELSE r.run]
    <3>2. row'[i] = IF i = ex[e].job THEN s ELSE r
      BY <2>4 DEF TypeOK, RecordTranslation
    <3>3. \/ s.status = r.status /\ s.lock = r.lock /\ s.resumes = r.resumes
          \/ /\ s.status \in {"succeeded", "failed", "queued"} /\ s.resumes = r.resumes
             /\ s.status = "queued" => r.status \in {"running", "failed"}
      BY <1>0 DEF Unlocked, Row, Status, Open
    <3> HIDE DEF s
    <3> QED
      BY <3>1, <3>2, <3>3 DEF RowMoves, Claimed, Finished, LeaseGivenUp, ResumesKept
  <2>5. ASSUME NEW status \in {"succeeded", "failed"}, RecordJobRow(e, status) PROVE RowMoves(i) /\ ResumesKept(i)
    <3>1. MayRecord(e) /\ ~Working(e)'
      BY <2>5 DEF TypeOK, RecordJobRow, CanWrite, MayRecord, Working, Holding
    <3> DEFINE r == row[i]
               s == Unlocked(r, status)
    <3>2. row'[i] = IF i = ex[e].job THEN s ELSE r
      BY <2>5 DEF TypeOK, RecordJobRow
    <3>3. \/ s.status = r.status /\ s.lock = r.lock /\ s.resumes = r.resumes
          \/ /\ s.status \in {"succeeded", "failed", "queued"} /\ s.resumes = r.resumes
             /\ s.status = "queued" => r.status \in {"running", "failed"}
      BY <1>0, <2>5, RowEffects
    <3> HIDE DEF s
    <3> QED
      BY <3>1, <3>2, <3>3 DEF RowMoves, Claimed, Finished, LeaseGivenUp, ResumesKept
  <2>6. CASE RecordRunRow(e)
    BY <1>0, <2>0, <2>6 DEF TypeOK, RecordRunRow, RowMoves, Claimed, Finished, LeaseGivenUp, ResumesKept, Row
  <2>7. CASE FailClaimed(e)
    <3>1. MayRecord(e) /\ ~Working(e)'
      BY <2>7 DEF TypeOK, FailClaimed, CanWrite, MayRecord, Working, Holding, Recorded
    <3> DEFINE r == row[i]
               s == RunTo(IF r.status = "running" /\ r.run # "cancelled"
                          THEN Unlocked(r, "failed") ELSE r, "failed")
    <3>2. row'[i] = IF i = ex[e].job THEN s ELSE r
      BY <2>7 DEF TypeOK, FailClaimed
    <3>3. \/ s.status = r.status /\ s.lock = r.lock /\ s.resumes = r.resumes
          \/ /\ s.status \in {"succeeded", "failed", "queued"} /\ s.resumes = r.resumes
             /\ s.status = "queued" => r.status \in {"running", "failed"}
      BY <1>0 DEF RunTo, Unlocked, Row
    <3> HIDE DEF s
    <3> QED
      BY <3>1, <3>2, <3>3 DEF RowMoves, Claimed, Finished, LeaseGivenUp, ResumesKept
  <2>8. CASE DeferGraph(e)
    <3>1. MayRecord(e) /\ ~Working(e)'
      BY <2>8 DEF TypeOK, DeferGraph, CanWrite, MayRecord, Working, Holding, Recorded
    <3> DEFINE r == row[i]
               q == [Unlocked(r, "queued") EXCEPT !.priority = Background - 1, !.due = FALSE]
               run == IF r.run = "running" THEN "queued" ELSE r.run
    <3>2. q \in Row /\ q.status = "queued" /\ q.resumes = r.resumes
      <4>1. Unlocked(r, "queued") \in Row /\ Background - 1 \in Int
        BY <1>0, RowResults, StatusValues, QueueAssumption
      <4>2. q \in Row
        BY <4>1, RowUpdates
      <4>3. q.status = Unlocked(r, "queued").status /\ q.resumes = Unlocked(r, "queued").resumes
        BY <4>1 DEF Row
      <4> QED
        BY <1>0, <4>2, <4>3, RowEffects
    <3>3. row'[i] = IF i = ex[e].job
                    THEN [IF r.status = "running" THEN q ELSE r EXCEPT !.run = run]
                    ELSE r
      BY <2>8 DEF TypeOK, DeferGraph
    <3> HIDE DEF q
    <3>4. \/ row'[i].status = r.status /\ row'[i].lock = r.lock /\ row'[i].resumes = r.resumes
          \/ /\ ex[e].job = i /\ row'[i].resumes = r.resumes
             /\ r.status = "running" /\ row'[i].status = "queued"
      BY <1>0, <3>2, <3>3, RunEffect
    <3> QED
      BY <3>1, <3>4 DEF RowMoves, Claimed, Finished, LeaseGivenUp, ResumesKept
  <2>9. CASE Yield(e)
    <3>1. MayRecord(e) /\ ~Working(e)'
      BY <2>9 DEF TypeOK, Yield, CanWrite, MayRecord, Working, Holding, Recorded
    <3> DEFINE r == row[i]
               s == Requeued(r, ex[e].lease, FALSE, FALSE)
    <3>2. row'[i] = IF i = ex[e].job THEN s ELSE r
      BY <2>9 DEF TypeOK, Yield
    <3>3. \/ s.status = r.status /\ s.lock = r.lock /\ s.resumes = r.resumes
          \/ /\ s.status \in {"succeeded", "failed", "queued"} /\ s.resumes = r.resumes
             /\ s.status = "queued" => r.status \in {"running", "failed"}
      BY <1>0 DEF Requeued, Unlocked, Row
    <3> HIDE DEF s
    <3> QED
      BY <3>1, <3>2, <3>3 DEF RowMoves, Claimed, Finished, LeaseGivenUp, ResumesKept
  <2>10. CASE ReleaseInterrupted(e)
    <3>1. \/ row'[i] = row[i]
          \/ /\ ex[e].pc \in Holding /\ ex[e].job = i /\ ~Working(e)'
             /\ row'[i].resumes = row[i].resumes
             /\ \/ /\ row[i].status = "running" /\ row[i].lock = ex[e].lease
                   /\ row'[i].status \in {"queued", "failed"}
                \/ row[i].status = "failed" /\ row'[i].status = "queued"
      BY <1>0, <2>10, LeaseSettledEffect DEF TypeOK, ReleaseInterrupted, Settling, Working, Holding
    <3> QED
      BY <3>1 DEF RowMoves, Claimed, Finished, LeaseGivenUp, ResumesKept
  <2>11. CASE Requeue(e)
    <3> DEFINE r == row[i]
               s == Requeued(r, ex[e].lease, ex[e].outcome = "transient", FALSE)
    <3>1. row'[i] = IF i = ex[e].job THEN s ELSE r
      BY <2>11 DEF TypeOK, Requeue
    <3>2. \/ s = r
          \/ /\ r.status = "failed" \/ (r.status = "running" /\ r.lock = ex[e].lease)
             /\ s.status = "queued" /\ s.resumes = r.resumes
      BY <1>0 DEF Requeued, Unlocked, Row
    <3>3. ex[e].pc \in Holding /\ ~Working(e)'
      BY <2>11 DEF TypeOK, Requeue, Working, Holding
    <3> HIDE DEF s
    <3> QED
      BY <3>1, <3>2, <3>3 DEF RowMoves, Claimed, Finished, LeaseGivenUp, ResumesKept
  <2>12. CASE SettleUnfinished(e)
    <3>1. \/ row'[i] = row[i]
          \/ /\ ex[e].pc \in Holding /\ ex[e].job = i /\ ~Working(e)'
             /\ row'[i].resumes = row[i].resumes
             /\ \/ /\ row[i].status = "running" /\ row[i].lock = ex[e].lease
                   /\ row'[i].status \in {"queued", "failed"}
                \/ row[i].status = "failed" /\ row'[i].status = "queued"
      BY <1>0, <2>12, FailedUnderEffect DEF TypeOK, SettleUnfinished, Settling, Working, Holding
    <3> QED
      BY <3>1 DEF RowMoves, Claimed, Finished, LeaseGivenUp, ResumesKept
  <2> QED
    BY <1>6, <2>1, <2>2, <2>3, <2>4, <2>5, <2>6, <2>7, <2>8, <2>9, <2>10, <2>11, <2>12,
       ExecutorRowChanges
<1>7. ASSUME Sweep PROVE RowMoves(i) /\ ResumesKept(i)
  BY <1>0, <1>7, LeaseSettledEffect DEF Sweep, RowMoves, Claimed, Finished, LeaseGivenUp, ResumesKept
<1>8. ASSUME NEW seen \in SUBSET Job, NEW old \in SUBSET Job, Recover(seen, old) PROVE RowMoves(i) /\ ResumesKept(i)
  BY <1>0, <1>8, LeaseSettledEffect, RowEffects DEF Recover, RowMoves, Claimed, Finished, LeaseGivenUp, ResumesKept
<1>9. ASSUME Start PROVE RowMoves(i) /\ ResumesKept(i)
  BY <1>0, <1>9, LeaseSettledEffect, RowEffects DEF Start, RowMoves, Claimed, Finished, LeaseGivenUp, ResumesKept
<1>10. ASSUME row' = row PROVE RowMoves(i) /\ ResumesKept(i)
  BY <1>10 DEF RowMoves, Claimed, Finished, LeaseGivenUp, ResumesKept
<1> QED
  BY <1>1, <1>2, <1>3, <1>4, <1>5, <1>6, <1>7, <1>8, <1>9, <1>10, RowChanges

-----------------------------------------------------------------------------
(* Who works.                                                              *)

\* Every executor past the offer holds a lease of its own, which the registry
\* knows.
LeasesHeld ==
    /\ \A e \in Exec : ex[e].pc \in Holding => registry[ex[e].lease] # NoOne
    /\ \A e, f \in Exec :
          /\ ex[e].pc \in Holding /\ ex[f].pc \in Holding
          /\ ex[e].lease = ex[f].lease
          => e = f

\* An executor works after a step because it worked before, at the same job
\* under the same lease, or because the step is its claim.  The same goes for an
\* executor that may still record a result.
LEMMA WorkStep ==
    ASSUME TypeOK, Assigned, [Next]_vars, NEW e \in Exec, Working(e)'
    PROVE  /\ Working(e) \/ Claim(e)
           /\ ex[e].pc \in Holding
           /\ ex'[e].job = ex[e].job /\ ex'[e].lease = ex[e].lease
           /\ MayRecord(e)' => MayRecord(e) \/ Claim(e)
<1> DEFINE Same == /\ Working(e) \/ Claim(e)
                   /\ ex[e].pc \in Holding
                   /\ ex'[e].job = ex[e].job /\ ex'[e].lease = ex[e].lease
                   /\ MayRecord(e)' => MayRecord(e) \/ Claim(e)
<1>1. ASSUME NEW j \in Job, Submit(j) PROVE Same
  BY <1>1, QueueAssumption DEF TypeOK, MayRecord, Working, Holding, Idle, Submit
<1>2. ASSUME NEW j \in Job, SignalCancel(j) PROVE Same
  BY <1>2, QueueAssumption DEF TypeOK, MayRecord, Working, Holding, Idle, SignalCancel
<1>3. ASSUME NEW j \in Job, NEW l \in Lease, Pick(l, j) PROVE Same
  BY <1>3, QueueAssumption DEF TypeOK, MayRecord, Working, Holding, Idle, Pick, Fresh
<1>4. ASSUME NEW f \in Inline, NEW l \in Lease, PickInline(l, f) PROVE Same
  BY <1>4, QueueAssumption DEF TypeOK, MayRecord, Working, Holding, Idle, PickInline, Fresh
<1>5. ASSUME NEW f \in Inline, LeaveQueued(f) PROVE Same
  BY <1>5, QueueAssumption DEF TypeOK, MayRecord, Working, Holding, Idle, LeaveQueued
<1>6. ASSUME NEW f \in Inline, ClientGone(f) PROVE Same
  BY <1>6, QueueAssumption DEF TypeOK, MayRecord, Working, Holding, Idle, ClientGone
<1>7. ASSUME NEW f \in Exec, ExecutorStep(f) PROVE Same
  <2>1. CASE Claim(f)
    <3>1. /\ ex[f].pc = "picked" /\ ex'[f].job = ex[f].job /\ ex'[f].lease = ex[f].lease
          /\ \A d \in Exec \ {f} : ex'[d] = ex[d]
      BY <2>1 DEF TypeOK, Claim
    <3>2. CASE e = f
      BY <2>1, <3>1, <3>2 DEF Holding
    <3>3. CASE e # f
      BY <3>1, <3>3 DEF MayRecord, Working
    <3> QED
      BY <3>2, <3>3
  <2>2. CASE ClaimMissed(f)
    BY <2>2, QueueAssumption DEF TypeOK, MayRecord, Working, Holding, Idle, Recorded, CanWrite, Settling, ClaimMissed
  <2>3. CASE Activate(f)
    BY <2>3, QueueAssumption DEF TypeOK, MayRecord, Working, Holding, Idle, Recorded, CanWrite, Settling, Activate
  <2>4. CASE RecordRunRow(f)
    BY <2>4, QueueAssumption DEF TypeOK, MayRecord, Working, Holding, Idle, Recorded, CanWrite, Settling, RecordRunRow
  <2>5. CASE FailClaimed(f)
    BY <2>5, QueueAssumption DEF TypeOK, MayRecord, Working, Holding, Idle, Recorded, CanWrite, Settling, FailClaimed
  <2>6. CASE DeferGraph(f)
    BY <2>6, QueueAssumption DEF TypeOK, MayRecord, Working, Holding, Idle, Recorded, CanWrite, Settling, DeferGraph
  <2>7. CASE Yield(f)
    BY <2>7, QueueAssumption DEF TypeOK, MayRecord, Working, Holding, Idle, Recorded, CanWrite, Settling, Yield
  <2>8. CASE ReleaseInterrupted(f)
    BY <2>8, ReleaseInterruptedLocal DEF MayRecord, Working, Holding
  <2>9. CASE HandleResult(f)
    BY <2>9, QueueAssumption DEF TypeOK, MayRecord, Working, Holding, Idle, Recorded, CanWrite, Settling, HandleResult
  <2>10. CASE Requeue(f)
    BY <2>10, QueueAssumption DEF TypeOK, MayRecord, Working, Holding, Idle, Recorded, CanWrite, Settling, Requeue
  <2>11. CASE SettleUnfinished(f)
    BY <2>11, QueueAssumption DEF TypeOK, MayRecord, Working, Holding, Idle, Recorded, CanWrite, Settling, SettleUnfinished
  <2>12. CASE WriteLost(f)
    <3>1. /\ ex[f].pc \in {"returned", "handling", "settling"}
          /\ \E pc \in {"handling", "settling", "leaving"} : ex' = [ex EXCEPT ![f].pc = pc]
      BY <2>12 DEF WriteLost, Settling
    <3> QED
      BY <3>1 DEF TypeOK, MayRecord, Working, Holding
  <2>13. CASE Leave(f)
    BY <2>13, QueueAssumption DEF TypeOK, MayRecord, Working, Holding, Idle, Recorded, CanWrite, Settling, Leave
  <2>14. ASSUME NEW status, RecordResult(f, status) PROVE Same
    BY <2>14 DEF TypeOK, MayRecord, Working, Holding, Idle, Recorded, CanWrite, RecordResult
  <2>15. ASSUME NEW status, RecordGraphResult(f, status) PROVE Same
    BY <2>15 DEF TypeOK, MayRecord, Working, Holding, Idle, Recorded, CanWrite, RecordGraphResult
  <2>16. ASSUME NEW status, RecordTranslation(f, status) PROVE Same
    BY <2>16 DEF TypeOK, MayRecord, Working, Holding, Idle, Recorded, CanWrite, RecordTranslation
  <2>17. ASSUME NEW status, RecordJobRow(f, status) PROVE Same
    BY <2>17 DEF TypeOK, MayRecord, Working, Holding, Idle, Recorded, CanWrite, RecordJobRow
  <2>18. ASSUME NEW outcome, Return(f, outcome) PROVE Same
    BY <2>18 DEF TypeOK, MayRecord, Working, Holding, Idle, Return
  <2> QED
    BY <1>7, <2>1, <2>2, <2>3, <2>4, <2>5, <2>6, <2>7, <2>8, <2>9, <2>10, <2>11, <2>12, <2>13, <2>14, <2>15, <2>16, <2>17, <2>18 DEF ExecutorStep
<1>8. ASSUME EnterLibrary PROVE Same
  BY <1>8, QueueAssumption DEF TypeOK, MayRecord, Working, Holding, Idle, EnterLibrary
<1>9. ASSUME GiveUpLibrary PROVE Same
  BY <1>9, QueueAssumption DEF TypeOK, MayRecord, Working, Holding, Idle, GiveUpLibrary
<1>10. ASSUME Stop PROVE Same
  BY <1>10, QueueAssumption DEF TypeOK, MayRecord, Working, Holding, Idle, Stop
<1>11. ASSUME CutRequests PROVE Same
  BY <1>11, QueueAssumption DEF TypeOK, MayRecord, Working, Holding, Idle, CutRequests
<1>12. ASSUME Exit \/ Crash PROVE Same
  BY <1>12, QueueAssumption DEF TypeOK, MayRecord, Working, Holding, Idle, Exit, Crash, ProcessEnds
<1>13. ASSUME UNCHANGED <<ex, registry>> PROVE Same
  BY <1>13 DEF TypeOK, MayRecord, Working, Holding, Idle
<1> QED
  BY <1>1, <1>2, <1>3, <1>4, <1>5, <1>6, <1>7, <1>8, <1>9, <1>10, <1>11, <1>12, <1>13,
     LocalChanges

\* Leases stay apart and registered.
LEMMA LeasesStep ==
    ASSUME TypeOK, Assigned, LeasesHeld, [Next]_vars
    PROVE  LeasesHeld'
<1>1. ASSUME NEW j \in Job, Submit(j) PROVE LeasesHeld'
  BY <1>1, QueueAssumption DEF TypeOK, Assigned, LeasesHeld, Holding, Idle, Exec, Submit
<1>2. ASSUME NEW j \in Job, SignalCancel(j) PROVE LeasesHeld'
  BY <1>2, QueueAssumption DEF TypeOK, Assigned, LeasesHeld, Holding, Idle, Exec, SignalCancel
<1>3. ASSUME NEW j \in Job, NEW l \in Lease, Pick(l, j) PROVE LeasesHeld'
  BY <1>3, QueueAssumption DEF TypeOK, Assigned, LeasesHeld, Holding, Idle, Exec, Pick, Fresh
<1>4. ASSUME NEW f \in Inline, NEW l \in Lease, PickInline(l, f) PROVE LeasesHeld'
  BY <1>4, QueueAssumption DEF TypeOK, Assigned, LeasesHeld, Holding, Idle, Exec, PickInline, Fresh
<1>5. ASSUME NEW f \in Inline, LeaveQueued(f) PROVE LeasesHeld'
  BY <1>5, QueueAssumption DEF TypeOK, Assigned, LeasesHeld, Holding, Idle, Exec, LeaveQueued
<1>6. ASSUME NEW f \in Inline, ClientGone(f) PROVE LeasesHeld'
  BY <1>6, QueueAssumption DEF TypeOK, Assigned, LeasesHeld, Holding, Idle, Exec, ClientGone
<1>7. ASSUME NEW f \in Exec, ExecutorStep(f) PROVE LeasesHeld'
  <2>1. CASE Claim(f)
    BY <2>1, QueueAssumption DEF TypeOK, Assigned, LeasesHeld, Holding, Idle, Exec, Recorded, CanWrite, Settling, Claim
  <2>2. CASE ClaimMissed(f)
    BY <2>2, QueueAssumption DEF TypeOK, Assigned, LeasesHeld, Holding, Idle, Exec, Recorded, CanWrite, Settling, ClaimMissed
  <2>3. CASE Activate(f)
    BY <2>3, QueueAssumption DEF TypeOK, Assigned, LeasesHeld, Holding, Idle, Exec, Recorded, CanWrite, Settling, Activate
  <2>4. CASE RecordRunRow(f)
    BY <2>4, QueueAssumption DEF TypeOK, Assigned, LeasesHeld, Holding, Idle, Exec, Recorded, CanWrite, Settling, RecordRunRow
  <2>5. CASE FailClaimed(f)
    BY <2>5, QueueAssumption DEF TypeOK, Assigned, LeasesHeld, Holding, Idle, Exec, Recorded, CanWrite, Settling, FailClaimed
  <2>6. CASE DeferGraph(f)
    BY <2>6, QueueAssumption DEF TypeOK, Assigned, LeasesHeld, Holding, Idle, Exec, Recorded, CanWrite, Settling, DeferGraph
  <2>7. CASE Yield(f)
    BY <2>7, QueueAssumption DEF TypeOK, Assigned, LeasesHeld, Holding, Idle, Exec, Recorded, CanWrite, Settling, Yield
  <2>8. CASE ReleaseInterrupted(f)
    <3>1. /\ ex[f].pc \in Holding /\ registry' = registry
          /\ \A e \in Exec : ex'[e].lease = ex[e].lease /\ (e # f => ex'[e] = ex[e])
      BY <2>8, ReleaseInterruptedLocal DEF Holding
    <3> QED
      BY <3>1 DEF LeasesHeld
  <2>9. CASE HandleResult(f)
    BY <2>9, QueueAssumption DEF TypeOK, Assigned, LeasesHeld, Holding, Idle, Exec, Recorded, CanWrite, Settling, HandleResult
  <2>10. CASE Requeue(f)
    BY <2>10, QueueAssumption DEF TypeOK, Assigned, LeasesHeld, Holding, Idle, Exec, Recorded, CanWrite, Settling, Requeue
  <2>11. CASE SettleUnfinished(f)
    BY <2>11, QueueAssumption DEF TypeOK, Assigned, LeasesHeld, Holding, Idle, Exec, Recorded, CanWrite, Settling, SettleUnfinished
  <2>12. CASE WriteLost(f)
    <3>1. /\ ex[f].pc \in Holding
          /\ \E pc \in Holding : ex' = [ex EXCEPT ![f].pc = pc]
          /\ registry' = registry
      BY <2>12 DEF WriteLost, Settling, Holding
    <3> QED
      BY <3>1 DEF TypeOK, LeasesHeld
  <2>13. CASE Leave(f)
    BY <2>13, QueueAssumption DEF TypeOK, Assigned, LeasesHeld, Holding, Idle, Exec, Recorded, CanWrite, Settling, Leave
  <2>14. ASSUME NEW status, RecordResult(f, status) PROVE LeasesHeld'
    BY <2>14 DEF TypeOK, Assigned, LeasesHeld, Holding, Idle, Exec, Recorded, CanWrite, RecordResult
  <2>15. ASSUME NEW status, RecordGraphResult(f, status) PROVE LeasesHeld'
    BY <2>15 DEF TypeOK, Assigned, LeasesHeld, Holding, Idle, Exec, Recorded, CanWrite, RecordGraphResult
  <2>16. ASSUME NEW status, RecordTranslation(f, status) PROVE LeasesHeld'
    BY <2>16 DEF TypeOK, Assigned, LeasesHeld, Holding, Idle, Exec, Recorded, CanWrite, RecordTranslation
  <2>17. ASSUME NEW status, RecordJobRow(f, status) PROVE LeasesHeld'
    BY <2>17 DEF TypeOK, Assigned, LeasesHeld, Holding, Idle, Exec, Recorded, CanWrite, RecordJobRow
  <2>18. ASSUME NEW outcome, Return(f, outcome) PROVE LeasesHeld'
    BY <2>18 DEF TypeOK, Assigned, LeasesHeld, Holding, Idle, Exec, Return
  <2> QED
    BY <1>7, <2>1, <2>2, <2>3, <2>4, <2>5, <2>6, <2>7, <2>8, <2>9, <2>10, <2>11, <2>12, <2>13, <2>14, <2>15, <2>16, <2>17, <2>18 DEF ExecutorStep
<1>8. ASSUME EnterLibrary PROVE LeasesHeld'
  BY <1>8, QueueAssumption DEF TypeOK, Assigned, LeasesHeld, Holding, Idle, Exec, EnterLibrary
<1>9. ASSUME GiveUpLibrary PROVE LeasesHeld'
  BY <1>9, QueueAssumption DEF TypeOK, Assigned, LeasesHeld, Holding, Idle, Exec, GiveUpLibrary
<1>10. ASSUME Stop PROVE LeasesHeld'
  BY <1>10, QueueAssumption DEF TypeOK, Assigned, LeasesHeld, Holding, Idle, Exec, Stop
<1>11. ASSUME CutRequests PROVE LeasesHeld'
  BY <1>11, QueueAssumption DEF TypeOK, Assigned, LeasesHeld, Holding, Idle, Exec, CutRequests
<1>12. ASSUME Exit \/ Crash PROVE LeasesHeld'
  BY <1>12, QueueAssumption DEF TypeOK, Assigned, LeasesHeld, Holding, Idle, Exec, Exit, Crash, ProcessEnds
<1>13. ASSUME UNCHANGED <<ex, registry>> PROVE LeasesHeld'
  BY <1>13 DEF TypeOK, Assigned, LeasesHeld, Holding, Idle, Exec
<1> QED
  BY <1>1, <1>2, <1>3, <1>4, <1>5, <1>6, <1>7, <1>8, <1>9, <1>10, <1>11, <1>12, <1>13,
     LocalChanges

-----------------------------------------------------------------------------
(* The inductive invariant, and what follows from it.                      *)

RunningHasLease ==
    \A j \in Job : row[j].status = "running" => row[j].lock \in Lease

IInv ==
    /\ TypeOK
    /\ Assigned
    /\ LeasesHeld
    /\ RunningHasLease
    /\ OneRunningRow
    /\ ExecutorKeepsItsJob
    /\ JobHasOneExecutor

\* A claim takes a job no executor works at.
LEMMA ClaimedByNobodyElse ==
    ASSUME IInv, NEW e \in Exec, Claim(e), NEW f \in Exec, Working(f)
    PROVE  ex[f].job # ex[e].job
<1> SUFFICES ASSUME ex[f].job = ex[e].job PROVE FALSE
  OBVIOUS
<1>1. row[ex[f].job].status = "queued" /\ ex[e].pc = "picked"
  BY DEF Claim, Claimable
<1>2. ex[f].job \in Translation
  BY <1>1 DEF IInv, ExecutorKeepsItsJob
<1>3. e \notin Inline /\ f \notin Inline
  BY <1>1, <1>2, QueueAssumption DEF IInv, Assigned, Working, Holding
<1> QED
  BY <1>1, <1>3 DEF Exec, Working

LEMMA KeepsStep ==
    ASSUME IInv, LeasesHeld', Assigned', [Next]_vars
    PROVE  ExecutorKeepsItsJob'
<1> SUFFICES ASSUME NEW e \in Exec, Working(e)'
             PROVE  LET r == row'[ex'[e].job] IN
                    /\ registry'[ex'[e].lease] # NoOne
                    /\ \/ r.status = "running" /\ r.lock = ex'[e].lease
                       \/ r.status = "cancelled"
                       \/ r.status = "queued" /\ ex'[e].job \in Translation
  BY DEF ExecutorKeepsItsJob
<1> DEFINE j == ex[e].job
<1>1. /\ Working(e) \/ Claim(e)
      /\ ex[e].pc \in Holding
      /\ ex'[e].job = j /\ ex'[e].lease = ex[e].lease
  BY WorkStep DEF IInv
<1>2. registry'[ex'[e].lease] # NoOne
  BY DEF LeasesHeld, Working
<1>3. j \in Job /\ ex[e].lease \in Lease
  BY <1>1 DEF IInv, Assigned, Holding
<1>4. CASE Claim(e)
  <2>1. row'[j].status = "running" /\ row'[j].lock = ex[e].lease
    BY <1>4, ClaimEffect DEF IInv
  <2> QED
    BY <1>1, <1>2, <2>1
<1>5. CASE Working(e)
  <2>1. \/ row[j].status = "running" /\ row[j].lock = ex[e].lease
        \/ row[j].status = "cancelled"
        \/ row[j].status = "queued" /\ j \in Translation
    BY <1>5 DEF IInv, ExecutorKeepsItsJob
  <2>2. RowMoves(j)
    BY <1>3, RowStep DEF IInv
  <2>3. ~Claimed(j)
    BY <1>5, ClaimedByNobodyElse DEF Claimed
  <2>4. ~Finished(j)
    <3>1. \A f \in Exec : Working(f) /\ ex[f].job = j => f = e
      BY <1>5 DEF IInv, JobHasOneExecutor
    <3> QED
      BY <3>1 DEF Finished, MayRecord
  <2>5. ~LeaseGivenUp(j)
    BY <1>1, <2>1 DEF IInv, LeasesHeld, LeaseGivenUp
  <2>6. ~Orphaned(j)
    BY <1>1, <1>3, <2>1, QueueAssumption DEF IInv, LeasesHeld, Orphaned
  <2> QED
    BY <1>1, <1>2, <2>1, <2>2, <2>3, <2>4, <2>5, <2>6 DEF RowMoves, Open
<1> QED
  BY <1>1, <1>4, <1>5

LEMMA OneExecutorStep ==
    ASSUME IInv, [Next]_vars
    PROVE  JobHasOneExecutor'
<1> SUFFICES ASSUME NEW e \in Exec, NEW f \in Exec, Working(e)', Working(f)',
                    ex'[e].job = ex'[f].job
             PROVE  e = f
  BY DEF JobHasOneExecutor
<1>1. /\ Working(e) \/ Claim(e)
      /\ Working(f) \/ Claim(f)
      /\ ex[e].job = ex[f].job
  BY WorkStep DEF IInv
<1>2. CASE Working(e) /\ Working(f)
  BY <1>1, <1>2 DEF IInv, JobHasOneExecutor
<1>3. ~(Working(e) /\ Claim(f)) /\ ~(Working(f) /\ Claim(e))
  BY <1>1, ClaimedByNobodyElse
<1>4. CASE Claim(e) /\ Claim(f)
  <2>1. SUFFICES ASSUME e # f PROVE FALSE
    OBVIOUS
  <2>2. ex'[f].pc = ex[f].pc
    BY <1>4, <2>1, ClaimEffect DEF IInv
  <2> QED
    BY <1>4, <2>2, ClaimEffect DEF IInv, Working
<1> QED
  BY <1>1, <1>2, <1>3, <1>4

LEMMA RunningStep ==
    ASSUME IInv, [Next]_vars
    PROVE  RunningHasLease' /\ OneRunningRow'
<1>1. ASSUME NEW j \in Job, row'[j].status = "running"
      PROVE  \/ row[j].status = "running" /\ row'[j].lock = row[j].lock
             \/ \E e \in Exec : Claim(e) /\ ex[e].job = j
  <2>1. RowMoves(j)
    BY RowStep DEF IInv
  <2> QED
    BY <1>1, <2>1 DEF RowMoves, Claimed, Finished, LeaseGivenUp
<1>2. ASSUME NEW e \in Exec, Claim(e)
      PROVE  /\ ex[e].job \in Job /\ ex[e].lease \in Lease
             /\ row'[ex[e].job].lock = ex[e].lease
             /\ \A j \in Job \ {ex[e].job} : row'[j].status # "running"
  <2>1. ex[e].job \in Job /\ ex[e].lease \in Lease
    BY <1>2, ClaimEffect DEF IInv
  <2> QED
    BY <1>2, <2>1 DEF IInv, TypeOK, Row, Claim, NoneRunning
<1>3. RunningHasLease'
  BY <1>1, <1>2 DEF IInv, RunningHasLease
<1>4. OneRunningRow'
  <2> SUFFICES ASSUME NEW i \in Job, NEW j \in Job,
                      row'[i].status = "running", row'[j].status = "running"
               PROVE  i = j
    BY DEF OneRunningRow
  <2>1. CASE \E e \in Exec : Claim(e) /\ (ex[e].job = i \/ ex[e].job = j)
    BY <1>2, <2>1
  <2>2. CASE row[i].status = "running" /\ row[j].status = "running"
    BY <2>2 DEF IInv, OneRunningRow
  <2> QED
    BY <1>1, <2>1, <2>2
<1> QED
  BY <1>3, <1>4

LEMMA Inductive == Spec => []IInv
<1>1. Init => IInv
  <2> SUFFICES ASSUME Init PROVE IInv
    OBVIOUS
  <2>1. TypeOK /\ Assigned
    BY QueueAssumption DEF Init, TypeOK, Assigned, Row, Local, Idle, PC, Context, Outcome, Exec, Status, Open, Holding
  <2>2. \A e \in Exec : ex[e].pc \notin Holding
    BY DEF Init, Idle, Holding
  <2>3. \A j \in Job : row[j].status # "running"
    BY DEF Init
  <2> QED
    BY <2>1, <2>2, <2>3 DEF IInv, LeasesHeld, RunningHasLease, OneRunningRow,
       ExecutorKeepsItsJob, JobHasOneExecutor, Working
<1>2. IInv /\ [Next]_vars => IInv'
  <2> SUFFICES ASSUME IInv, [Next]_vars PROVE IInv'
    OBVIOUS
  <2>1. TypeOK' /\ Assigned'
    BY TypeStep, AssignedStep DEF IInv
  <2>2. LeasesHeld'
    BY LeasesStep DEF IInv
  <2> QED
    BY <2>1, <2>2, KeepsStep, OneExecutorStep, RunningStep DEF IInv
<1> QED
  BY <1>1, <1>2, PTL DEF Spec

\* At most one row is running, whoever claims, requeues, sweeps or cancels.
THEOREM OneRunning == Spec => []OneRunningRow
BY Inductive, PTL DEF IInv

\* Nothing takes a job from the executor that works at it: neither the sweep,
\* nor a retry, nor the repair a user asks for.
THEOREM KeepsItsJob == Spec => []ExecutorKeepsItsJob
BY Inductive, PTL DEF IInv

\* Two executors never work at one job.
THEOREM OneExecutorPerJob == Spec => []JobHasOneExecutor
BY Inductive, PTL DEF IInv

\* A success is final, and so is a cancellation that no executor may still answer
\* with its result; one that may does so once.
THEOREM Settled == Spec => SettledStaysSettled
<1> DEFINE Stays(j) ==
       /\ row[j].status = "succeeded" => row'[j].status = "succeeded"
       /\ row[j].status = "cancelled" =>
             \/ row'[j].status = "cancelled" /\ (NoResultDue(j) => NoResultDue(j)')
             \/ /\ row'[j].status \in {"succeeded", "failed"}
                /\ ~NoResultDue(j) /\ NoResultDue(j)'
<1>1. ASSUME IInv, [Next]_vars, NEW j \in Job \ Translation
      PROVE  Stays(j)
  <2>1. RowMoves(j)
    BY <1>1, RowStep DEF IInv
  <2>2. ASSUME NEW e \in Exec, Working(e), ex[e].job = j
        PROVE  row[j].status \in {"running", "cancelled"}
    BY <1>1, <2>2 DEF IInv, ExecutorKeepsItsJob
  <2>3. ASSUME NEW e \in Exec, Claim(e), ex[e].job = j
        PROVE  row[j].status = "queued"
    BY <2>3 DEF Claim, Claimable
  <2>4. row[j].status = "succeeded" => row'[j].status = "succeeded"
    BY <1>1, <2>1, <2>2, <2>3 DEF RowMoves, Claimed, Finished, LeaseGivenUp, Orphaned, Open, MayRecord
  <2>5. ASSUME row[j].status = "cancelled", NEW e \in Exec, ex'[e].job = j, MayRecord(e)'
        PROVE  MayRecord(e) /\ ex[e].job = j
    <3>1. Working(e)'
      BY <2>5 DEF MayRecord
    <3>2. ex'[e].job = ex[e].job /\ (MayRecord(e) \/ Claim(e))
      BY <1>1, <2>5, <3>1, WorkStep DEF IInv
    <3> QED
      BY <2>3, <2>5, <3>2
  <2>6. ASSUME row[j].status = "cancelled", row'[j].status # "cancelled"
        PROVE  /\ row'[j].status \in {"succeeded", "failed"}
               /\ ~NoResultDue(j) /\ NoResultDue(j)'
    <3>1. Finished(j)
      BY <1>1, <2>1, <2>3, <2>6 DEF RowMoves, Claimed, LeaseGivenUp, Orphaned, Open
    <3>2. PICK e \in Exec : /\ MayRecord(e) /\ ex[e].job = j /\ ~Working(e)'
                            /\ row'[j].status \in {"succeeded", "failed", "queued"}
                            /\ row'[j].status = "queued" => row[j].status = "running"
      BY <3>1 DEF Finished
    <3>3. ASSUME NEW f \in Exec, ex'[f].job = j, MayRecord(f)'
          PROVE  FALSE
      <4>1. MayRecord(f) /\ ex[f].job = j
        BY <2>5, <2>6, <3>3
      <4>2. f = e
        BY <1>1, <3>2, <4>1 DEF IInv, JobHasOneExecutor, MayRecord
      <4> QED
        BY <3>2, <3>3, <4>2 DEF MayRecord
    <3> QED
      BY <2>6, <3>2, <3>3 DEF NoResultDue
  <2>7. ASSUME row[j].status = "cancelled", NoResultDue(j)
        PROVE  NoResultDue(j)'
    BY <2>5, <2>7 DEF NoResultDue
  <2> QED
    BY <2>4, <2>6, <2>7
<1>2. IInv /\ [Next]_vars => [\A j \in Job \ Translation : Stays(j)]_vars
  BY <1>1
<1> QED
  BY <1>2, Inductive, PTL DEF Spec, SettledStaysSettled

\* Resumes are spent only on a row whose executor is gone, within the limit.
THEOREM ResumesSpent == Spec => ResumesSpentOnOrphans
<1>1. ASSUME IInv, [Next]_vars, NEW j \in Job, row'[j].resumes # row[j].resumes
      PROVE  /\ \A e \in Exec : ex[e].lease # row[j].lock
             /\ row'[j].resumes <= MaxRetries
  <2>1. Orphaned(j) /\ row'[j].resumes <= MaxRetries
    BY <1>1, RowStep DEF IInv, ResumesKept
  <2>2. row[j].lock \in Lease /\ registry[row[j].lock] = NoOne
    BY <1>1, <2>1, QueueAssumption DEF IInv, RunningHasLease, Orphaned
  <2> QED
    BY <1>1, <2>1, <2>2 DEF IInv, Assigned, LeasesHeld
<1>2. IInv /\ [Next]_vars =>
        [\A j \in Job : row'[j].resumes # row[j].resumes =>
            /\ \A e \in Exec : ex[e].lease # row[j].lock
            /\ row'[j].resumes <= MaxRetries]_vars
  BY <1>1
<1> QED
  BY <1>2, Inductive, PTL DEF Spec, ResumesSpentOnOrphans

-----------------------------------------------------------------------------
(* A job and its run have the same status.  The unconditional statements   *)
(* agree by themselves.  The guarded ones agree because their guards on    *)
(* the job and on the run fall together as long as both agree;             *)
(* failClaimedWorkflowJob, which fails a queued run beside a job it leaves *)
(* queued, needs that no executor at work finds its job in the queue       *)
(* (ExecutorKeepsItsJob).                                                  *)

Agrees(r) == r.status = r.run

\* Only a result that is written row by row can be half recorded.
HalfIsSplit == \A e \in Exec : ex[e].recorded = "half" => ex[e].job \in Split

-----------------------------------------------------------------------------
(* What each statement of the queue makes of a row that agrees.            *)

LEMMA StatementsAgree ==
    ASSUME NEW r \in Row, Agrees(r)
    PROVE  /\ \A lease, counted, due : Agrees(Requeued(r, lease, counted, due))
           /\ \A lease : Agrees(FailedUnder(r, lease))
           /\ Agrees(IdleRunRepaired(r))
<1>1. \A lease, counted, due : Agrees(Requeued(r, lease, counted, due))
  BY DEF Agrees, Requeued, Unlocked, Row
<1>2. \A lease : Agrees(FailedUnder(r, lease))
  BY DEF Agrees, FailedUnder, RunTo, Unlocked, Row, Open
<1>3. Agrees(IdleRunRepaired(r))
  BY DEF Agrees, IdleRunRepaired, Row, Open
<1> QED
  BY <1>1, <1>2, <1>3

LEMMA SettledLeaseAgrees ==
    ASSUME TypeOK, NEW j \in Job, NEW spent, Agrees(row[j]), row[j].status = "running"
    PROVE  Agrees(LeaseSettled(j, spent))
<1>1. row[j] \in Row
  BY DEF TypeOK
<1> QED
  BY <1>1 DEF Agrees, LeaseSettled, RunTo, Unlocked, Row, Open

-----------------------------------------------------------------------------
(* Half-recorded results.                                                  *)

\* A step keeps HalfIsSplit that leaves every executor's job and record alone,
\* but for those that start afresh or complete their record.
LEMMA NoNewHalf ==
    ASSUME HalfIsSplit,
           \A e \in Exec : \/ ex'[e].recorded # "half"
                           \/ ex'[e].recorded = ex[e].recorded /\ ex'[e].job = ex[e].job
    PROVE  HalfIsSplit'
BY DEF HalfIsSplit

LEMMA HalfStep ==
    ASSUME TypeOK, HalfIsSplit, [Next]_vars
    PROVE  HalfIsSplit'
<1> DEFINE Kept == \A e \in Exec : \/ ex'[e].recorded # "half"
                                   \/ ex'[e].recorded = ex[e].recorded /\ ex'[e].job = ex[e].job
<1>0. ex \in [Exec -> Local] /\ Idle.recorded = "no"
  BY DEF TypeOK, Idle
<1>1. ASSUME NEW j \in Job, Submit(j) PROVE Kept
  BY <1>1, <1>0 DEF Submit, Idle
<1>2. ASSUME NEW j \in Job, SignalCancel(j) PROVE Kept
  BY <1>2, <1>0 DEF SignalCancel
<1>3. ASSUME NEW j \in Job, NEW l \in Lease, Pick(l, j) PROVE Kept
  BY <1>3, <1>0 DEF Pick, Idle
<1>4. ASSUME NEW f \in Inline, NEW l \in Lease, PickInline(l, f) PROVE Kept
  BY <1>4, <1>0 DEF PickInline
<1>5. ASSUME NEW f \in Inline, LeaveQueued(f) PROVE Kept
  BY <1>5, <1>0 DEF LeaveQueued, Idle
<1>6. ASSUME NEW f \in Inline, ClientGone(f) PROVE Kept
  BY <1>6, <1>0 DEF ClientGone
<1>7. ASSUME EnterLibrary PROVE Kept
  BY <1>7, <1>0 DEF EnterLibrary
<1>8. ASSUME GiveUpLibrary PROVE Kept
  BY <1>8, <1>0 DEF GiveUpLibrary
<1>9. ASSUME Stop PROVE Kept
  BY <1>9, <1>0 DEF Stop
<1>10. ASSUME CutRequests PROVE Kept
  BY <1>10, <1>0 DEF CutRequests
<1>11. ASSUME Exit \/ Crash PROVE Kept
  BY <1>11, <1>0 DEF Exit, Crash, ProcessEnds
<1>12. ASSUME NEW f \in Exec, ExecutorStep(f) PROVE HalfIsSplit'
  <2>1. ASSUME Claim(f) PROVE Kept
    BY <2>1, <1>0 DEF Claim
  <2>2. ASSUME ClaimMissed(f) PROVE Kept
    BY <2>2, <1>0 DEF ClaimMissed, Idle
  <2>3. ASSUME Activate(f) PROVE Kept
    BY <2>3, <1>0 DEF Activate
  <2>4. ASSUME RecordRunRow(f) PROVE Kept
    BY <2>4, <1>0 DEF RecordRunRow, Recorded
  <2>5. ASSUME FailClaimed(f) PROVE Kept
    BY <2>5, <1>0 DEF FailClaimed, Recorded
  <2>6. ASSUME DeferGraph(f) PROVE Kept
    BY <2>6, <1>0 DEF DeferGraph, Recorded
  <2>7. ASSUME Yield(f) PROVE Kept
    BY <2>7, <1>0 DEF Yield, Recorded
  <2>8. ASSUME ReleaseInterrupted(f) PROVE Kept
    BY <2>8, <1>0 DEF ReleaseInterrupted
  <2>9. ASSUME HandleResult(f) PROVE Kept
    BY <2>9, <1>0 DEF HandleResult
  <2>10. ASSUME Requeue(f) PROVE Kept
    BY <2>10, <1>0 DEF Requeue
  <2>11. ASSUME SettleUnfinished(f) PROVE Kept
    BY <2>11, <1>0 DEF SettleUnfinished
  <2>12. ASSUME Leave(f) PROVE Kept
    BY <2>12, <1>0 DEF Leave, Idle
  <2>13. ASSUME WriteLost(f) PROVE Kept
    <3>1. \E pc \in PC : ex' = [ex EXCEPT ![f].pc = pc]
      BY <2>13 DEF WriteLost, PC
    <3> QED
      BY <3>1, <1>0
  <2>14. ASSUME NEW status, RecordResult(f, status) PROVE Kept
    BY <2>14, <1>0 DEF RecordResult, Recorded
  <2>15. ASSUME NEW status, RecordGraphResult(f, status) PROVE Kept
    BY <2>15, <1>0 DEF RecordGraphResult, Recorded
  <2>16. ASSUME NEW status, RecordTranslation(f, status) PROVE Kept
    BY <2>16, <1>0 DEF RecordTranslation, Recorded
  <2>17. ASSUME NEW outcome, Return(f, outcome) PROVE Kept
    BY <2>17, <1>0 DEF Return
  <2>18. ASSUME NEW status, RecordJobRow(f, status) PROVE HalfIsSplit'
    BY <2>18, <1>0 DEF RecordJobRow, HalfIsSplit
  <2> HIDE DEF Kept
  <2>a. Kept => HalfIsSplit'
    BY NoNewHalf DEF Kept
  <2> QED
    BY <1>12, <2>a, <2>1, <2>2, <2>3, <2>4, <2>5, <2>6, <2>7, <2>8, <2>9, <2>10, <2>11, <2>12, <2>13, <2>14, <2>15, <2>16, <2>17, <2>18 DEF ExecutorStep
<1>13. ASSUME ex' = ex PROVE Kept
  BY <1>13
<1>14. Kept => HalfIsSplit'
  BY NoNewHalf
<1> HIDE DEF Kept
<1> QED
  BY <1>1, <1>2, <1>3, <1>4, <1>5, <1>6, <1>7, <1>8, <1>9, <1>10, <1>11, <1>12, <1>13, <1>14,
     LocalChanges

-----------------------------------------------------------------------------
(* Every step keeps the agreement of a job with its run.                   *)

LEMMA AgreementExecutorStep ==
    ASSUME IInv, HalfIsSplit, NEW i \in Job \ Split, Agrees(row[i]),
           NEW e \in Exec, ExecutorStep(e), row' # row
    PROVE  Agrees(row'[i])
<1>0. TypeOK /\ i \in Job /\ row[i] \in Row /\ row \in [Job -> Row]
  BY DEF IInv, TypeOK
<1>1. CASE Claim(e)
  BY <1>0, <1>1 DEF Claim, Agrees, Row
<1>2. ASSUME NEW status, RecordResult(e, status) PROVE Agrees(row'[i])
  BY <1>0, <1>2 DEF RecordResult, Agrees, Unlocked, Row
<1>3. ASSUME NEW status, RecordGraphResult(e, status) PROVE Agrees(row'[i])
  BY <1>0, <1>3 DEF RecordGraphResult, Agrees, Unlocked, Row
<1>4. ASSUME NEW status, RecordTranslation(e, status) PROVE Agrees(row'[i])
  BY <1>0, <1>4 DEF RecordTranslation, Agrees, Unlocked, Row
<1>5. ASSUME NEW status, RecordJobRow(e, status) PROVE Agrees(row'[i])
  BY <1>0, <1>5 DEF RecordJobRow, Agrees
<1>6. CASE RecordRunRow(e)
  BY <1>0, <1>6 DEF RecordRunRow, HalfIsSplit, Agrees
<1>7. CASE FailClaimed(e)
  <2>1. Working(e)
    BY <1>7 DEF FailClaimed, CanWrite, Working, Holding
  <2>2. ex[e].job = i => row[i].status \in {"running", "cancelled"}
    BY <1>7, <2>1 DEF IInv, ExecutorKeepsItsJob, FailClaimed
  <2>3. row'[i] = IF i = ex[e].job
                  THEN RunTo(IF row[i].status = "running" /\ row[i].run # "cancelled"
                             THEN Unlocked(row[i], "failed") ELSE row[i], "failed")
                  ELSE row[i]
    BY <1>0, <1>7 DEF FailClaimed
  <2> QED
    BY <1>0, <2>2, <2>3 DEF Agrees, RunTo, Unlocked, Row, Open
<1>8. CASE DeferGraph(e)
  BY <1>0, <1>8 DEF DeferGraph, Agrees, Unlocked, Row
<1>9. CASE Yield(e)
  <2>1. row'[i] = IF i = ex[e].job THEN Requeued(row[i], ex[e].lease, FALSE, FALSE) ELSE row[i]
    BY <1>0, <1>9 DEF Yield
  <2>2. Agrees(Requeued(row[i], ex[e].lease, FALSE, FALSE))
    BY <1>0, StatementsAgree
  <2> QED
    BY <2>1, <2>2 DEF Agrees
<1>10. CASE ReleaseInterrupted(e)
  <2>1. \/ row'[i] = row[i]
        \/ row[i].status = "running" /\ row'[i] = LeaseSettled(i, 0)
    BY <1>0, <1>10 DEF ReleaseInterrupted
  <2> QED
    BY <1>0, <2>1, SettledLeaseAgrees
<1>11. CASE Requeue(e)
  <2>1. \/ row'[i] = row[i]
        \/ \E lease, counted : row'[i] = Requeued(row[i], lease, counted, FALSE)
    BY <1>0, <1>11 DEF Requeue
  <2>2. \A lease, counted : Agrees(Requeued(row[i], lease, counted, FALSE))
    BY <1>0, StatementsAgree
  <2> QED
    BY <2>1, <2>2 DEF Agrees
<1>12. CASE SettleUnfinished(e)
  <2>1. \/ row'[i] = row[i]
        \/ row'[i] = FailedUnder(row[i], ex[e].lease)
    BY <1>0, <1>12 DEF SettleUnfinished
  <2>2. Agrees(FailedUnder(row[i], ex[e].lease))
    BY <1>0, StatementsAgree
  <2> QED
    BY <2>1, <2>2 DEF Agrees
<1> QED
  BY <1>1, <1>2, <1>3, <1>4, <1>5, <1>6, <1>7, <1>8, <1>9, <1>10, <1>11, <1>12,
     ExecutorRowChanges

LEMMA AgreementStep ==
    ASSUME IInv, HalfIsSplit, NEW i \in Job \ Split, Agrees(row[i]), [Next]_vars
    PROVE  Agrees(row'[i])
<1>0. TypeOK /\ i \in Job /\ row[i] \in Row /\ row \in [Job -> Row]
  BY DEF IInv, TypeOK
<1>1. ASSUME NEW j \in Job, Submit(j) PROVE Agrees(row'[i])
  BY <1>0, <1>1 DEF Submit, Agrees, Row
<1>2. ASSUME NEW j \in Job, BecomeDue(j) PROVE Agrees(row'[i])
  BY <1>0, <1>2 DEF BecomeDue, Agrees, Row
<1>3. ASSUME NEW j \in Job, CancelRun(j) PROVE Agrees(row'[i])
  BY <1>0, <1>3 DEF CancelRun, Agrees, Unlocked, Row
<1>4. ASSUME NEW j \in Job, RetryFailed(j) PROVE Agrees(row'[i])
  <2>1. row'[i] = IF i = j THEN Requeued(row[i], NoLease, TRUE, TRUE) ELSE row[i]
    BY <1>0, <1>4 DEF RetryFailed
  <2>2. Agrees(Requeued(row[i], NoLease, TRUE, TRUE))
    BY <1>0, StatementsAgree
  <2> QED
    BY <2>1, <2>2 DEF Agrees
<1>5. ASSUME NEW j \in Job, Resend(j) PROVE Agrees(row'[i])
  BY <1>0, <1>5 DEF Resend, Agrees, Unlocked, Row
<1>6. ASSUME NEW e \in Exec, ExecutorStep(e), row' # row PROVE Agrees(row'[i])
  BY <1>6, AgreementExecutorStep
<1>7. ASSUME Sweep PROVE Agrees(row'[i])
  <2>1. row'[i] = IF Orphaned(i) THEN LeaseSettled(i, 1) ELSE row[i]
    BY <1>7 DEF Sweep
  <2> QED
    BY <1>0, <2>1, SettledLeaseAgrees DEF Orphaned
<1>8. ASSUME NEW seen, NEW old, Recover(seen, old) PROVE Agrees(row'[i])
  <2>1. \/ Orphaned(i) /\ row'[i] = LeaseSettled(i, 1)
        \/ row'[i] \in {row[i], IdleRunRepaired(row[i])}
    BY <1>8 DEF Recover
  <2> QED
    BY <1>0, <2>1, SettledLeaseAgrees, StatementsAgree DEF Orphaned
<1>9. ASSUME Start PROVE Agrees(row'[i])
  <2>1. \/ Orphaned(i) /\ row'[i] = LeaseSettled(i, 1)
        \/ row'[i] = IdleRunRepaired(row[i])
    BY <1>9 DEF Start
  <2> QED
    BY <1>0, <2>1, SettledLeaseAgrees, StatementsAgree DEF Orphaned
<1>10. ASSUME row' = row PROVE Agrees(row'[i])
  BY <1>10
<1> QED
  BY <1>1, <1>2, <1>3, <1>4, <1>5, <1>6, <1>7, <1>8, <1>9, <1>10, RowChanges

\* Except where a result is written row by row, a job and its run always have
\* the same status, so no queued job is stranded behind its run.
THEOREM Agreement == Spec => []JobAndRunAgree
<1>1. Init => HalfIsSplit /\ JobAndRunAgree
  BY DEF Init, HalfIsSplit, JobAndRunAgree, Idle
<1>2. IInv /\ HalfIsSplit /\ JobAndRunAgree /\ [Next]_vars => HalfIsSplit' /\ JobAndRunAgree'
  BY HalfStep, AgreementStep DEF IInv, JobAndRunAgree, Agrees
<1> QED
  BY <1>1, <1>2, Inductive, PTL DEF Spec

=============================================================================
