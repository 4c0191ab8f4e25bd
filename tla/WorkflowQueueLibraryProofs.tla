--------------------- MODULE WorkflowQueueLibraryProofs ---------------------
(***************************************************************************)
(* Whoever is inside the library holds its mutex: LibraryExclusive of      *)
(* WorkflowQueue for every instance.  With the types and the assignment of *)
(* jobs to executors it is inductive as it stands.                         *)
(***************************************************************************)
EXTENDS WorkflowQueueProofs

\* A step keeps LibraryExclusive that leaves the mutex alone and lets nobody
\* into the library.
NobodyEnters ==
    /\ libraryMu' = libraryMu
    /\ \A e \in Exec : InLibrary(e)' => InLibrary(e)

LEMMA NobodyEntersStep ==
    ASSUME LibraryExclusive, NobodyEnters
    PROVE  LibraryExclusive'
BY DEF LibraryExclusive, NobodyEnters

\* An inline executor that has its lease is inside the library from its claim
\* until it leaves.
LEMMA InlineInLibrary ==
    ASSUME Assigned, NEW e \in Inline, ex[e].pc \in Holding
    PROVE  InLibrary(e)
<1>1. e \in Exec /\ ex[e].pc # "idle"
  BY DEF Exec, Holding
<1> QED
  BY <1>1, QueueAssumption DEF Assigned, InLibrary

\* The steps of an executor.
LEMMA LibraryExecutorStep ==
    ASSUME TypeOK, Assigned, LibraryExclusive, NEW f \in Exec, ExecutorStep(f)
    PROVE  LibraryExclusive'
<1> USE DEF Holding
<1>a. /\ ex \in [Exec -> Local]
      /\ NoOne \notin Exec /\ Other \notin Exec /\ NoOne # Other
      /\ Worker \in Exec /\ Worker \notin Inline
  BY QueueAssumption DEF TypeOK, Exec
<1>1. CASE Claim(f)
  <2>1. NobodyEnters
    BY <1>1, <1>a DEF Claim, NobodyEnters, InLibrary
  <2> QED
    BY <2>1, NobodyEntersStep
<1>2. CASE ClaimMissed(f)
  <2>1. CASE f \in Inline
    <3>1. libraryMu = f
      BY <1>2, <2>1, InlineInLibrary DEF LibraryExclusive, ClaimMissed, Exec
    <3>2. \A e \in Exec : InLibrary(e)' => InLibrary(e) /\ e # f
      BY <1>2, <1>a DEF ClaimMissed, InLibrary, Idle
    <3> QED
      BY <3>1, <3>2 DEF LibraryExclusive
  <2>2. CASE f \notin Inline
    <3>1. NobodyEnters
      BY <1>2, <2>2, <1>a DEF ClaimMissed, NobodyEnters, InLibrary, Idle
    <3> QED
      BY <3>1, NobodyEntersStep
  <2> QED
    BY <2>1, <2>2
<1>3. CASE Activate(f)
  <2>1. CASE f \in Inline
    <3>1. NobodyEnters
      <4>1. InLibrary(f)
        BY <1>3, <2>1, InlineInLibrary DEF Activate
      <4> QED
        BY <1>3, <4>1, <1>a DEF Activate, NobodyEnters, InLibrary
    <3> QED
      BY <3>1, NobodyEntersStep
  <2>2. CASE f = Worker
    <3>1. NobodyEnters
      BY <1>3, <2>2, <1>a DEF Activate, NobodyEnters, InLibrary
    <3> QED
      BY <3>1, NobodyEntersStep
  <2> QED
    BY <2>1, <2>2 DEF Exec
<1>4. ASSUME \/ RecordRunRow(f) \/ FailClaimed(f) \/ DeferGraph(f) \/ Yield(f)
             \/ \E status \in {"succeeded", "failed"} :
                   \/ RecordResult(f, status) \/ RecordGraphResult(f, status)
                   \/ RecordTranslation(f, status) \/ RecordJobRow(f, status)
      PROVE  LibraryExclusive'
  <2> DEFINE Same == /\ libraryMu' = libraryMu
                     /\ \A e \in Exec : ex'[e].pc = ex[e].pc /\ ex'[e].job = ex[e].job
  <2>1. CASE RecordRunRow(f)
    <3>1. Same
      BY <2>1, <1>a DEF RecordRunRow, Recorded
    <3> QED
      BY <3>1, NobodyEntersStep DEF NobodyEnters, InLibrary
  <2>2. CASE FailClaimed(f)
    <3>1. Same
      BY <2>2, <1>a DEF FailClaimed, Recorded
    <3> QED
      BY <3>1, NobodyEntersStep DEF NobodyEnters, InLibrary
  <2>3. CASE DeferGraph(f)
    <3>1. Same
      BY <2>3, <1>a DEF DeferGraph, Recorded
    <3> QED
      BY <3>1, NobodyEntersStep DEF NobodyEnters, InLibrary
  <2>4. CASE Yield(f)
    <3>1. Same
      BY <2>4, <1>a DEF Yield, Recorded
    <3> QED
      BY <3>1, NobodyEntersStep DEF NobodyEnters, InLibrary
  <2>5. ASSUME NEW status, RecordResult(f, status) PROVE LibraryExclusive'
    <3>1. Same
      BY <2>5, <1>a DEF RecordResult, Recorded
    <3> QED
      BY <3>1, NobodyEntersStep DEF NobodyEnters, InLibrary
  <2>6. ASSUME NEW status, RecordGraphResult(f, status) PROVE LibraryExclusive'
    <3>1. Same
      BY <2>6, <1>a DEF RecordGraphResult, Recorded
    <3> QED
      BY <3>1, NobodyEntersStep DEF NobodyEnters, InLibrary
  <2>7. ASSUME NEW status, RecordTranslation(f, status) PROVE LibraryExclusive'
    <3>1. Same
      BY <2>7, <1>a DEF RecordTranslation, Recorded
    <3> QED
      BY <3>1, NobodyEntersStep DEF NobodyEnters, InLibrary
  <2>8. ASSUME NEW status, RecordJobRow(f, status) PROVE LibraryExclusive'
    <3>1. Same
      BY <2>8, <1>a DEF RecordJobRow, Recorded
    <3> QED
      BY <3>1, NobodyEntersStep DEF NobodyEnters, InLibrary
  <2> QED
    BY <1>4, <2>1, <2>2, <2>3, <2>4, <2>5, <2>6, <2>7, <2>8
<1>5. ASSUME NEW outcome, Return(f, outcome) PROVE LibraryExclusive'
  <2>1. CASE f = Worker /\ ex[f].job \in Library
    <3>1. libraryMu = f
      BY <1>5, <2>1 DEF LibraryExclusive, InLibrary, Return
    <3>2. \A e \in Exec : InLibrary(e)' => InLibrary(e) /\ e # f
      BY <1>5, <2>1, <1>a DEF Return, InLibrary
    <3> QED
      BY <3>1, <3>2 DEF LibraryExclusive
  <2>2. CASE ~(f = Worker /\ ex[f].job \in Library)
    <3>1. NobodyEnters
      BY <1>5, <2>2, <1>a DEF Return, NobodyEnters, InLibrary
    <3> QED
      BY <3>1, NobodyEntersStep
  <2> QED
    BY <2>1, <2>2
<1>6. ASSUME \/ ReleaseInterrupted(f) \/ HandleResult(f) \/ Requeue(f)
             \/ SettleUnfinished(f) \/ WriteLost(f)
      PROVE  LibraryExclusive'
  <2> DEFINE Late == /\ libraryMu' = libraryMu
                     /\ ex[f].pc \in Holding /\ ex'[f].pc # "executing"
                     /\ ex'[f].job = ex[f].job
                     /\ \A e \in Exec \ {f} : ex'[e] = ex[e]
  <2>1. CASE ReleaseInterrupted(f)
    <3>1. Late
      BY <2>1, <1>a DEF ReleaseInterrupted
    <3> QED
      BY <3>1, NobodyEntersStep DEF NobodyEnters, InLibrary
  <2>2. CASE HandleResult(f)
    <3>1. Late
      BY <2>2, <1>a DEF HandleResult
    <3> QED
      BY <3>1, NobodyEntersStep DEF NobodyEnters, InLibrary
  <2>3. CASE Requeue(f)
    <3>1. Late
      BY <2>3, <1>a DEF Requeue
    <3> QED
      BY <3>1, NobodyEntersStep DEF NobodyEnters, InLibrary
  <2>4. CASE SettleUnfinished(f)
    <3>1. Late
      BY <2>4, <1>a DEF SettleUnfinished, Settling
    <3> QED
      BY <3>1, NobodyEntersStep DEF NobodyEnters, InLibrary
  <2>5. CASE WriteLost(f)
    <3>1. /\ libraryMu' = libraryMu
          /\ ex[f].pc \in Holding
          /\ \E pc \in Holding \ {"executing"} : ex' = [ex EXCEPT ![f].pc = pc]
      BY <2>5 DEF WriteLost, Settling
    <3>2. Late
      BY <3>1, <1>a
    <3> QED
      BY <3>2, NobodyEntersStep DEF NobodyEnters, InLibrary
  <2> QED
    BY <1>6, <2>1, <2>2, <2>3, <2>4, <2>5
<1>7. CASE Leave(f)
  <2>1. CASE f \in Inline
    <3>1. libraryMu = f
      BY <1>7, <2>1, InlineInLibrary DEF LibraryExclusive, Leave, Exec
    <3>2. \A e \in Exec : InLibrary(e)' => InLibrary(e) /\ e # f
      BY <1>7, <1>a DEF Leave, InLibrary, Idle
    <3> QED
      BY <3>1, <3>2 DEF LibraryExclusive
  <2>2. CASE f \notin Inline
    <3>1. NobodyEnters
      BY <1>7, <2>2, <1>a DEF Leave, NobodyEnters, InLibrary, Idle
    <3> QED
      BY <3>1, NobodyEntersStep
  <2> QED
    BY <2>1, <2>2
<1> QED
  BY <1>1, <1>2, <1>3, <1>4, <1>5, <1>6, <1>7 DEF ExecutorStep

\* Every other step.
LEMMA LibraryStep ==
    ASSUME TypeOK, Assigned, LibraryExclusive, [Next]_vars
    PROVE  LibraryExclusive'
<1> USE DEF Holding
<1>a. /\ ex \in [Exec -> Local]
      /\ NoOne \notin Exec /\ Other \notin Exec /\ NoOne # Other
      /\ Worker \in Exec /\ Worker \notin Inline
  BY QueueAssumption DEF TypeOK, Exec
<1>1. ASSUME NEW e \in Exec, ExecutorStep(e) PROVE LibraryExclusive'
  BY <1>1, LibraryExecutorStep
<1>2. ASSUME NEW j \in Job, NEW l \in Lease, Pick(l, j) PROVE LibraryExclusive'
  <2>1. NobodyEnters
    BY <1>2, <1>a DEF Pick, NobodyEnters, InLibrary, Idle
  <2> QED
    BY <2>1, NobodyEntersStep
<1>3. ASSUME NEW f \in Inline, NEW l \in Lease, PickInline(l, f) PROVE LibraryExclusive'
  <2>1. \A e \in Exec : ~InLibrary(e)
    BY <1>3, <1>a DEF PickInline, LibraryExclusive
  <2>2. libraryMu' = f /\ \A e \in Exec \ {f} : ex'[e] = ex[e]
    BY <1>3, <1>a DEF PickInline, Exec
  <2> QED
    BY <2>1, <2>2 DEF LibraryExclusive, InLibrary
<1>4. ASSUME NEW f \in Inline, LeaveQueued(f) PROVE LibraryExclusive'
  <2>1. NobodyEnters
    BY <1>4, <1>a DEF LeaveQueued, NobodyEnters, InLibrary, Idle
  <2> QED
    BY <2>1, NobodyEntersStep
<1>5. ASSUME NEW j \in Job, Submit(j) PROVE LibraryExclusive'
  <2>1. NobodyEnters
    BY <1>5, <1>a DEF Submit, NobodyEnters, InLibrary, Idle
  <2> QED
    BY <2>1, NobodyEntersStep
<1>6. ASSUME \/ \E j \in Job : SignalCancel(j)
             \/ \E e \in Inline : ClientGone(e)
             \/ Stop \/ CutRequests
      PROVE  LibraryExclusive'
  <2> DEFINE Same == /\ libraryMu' = libraryMu
                     /\ \A e \in Exec : ex'[e].pc = ex[e].pc /\ ex'[e].job = ex[e].job
  <2>1. ASSUME NEW j \in Job, SignalCancel(j) PROVE Same
    BY <2>1, <1>a DEF SignalCancel
  <2>2. ASSUME NEW g \in Inline, ClientGone(g) PROVE Same
    BY <2>2, <1>a DEF ClientGone
  <2>3. ASSUME Stop PROVE Same
    BY <2>3, <1>a DEF Stop
  <2>4. ASSUME CutRequests PROVE Same
    BY <2>4, <1>a DEF CutRequests
  <2>5. Same
    BY <1>6, <2>1, <2>2, <2>3, <2>4
  <2> QED
    BY <2>5, NobodyEntersStep DEF NobodyEnters, InLibrary
<1>7. ASSUME EnterLibrary PROVE LibraryExclusive'
  <2>1. \A e \in Exec : ~InLibrary(e)
    BY <1>7, <1>a DEF EnterLibrary, LibraryExclusive
  <2>2. libraryMu' = Worker /\ \A e \in Exec \ {Worker} : ex'[e] = ex[e]
    BY <1>7, <1>a DEF EnterLibrary
  <2> QED
    BY <2>1, <2>2 DEF LibraryExclusive, InLibrary
<1>8. ASSUME GiveUpLibrary PROVE LibraryExclusive'
  <2>1. NobodyEnters
    BY <1>8, <1>a DEF GiveUpLibrary, NobodyEnters, InLibrary
  <2> QED
    BY <2>1, NobodyEntersStep
<1>9. ASSUME OtherLocks \/ OtherUnlocks PROVE LibraryExclusive'
  <2>1. \A e \in Exec : ~InLibrary(e)
    BY <1>9, <1>a DEF OtherLocks, OtherUnlocks, LibraryExclusive
  <2>2. ex' = ex
    BY <1>9 DEF OtherLocks, OtherUnlocks
  <2> QED
    BY <2>1, <2>2 DEF LibraryExclusive, InLibrary
<1>10. ASSUME Exit \/ Crash PROVE LibraryExclusive'
  <2>1. ex' = [e \in Exec |-> Idle]
    BY <1>10 DEF Exit, Crash, ProcessEnds
  <2> QED
    BY <2>1 DEF LibraryExclusive, InLibrary, Idle
<1>11. ASSUME UNCHANGED <<ex, libraryMu>> PROVE LibraryExclusive'
  BY <1>11 DEF LibraryExclusive, InLibrary
<1> QED
  BY <1>1, <1>2, <1>3, <1>4, <1>5, <1>6, <1>7, <1>8, <1>9, <1>10, <1>11,
     LocalChanges

\* Two jobs that change library folders never do so at once, however many
\* executors are alive, since both would hold mediaCleanupMu.
THEOREM LibraryHeld == Spec => []LibraryExclusive
<1>1. Init => LibraryExclusive
  BY DEF Init, LibraryExclusive, InLibrary, Idle, Holding
<1>2. IInv /\ LibraryExclusive /\ [Next]_vars => LibraryExclusive'
  BY LibraryStep DEF IInv
<1> QED
  BY <1>1, <1>2, Inductive, PTL DEF Spec

=============================================================================
