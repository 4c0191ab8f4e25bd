----------------------------- MODULE FolderEdit -----------------------------
(***************************************************************************)
(* One folder edit run: work_folder_edit_job.go with                       *)
(* work_folder_edit_recovery.go, and the files it moves on disk.           *)
(*                                                                         *)
(* An edit collects added files in its staging folder, removes files,      *)
(* lifts every moved file into the staging folder, publishes the added     *)
(* files and places the moved ones.  A rename and the checkpoint that      *)
(* records it are two steps: the process may end between them.  The        *)
(* executor and the settlement of a cancelled edit hold mediaCleanupMu by  *)
(* turns (LibraryExclusive in WorkflowQueue).                              *)
(*                                                                         *)
(* A status check (ensureWorkflowRunActive) and the file operation behind  *)
(* it are one step: a cancellation between them changes nothing the        *)
(* operation reads, so it commutes with the operation.                     *)
(***************************************************************************)
EXTENDS Integers, FiniteSets

CONSTANTS
    Path,           \* paths below the edited folder
    Move,           \* moved files, in plan order
    Item,           \* added files, in plan order
    Removal,        \* paths whose files are removed
    Replace,        \* added files that may replace the file at their path
    Src, Dst,       \* old and new path of each moved file
    Target,         \* path of each added file
    Before,         \* the file the plan saw at each path
    Foreign,        \* a file somebody else puts into the folder
    Nothing,        \* no file
    Size,           \* size of each file
    Budget          \* how often each bounded event of the environment occurs

Occasion == {"cancel", "retry", "resume", "fail", "appear", "stop", "crash"}

First(S) == CHOOSE x \in S : \A y \in S : x <= y

File == (Move \union Item \union {Foreign} \union {Before[p] : p \in Path}) \ {Nothing}

ASSUME FolderEditAssumption ==
    /\ Move \subseteq Nat /\ IsFiniteSet(Move)
    /\ Item \subseteq Nat /\ IsFiniteSet(Item)
    /\ Move \intersect Item = {}
    /\ Nothing \notin Move \union Item \union {Foreign}
    /\ Before \in [Path -> File \union {Nothing}]
    /\ Removal \subseteq Path
    /\ Src \in [Move -> Path] /\ Dst \in [Move -> Path] /\ Target \in [Item -> Path]
    \* An added file, or one of somebody else, is new to the folder.
    /\ Foreign \notin Item /\ \A p \in Path : Before[p] \notin Item \union {Foreign}
    \* A moved file is at its old path only, and its new path is another.
    /\ \A m \in Move : Before[Src[m]] = m /\ Src[m] # Dst[m]
    /\ \A p \in Path : Before[p] \in Move => p = Src[Before[p]]
    /\ \A p \in Removal : Before[p] # Nothing /\ \A m \in Move : Src[m] # p
    /\ \A m, n \in Move : m # n => Src[m] # Src[n] /\ Dst[m] # Dst[n]
    /\ \A i \in Item, m \in Move : Target[i] # Dst[m]
    /\ \A i, j \in Item : i # j => Target[i] # Target[j]
    \* A path is taken only where the plan frees it or replaces its file.
    /\ \A m \in Move : Before[Dst[m]] # Nothing =>
          Dst[m] \in Removal \/ \E n \in Move : Src[n] = Dst[m]
    /\ \A i \in Item : Before[Target[i]] # Nothing =>
          i \in Replace \/ Target[i] \in Removal \/ \E n \in Move : Src[n] = Target[i]
    /\ Replace \subseteq Item
    \* A file that is moved away or removed is not replaced.
    /\ \A i \in Replace : /\ Before[Target[i]] # Nothing
                          /\ Target[i] \notin Removal
                          /\ \A m \in Move : Src[m] # Target[i]
    /\ Size \in [File -> Nat]
    /\ Budget \in [Occasion -> Nat]

VARIABLES
    at,             \* the file at each path
    lift,           \* staging: the lifted file of each move
    copy,           \* staging: the collected file of each item
    status,         \* of the run and its job
    ckpt,           \* checkpoint_json of the job
    act,            \* local state of the executor and of the settlement
    ctx,            \* the executor's context
    lock,           \* mediaCleanupMu: which of the two holds it
    signal,         \* a cancellation is committed and not yet signalled
    mode,           \* the service: up, stopping, or down
    left            \* what is left of Budget

vars == <<at, lift, copy, status, ckpt, act, ctx, lock, signal, mode, left>>

disk == <<at, lift, copy>>

-----------------------------------------------------------------------------
Actor == {"executor", "settler"}

Checkpoint == [staged : SUBSET Item, removed : SUBSET Removal, published : SUBSET Item,
               lifted : SUBSET Move, placed : SUBSET Move]

Phase == {"stage", "remove", "lift", "publish", "place"}
PC == Phase \union {"idle", "claimed", "waiting", "replacing", "finish", "failing",
                    "putting", "clearing", "closing"}

\* todo: what the loop of the phase has left; dirty: a file operation whose
\* checkpoint is not yet saved; kept: lifted files that could not go back;
\* then: what the run becomes after a failure ("none": it is settled already).
Local == [pc : PC, mem : Checkpoint, todo : SUBSET (Item \union Move \union Removal),
          dirty : BOOLEAN, kept : SUBSET Move,
          then : {"none", "queued", "failed"}]

Open == {"queued", "running"}

TypeOK ==
    /\ at \in [Path -> File \union {Nothing}]
    /\ lift \in [Move -> File \union {Nothing}]
    /\ copy \in [Item -> Item \union {Nothing}]
    /\ status \in Open \union {"succeeded", "failed", "cancelled"}
    /\ ckpt \in Checkpoint
    /\ act \in [Actor -> Local]
    /\ ctx \in {"live", "cancelled", "stopped"}
    /\ lock \in Actor \union {"none"}
    /\ signal \in BOOLEAN
    /\ mode \in {"up", "stopping", "down"}
    /\ left \in [Occasion -> Nat]

NoCheckpoint == [staged |-> {}, removed |-> {}, published |-> {}, lifted |-> {}, placed |-> {}]

Idle == [pc |-> "idle", mem |-> NoCheckpoint, todo |-> {}, dirty |-> FALSE,
         kept |-> {}, then |-> "none"]

Init ==
    /\ at = Before
    /\ lift = [m \in Move |-> Nothing]
    /\ copy = [i \in Item |-> Nothing]
    /\ status = "queued"
    /\ ckpt = NoCheckpoint
    /\ act = [a \in Actor |-> Idle]
    /\ ctx = "live"
    /\ lock = "none"
    /\ signal = FALSE
    /\ mode = "up"
    /\ left = Budget

Spend(o) == /\ left[o] > 0
            /\ left' = [left EXCEPT ![o] = @ - 1]

me == act["executor"]

\* existingFileMatches: a file is there, and it has the planned size
Matches(file, m) == file # Nothing /\ Size[file] = Size[m]

StagingExists == \/ \E m \in Move : lift[m] # Nothing
                 \/ \E i \in Item : copy[i] # Nothing

\* ensureWorkflowRunActive
Active == ctx = "live" /\ status \in Open

\* The executor is in a phase and has saved what it did.
In(phase) == me.pc = phase /\ ~me.dirty

Skip(x) == act' = [act EXCEPT !["executor"].todo = @ \ {x}]

\* A file operation, with the checkpoint field that records it in memory.
Did(x, mem) ==
    act' = [act EXCEPT !["executor"].todo = @ \ {x},
                       !["executor"].mem = mem,
                       !["executor"].dirty = TRUE]

\* fail is called: the run will be queued for a retry, or failed.
FailsAs(outcome) ==
    act' = [act EXCEPT !["executor"] = [me EXCEPT !.pc = "failing", !.todo = {},
                                                  !.dirty = FALSE, !.then = outcome]]

Fails == FailsAs("failed")

Loop(phase) == CASE phase \in {"stage", "publish"} -> Item
                 [] phase = "remove"               -> Removal
                 [] phase \in {"lift", "place"}    -> Move
                 [] phase = "finish"               -> {}

\* Mutant: a resumed edit that placed a file has placed them all.
AfterSkipping(phase) == CASE phase = "stage"   -> "remove"
                          [] phase = "remove"  -> "lift"
                          [] phase = "lift"    -> "publish"
                          [] phase = "publish" -> IF me.mem.placed = {} THEN "place" ELSE "finish"
                          [] phase = "place"   -> "finish"

After(phase) == CASE phase = "stage"   -> "remove"
                  [] phase = "remove"  -> "lift"
                  [] phase = "lift"    -> "publish"
                  [] phase = "publish" -> "place"
                  [] phase = "place"   -> "finish"

-----------------------------------------------------------------------------
(* The queue, as far as this run sees it.                                  *)

\* A claim hands the executor the checkpoint it read.
Claim ==
    /\ mode = "up"
    /\ me.pc = "idle"
    /\ status = "queued"
    /\ status' = "running"
    /\ act' = [act EXCEPT !["executor"] = [Idle EXCEPT !.pc = "claimed", !.mem = ckpt]]
    /\ ctx' = "live"
    /\ UNCHANGED <<disk, ckpt, lock, signal, mode, left>>

Activate ==
    /\ me.pc = "claimed"
    /\ act' = [act EXCEPT !["executor"].pc = "waiting"]
    /\ UNCHANGED <<disk, status, ckpt, ctx, lock, signal, mode, left>>

\* Mutant: an edit that has collected files goes on behind the collecting.
EnterLibraryResuming ==
    /\ me.pc = "waiting"
    /\ ctx = "live"
    /\ lock = "none"
    /\ lock' = "executor"
    /\ act' = [act EXCEPT !["executor"].pc = IF me.mem.staged = {} THEN "stage" ELSE "remove",
                          !["executor"].todo = IF me.mem.staged = {} THEN Item ELSE Removal]
    /\ UNCHANGED <<disk, status, ckpt, ctx, signal, mode, left>>

\* executeClaimedWorkflowJobWithResources: LockContext.  Every attempt runs
\* through all phases again and skips what its checkpoint records.
EnterLibrary ==
    /\ me.pc = "waiting"
    /\ ctx = "live"
    /\ lock = "none"
    /\ lock' = "executor"
    /\ act' = [act EXCEPT !["executor"].pc = "stage", !["executor"].todo = Item]
    /\ UNCHANGED <<disk, status, ckpt, ctx, signal, mode, left>>

\* Mutant: resumes have no limit.
ReleaseUnbounded(spent) ==
    IF status = "running"
    THEN status' = "queued" /\ left' = [left EXCEPT !["resume"] = @ - spent]
    ELSE UNCHANGED <<status, left>>

\* ReleaseInterruptedJob at a stop, which spends no resume, and SettleOrphans
\* at a start, which spends one: a job that was running and has resumes left is
\* queued again, and failed otherwise.
Release(spent) ==
    IF status = "running"
    THEN /\ status' = IF left["resume"] > 0 THEN "queued" ELSE "failed"
         /\ left' = IF left["resume"] > 0
                    THEN [left EXCEPT !["resume"] = @ - spent] ELSE left
    ELSE UNCHANGED <<status, left>>

Waiting == [Idle EXCEPT !.pc = "waiting"]

\* settleJobCancelledWhileWaitingForLibrary; settleUnfinishedWorkflowJob fails
\* a run that still runs then.
GiveUpLibrary ==
    /\ me.pc = "waiting"
    /\ ctx # "live"
    /\ LET settles == ctx = "cancelled" /\ status = "cancelled" /\ mode = "up"
       IN /\ settles => act["settler"].pc = "idle"
          /\ act' = [act EXCEPT !["executor"] = Idle,
                                !["settler"] = IF settles THEN Waiting
                                               ELSE act["settler"]]
    /\ IF ctx = "stopped" THEN Release(0)
       ELSE /\ status' = IF status = "running" THEN "failed" ELSE status
            /\ UNCHANGED left
    /\ UNCHANGED <<disk, ckpt, ctx, lock, signal, mode>>

\* updateWorkflowJobCheckpoint; only the stage phase saves under its context
SaveCheckpoint ==
    /\ me.dirty
    /\ me.pc = "stage" => ctx = "live"
    /\ ckpt' = me.mem
    /\ act' = [act EXCEPT !["executor"].dirty = FALSE]
    /\ UNCHANGED <<disk, status, ctx, lock, signal, mode, left>>

SaveRefused ==
    /\ me.dirty
    /\ me.pc = "stage"
    /\ ctx # "live"
    /\ Fails
    /\ UNCHANGED <<disk, status, ckpt, ctx, lock, signal, mode, left>>

\* The next phase starts; its node row is written under the context, except
\* between lifting, publishing and placing.
NextPhase(phase) ==
    /\ In(phase)
    /\ me.todo = {}
    /\ phase \in {"lift", "publish"} \/ ctx = "live"
    /\ act' = [act EXCEPT !["executor"].pc = After(phase),
                          !["executor"].todo = Loop(After(phase))]
    /\ UNCHANGED <<disk, status, ckpt, ctx, lock, signal, mode, left>>

\* The node row cannot be written, or the folder not indexed (finish).
PhaseRefused(phase) ==
    /\ In(phase)
    /\ me.todo = {}
    /\ phase \notin {"lift", "publish"}
    /\ ctx # "live"
    /\ Fails
    /\ UNCHANGED <<disk, status, ckpt, ctx, lock, signal, mode, left>>

\* A download, a read or a rename fails; isRetryableWorkflowError tells whether
\* it is worth another attempt.
StepFails(phase) ==
    /\ In(phase)
    /\ Spend("fail")
    /\ \E outcome \in {"queued", "failed"} : FailsAs(outcome)
    /\ UNCHANGED <<disk, status, ckpt, ctx, lock, signal, mode>>

-----------------------------------------------------------------------------
(* The file operations.                                                    *)

\* Mutant: a missing copy is not looked for at its path.
MissingCopyIgnored(i) == FALSE

\* recoverPublishedItem: the copy is gone and a file is at the item's path.
MissingCopy(i) == copy[i] = Nothing /\ at[Target[i]] # Nothing

\* Mutant: any file at the path is taken for the published one.
ProvenBySize(i) == Size[at[Target[i]]] > 0

\* ... and it is this run's publication only if it matches the proof.
Proven(i) == at[Target[i]] = i

\* stage: an item published before a crash is recognised at its path, an item
\* collected before is not collected again.
Stage(i) ==
    /\ In("stage") /\ i \in me.todo /\ i = First(me.todo)
    /\ LET mem       == me.mem
           collected == i \in mem.staged /\ i \notin mem.published
           moved     == collected /\ MissingCopy(i)
       IN \/ /\ ~Active \/ (moved /\ ~Proven(i))
             /\ Fails
             /\ UNCHANGED copy
          \/ /\ Active
             /\ moved /\ Proven(i)
             /\ Did(i, [mem EXCEPT !.published = @ \union {i}])
             /\ UNCHANGED copy
          \/ /\ Active
             /\ i \in mem.published \/ (collected /\ copy[i] = i)
             /\ Skip(i)
             /\ UNCHANGED copy
          \/ /\ Active
             /\ i \notin mem.published /\ ~moved /\ ~(collected /\ copy[i] = i)
             /\ copy' = [copy EXCEPT ![i] = i]
             /\ Did(i, [mem EXCEPT !.staged = @ \union {i}])
    /\ UNCHANGED <<at, lift, status, ckpt, ctx, lock, signal, mode, left>>

\* remove: a file that is not the version the plan saw stops the edit.
Remove(p) ==
    /\ In("remove") /\ p \in me.todo
    /\ LET mem == me.mem
       IN \/ /\ p \in mem.removed
             /\ Skip(p)
             /\ UNCHANGED at
          \/ /\ p \notin mem.removed
             /\ ~Active \/ at[p] \notin {Nothing, Before[p]}
             /\ Fails
             /\ UNCHANGED at
          \/ /\ p \notin mem.removed
             /\ Active /\ at[p] \in {Nothing, Before[p]}
             /\ at' = [at EXCEPT ![p] = Nothing]
             /\ Did(p, [mem EXCEPT !.removed = @ \union {p}])
    /\ UNCHANGED <<lift, copy, status, ckpt, ctx, lock, signal, mode, left>>

\* Mutant: the rename is not recognised after a crash.
LiftedUnnoticed(m) == FALSE

\* The rename finished before its checkpoint was written.
AlreadyLifted(m) == at[Src[m]] = Nothing /\ Matches(lift[m], m)

\* liftMoves; the rename into the staging folder replaces what is there.
Lift(m) ==
    /\ In("lift") /\ m \in me.todo /\ m = First(me.todo)
    /\ LET mem   == me.mem
           there == at[Src[m]]
           done  == AlreadyLifted(m)
       IN \/ /\ m \in mem.lifted
             /\ Skip(m)
             /\ UNCHANGED <<at, lift>>
          \/ /\ m \notin mem.lifted
             /\ ~Active \/ ~(done \/ Matches(there, m))
             /\ Fails
             /\ UNCHANGED <<at, lift>>
          \/ /\ m \notin mem.lifted
             /\ Active /\ done
             /\ Did(m, [mem EXCEPT !.lifted = @ \union {m}])
             /\ UNCHANGED <<at, lift>>
          \/ /\ m \notin mem.lifted
             /\ Active /\ Matches(there, m)
             /\ lift' = [lift EXCEPT ![m] = there]
             /\ at' = [at EXCEPT ![Src[m]] = Nothing]
             /\ Did(m, [mem EXCEPT !.lifted = @ \union {m}])
    /\ UNCHANGED <<copy, status, ckpt, ctx, lock, signal, mode, left>>

\* renameNoReplace of the collected copy
PublishRename(i) ==
    \/ /\ at[Target[i]] # Nothing
       /\ Fails
       /\ UNCHANGED <<at, copy>>
    \/ /\ at[Target[i]] = Nothing
       /\ at' = [at EXCEPT ![Target[i]] = copy[i]]
       /\ copy' = [copy EXCEPT ![i] = Nothing]
       /\ act' = [act EXCEPT !["executor"].pc = "publish",
                             !["executor"].todo = @ \ {i},
                             !["executor"].mem = [me.mem EXCEPT !.published = @ \union {i}],
                             !["executor"].dirty = TRUE]

\* publish with publishItem: only a file the edit chose to replace gives way,
\* and only while it has the size the plan saw.
Publish(i) ==
    /\ In("publish") /\ i \in me.todo /\ i = First(me.todo)
    /\ LET there    == at[Target[i]]
           givesWay == /\ i \in Replace
                       /\ there # Nothing
                       /\ Size[there] = Size[Before[Target[i]]]
       IN \/ /\ i \in me.mem.published
             /\ Skip(i)
             /\ UNCHANGED <<at, copy>>
          \/ /\ i \notin me.mem.published
             /\ ~Active \/ copy[i] # i
             /\ Fails
             /\ UNCHANGED <<at, copy>>
          \/ /\ i \notin me.mem.published
             /\ Active /\ copy[i] = i /\ givesWay
             /\ at' = [at EXCEPT ![Target[i]] = Nothing]
             /\ act' = [act EXCEPT !["executor"].pc = "replacing"]
             /\ UNCHANGED copy
          \/ /\ i \notin me.mem.published
             /\ Active /\ copy[i] = i /\ ~givesWay
             /\ PublishRename(i)
    /\ UNCHANGED <<lift, status, ckpt, ctx, lock, signal, mode, left>>

\* The replaced file is removed, the collected copy not yet renamed.
PublishReplacing(i) ==
    /\ me.pc = "replacing" /\ i = First(me.todo)
    /\ PublishRename(i)
    /\ UNCHANGED <<lift, status, ckpt, ctx, lock, signal, mode, left>>

\* placeMoves: there is no status check here, so a cancelled edit places all
\* its moves.
Place(m) ==
    /\ In("place") /\ m \in me.todo /\ m = First(me.todo)
    /\ LET mem  == me.mem
           done == lift[m] = Nothing /\ Matches(at[Dst[m]], m)
           free == lift[m] # Nothing /\ at[Dst[m]] = Nothing
       IN \/ /\ m \in mem.placed
             /\ Skip(m)
             /\ UNCHANGED <<at, lift>>
          \/ /\ m \notin mem.placed
             /\ ~done /\ ~free
             /\ Fails
             /\ UNCHANGED <<at, lift>>
          \/ /\ m \notin mem.placed
             /\ done
             /\ Did(m, [mem EXCEPT !.placed = @ \union {m}])
             /\ UNCHANGED <<at, lift>>
          \/ /\ m \notin mem.placed
             /\ free
             /\ at' = [at EXCEPT ![Dst[m]] = lift[m]]
             /\ lift' = [lift EXCEPT ![m] = Nothing]
             /\ Did(m, [mem EXCEPT !.placed = @ \union {m}])
    /\ UNCHANGED <<copy, status, ckpt, ctx, lock, signal, mode, left>>

-----------------------------------------------------------------------------
(* The end of an edit.                                                     *)

\* finish: the result is recorded whatever became of the run meanwhile, then
\* removeStaging clears the staging folder.
Finish ==
    /\ In("finish")
    /\ status' = "succeeded"
    /\ act' = [act EXCEPT !["executor"].pc = "clearing", !["executor"].then = "none"]
    /\ UNCHANGED <<disk, ckpt, ctx, lock, signal, mode, left>>

\* Mutant: only a cancelled or retried edit puts files back.
PuttingBackCancelled(l, outcome) ==
    [l EXCEPT !.pc = CASE l.mem.lifted # {} /\ outcome # "failed" -> "putting"
                       [] l.mem.lifted = {} /\ outcome = "queued" -> "closing"
                       [] OTHER                                  -> "clearing",
              !.todo = l.mem.lifted \ l.mem.placed,
              !.kept = {},
              !.then = outcome]

\* Actor a, in local state l, starts to put lifted files back: discardStaging,
\* or putBackLiftedMoves alone for a run that will be retried.
PuttingBack(l, outcome) ==
    [l EXCEPT !.pc = CASE l.mem.lifted # {}                      -> "putting"
                       [] l.mem.lifted = {} /\ outcome = "queued" -> "closing"
                       [] OTHER                                  -> "clearing",
              !.todo = l.mem.lifted \ l.mem.placed,
              !.kept = {},
              !.then = outcome]

\* fail
Failing ==
    /\ me.pc = "failing"
    /\ \/ /\ ctx = "stopped"
          /\ act' = [act EXCEPT !["executor"] = Idle]
          /\ lock' = "none"
          /\ Release(0)
       \/ /\ ctx # "stopped"
          /\ \/ /\ status = "cancelled"
                /\ act' = [act EXCEPT !["executor"] = PuttingBack(me, "none")]
                /\ UNCHANGED left
             \/ /\ status \in Open /\ me.then = "queued"
                /\ Spend("retry")
                /\ act' = [act EXCEPT !["executor"] = PuttingBack(me, "queued")]
             \/ /\ status \in Open /\ (me.then = "queued" => left["retry"] = 0)
                /\ act' = [act EXCEPT !["executor"] = PuttingBack(me, "failed")]
                /\ UNCHANGED left
          /\ UNCHANGED <<status, lock>>
    /\ UNCHANGED <<disk, ckpt, ctx, signal, mode>>

\* settleCancelledWorkFolderEdit: nobody asks for the run's status again.
SettlerEnters ==
    /\ act["settler"].pc = "waiting"
    /\ lock = "none"
    /\ lock' = "settler"
    /\ act' = [act EXCEPT !["settler"] = PuttingBack([Idle EXCEPT !.mem = ckpt], "none")]
    /\ UNCHANGED <<disk, status, ckpt, ctx, signal, mode, left>>

\* Mutant: the file goes back with a rename that replaces.
PutBackReplacing(a, m) ==
    /\ act[a].pc = "putting"
    /\ m \in act[a].todo /\ m = First(act[a].todo)
    /\ LET free == lift[m] # Nothing
           back == lift[m] = Nothing /\ Matches(at[Src[m]], m)
       IN \/ /\ free
             /\ at' = [at EXCEPT ![Src[m]] = lift[m]]
             /\ lift' = [lift EXCEPT ![m] = Nothing]
             /\ act' = [act EXCEPT ![a].todo = @ \ {m}, ![a].mem.lifted = @ \ {m}]
          \/ /\ back
             /\ act' = [act EXCEPT ![a].todo = @ \ {m}, ![a].mem.lifted = @ \ {m}]
             /\ UNCHANGED <<at, lift>>
          \/ /\ ~free /\ ~back
             /\ act' = [act EXCEPT ![a].todo = @ \ {m}, ![a].kept = @ \union {m}]
             /\ UNCHANGED <<at, lift>>
    /\ UNCHANGED <<copy, status, ckpt, ctx, lock, signal, mode, left>>

\* putBackMove: a lifted file goes back unless another file took its place.
PutBack(a, m) ==
    /\ act[a].pc = "putting"
    /\ m \in act[a].todo /\ m = First(act[a].todo)
    /\ LET free == lift[m] # Nothing /\ at[Src[m]] = Nothing
           back == lift[m] = Nothing /\ Matches(at[Src[m]], m)
       IN \/ /\ free
             /\ at' = [at EXCEPT ![Src[m]] = lift[m]]
             /\ lift' = [lift EXCEPT ![m] = Nothing]
             /\ act' = [act EXCEPT ![a].todo = @ \ {m}, ![a].mem.lifted = @ \ {m}]
          \/ /\ back
             /\ act' = [act EXCEPT ![a].todo = @ \ {m}, ![a].mem.lifted = @ \ {m}]
             /\ UNCHANGED <<at, lift>>
          \/ /\ ~free /\ ~back
             /\ act' = [act EXCEPT ![a].todo = @ \ {m}, ![a].kept = @ \union {m}]
             /\ UNCHANGED <<at, lift>>
    /\ UNCHANGED <<copy, status, ckpt, ctx, lock, signal, mode, left>>

\* The moves that stay lifted are saved, without the caller's context.
SavePutBack(a) ==
    /\ act[a].pc = "putting"
    /\ act[a].todo = {}
    /\ ckpt' = act[a].mem
    /\ act' = [act EXCEPT ![a].pc = IF act[a].then = "queued"
                                    THEN "closing" ELSE "clearing"]
    /\ UNCHANGED <<disk, status, ctx, lock, signal, mode, left>>

\* discardStaging: the staging folder goes, unless it keeps a moved file;
\* what was collected goes in either case.
Clear(a) ==
    /\ act[a].pc = "clearing"
    /\ copy' = [i \in Item |-> Nothing]
    /\ lift' = IF act[a].kept = {} THEN [m \in Move |-> Nothing] ELSE lift
    /\ act' = [act EXCEPT ![a].pc = "closing"]
    /\ UNCHANGED <<at, status, ckpt, ctx, lock, signal, mode, left>>

\* The failure is recorded over whatever the status has become, and the
\* requeue of handleWorkflowJobResult follows in the same step.
Close(a) ==
    /\ act[a].pc = "closing"
    /\ status' = IF act[a].then = "none" THEN status ELSE act[a].then
    /\ lock' = "none"
    /\ act' = [act EXCEPT ![a] = Idle]
    /\ UNCHANGED <<disk, ckpt, ctx, signal, mode, left>>

-----------------------------------------------------------------------------
(* Everybody else.                                                         *)

CancelRun ==
    /\ mode # "down"
    /\ status \in Open
    /\ ~signal
    /\ Spend("cancel")
    /\ status' = "cancelled"
    /\ signal' = TRUE
    /\ UNCHANGED <<disk, ckpt, act, ctx, lock, mode>>

\* cancelActiveWorkflowJob: an executor at work is told; when there is none,
\* the handler starts the settlement, whatever the run has become by then.
Signal ==
    /\ signal
    /\ signal' = FALSE
    /\ IF me.pc \notin {"idle", "claimed"}
       THEN /\ ctx' = IF ctx = "live" THEN "cancelled" ELSE ctx
            /\ UNCHANGED act
       ELSE /\ mode = "up" => act["settler"].pc = "idle"
            /\ act' = IF mode = "up" THEN [act EXCEPT !["settler"] = Waiting] ELSE act
            /\ UNCHANGED ctx
    /\ UNCHANGED <<disk, status, ckpt, lock, mode, left>>

\* requeueFailedWorkflowJob keeps the checkpoint.
Retry ==
    /\ mode # "down"
    /\ status = "failed"
    /\ Spend("retry")
    /\ status' = "queued"
    /\ UNCHANGED <<disk, ckpt, act, ctx, lock, signal, mode>>

\* Somebody else puts a file into the folder.
Appear(p) ==
    /\ at[p] = Nothing
    /\ Spend("appear")
    /\ at' = [at EXCEPT ![p] = Foreign]
    /\ UNCHANGED <<lift, copy, status, ckpt, act, ctx, lock, signal, mode>>

\* Shutdown: the contexts end, and a settlement that waits gives up.
Stop ==
    /\ mode = "up"
    /\ Spend("stop")
    /\ mode' = "stopping"
    /\ ctx' = IF ctx = "live" THEN "stopped" ELSE ctx
    /\ act' = [act EXCEPT !["settler"] = IF act["settler"].pc = "waiting"
                                        THEN Idle ELSE act["settler"]]
    /\ UNCHANGED <<disk, status, ckpt, lock, signal>>

Exit ==
    /\ mode = "stopping"
    /\ \A a \in Actor : act[a].pc = "idle"
    /\ mode' = "down"
    /\ signal' = FALSE
    /\ UNCHANGED <<disk, status, ckpt, act, ctx, lock, left>>

Crash ==
    /\ mode # "down"
    /\ Spend("crash")
    /\ mode' = "down"
    /\ act' = [a \in Actor |-> Idle]
    /\ lock' = "none"
    /\ signal' = FALSE
    /\ UNCHANGED <<disk, status, ckpt, ctx>>

\* Mutant: a start leaves cancelled edits alone.
StartUnsettled ==
    /\ mode = "down"
    /\ mode' = "up"
    /\ ctx' = "live"
    /\ Release(1)
    /\ UNCHANGED <<disk, ckpt, act, lock, signal>>

\* RecoverInterruptedWorkflows with settleCancelledWorkFolderEdits
Start ==
    /\ mode = "down"
    /\ mode' = "up"
    /\ ctx' = "live"
    /\ act' = IF status = "cancelled" /\ StagingExists
              THEN [act EXCEPT !["settler"] = Waiting] ELSE act
    /\ Release(1)
    /\ UNCHANGED <<disk, ckpt, lock, signal>>

-----------------------------------------------------------------------------
ExecutorStep ==
    \/ Claim \/ Activate \/ EnterLibrary \/ GiveUpLibrary
    \/ SaveCheckpoint \/ SaveRefused
    \/ \E phase \in Phase : NextPhase(phase)
    \/ \E phase \in Phase \union {"finish"} : PhaseRefused(phase)
    \/ \E i \in Item : Stage(i) \/ Publish(i) \/ PublishReplacing(i)
    \/ \E p \in Removal : Remove(p)
    \/ \E m \in Move : Lift(m) \/ Place(m)
    \/ Finish \/ Failing

SettlementStep ==
    \/ SettlerEnters
    \/ \E a \in Actor : (\E m \in Move : PutBack(a, m)) \/ SavePutBack(a) \/ Clear(a) \/ Close(a)

Environment ==
    \/ CancelRun \/ Retry \/ Stop \/ Crash
    \/ \E p \in Path : Appear(p)
    \/ \E phase \in Phase \union {"finish"} : StepFails(phase)

Next == ExecutorStep \/ SettlementStep \/ Signal \/ Exit \/ Start \/ Environment

Spec == Init /\ [][Next]_vars

\* The executor and the settlement are running goroutines, a handler that
\* committed a cancellation goes on to signal it, and a stopped service is
\* started again.
Fairness ==
    /\ WF_vars(ExecutorStep)
    /\ WF_vars(SettlementStep)
    /\ WF_vars(Signal)
    /\ WF_vars(Exit)
    /\ WF_vars(Start)

FairSpec == Spec /\ Fairness

-----------------------------------------------------------------------------
(* Properties.                                                             *)

\* The file of every move is in the folder or in the staging folder, whatever
\* stops the edit: between the rename out of its place (liftMoves) and the one
\* to its new path, the staging folder holds the only copy, and discardStaging
\* deletes that folder.
MovedFileSurvives ==
    \A m \in Move : \/ \E p \in Path : at[p] = m
                    \/ \E n \in Move : lift[n] = m

\* A file somebody else puts into the folder while the edit runs is never lost:
\* no step removes it, or renames over it.
ForeignFileKept ==
    left["appear"] < Budget["appear"] =>
        Cardinality({p \in Path : at[p] = Foreign}) + Cardinality({m \in Move : lift[m] = Foreign})
            = Budget["appear"] - left["appear"]

\* A run that succeeded did all it was asked, however often it was stopped,
\* failed or retried on the way: every moved file is at its new path, every
\* added file at its path, every removed file gone.
SuccessIsComplete ==
    status = "succeeded" =>
        /\ \A m \in Move : at[Dst[m]] = m
        /\ \A i \in Item : at[Target[i]] = i
        /\ \A p \in Removal : at[p] # Before[p]

\* A run never collects again a file it already published: a collected file is
\* nowhere in the folder and was not lifted from it (recoverPublishedItem).
OneCopy ==
    \A i \in Item : copy[i] = i => /\ \A p \in Path : at[p] # i
                                   /\ \A m \in Move : lift[m] # i

\* A file the plan found leaves its path only when every added file is collected
\* or published, in every attempt: a failed download removes nothing (remove).
LeavesAfterCollecting ==
    [][\A p \in Path : at[p] # Nothing /\ at[p] = Before[p] /\ at'[p] # at[p] =>
          \A i \in Item : i \in {copy[i], at[Target[i]]}]_vars

\* Every moved file is at its old or its new path, or waits in the staging
\* folder because another file took its old path.
FilesInPlace ==
    \A m \in Move : \/ m \in {at[Src[m]], at[Dst[m]]}
                    \/ lift[m] = m /\ at[Src[m]] # Nothing

\* A cancelled or failed edit that nobody works on has put back every moved
\* file that can go back (fail, settleCancelledWorkFolderEdit).
StoppedEditPutsBack ==
    /\ mode = "up" /\ ~signal
    /\ status \in {"cancelled", "failed"}
    /\ \A a \in Actor : act[a].pc = "idle"
    => FilesInPlace

\* A cancelled edit is settled in the end, also when the service stops between
\* the cancellation and its settlement.
CancelledIsSettled == status = "cancelled" ~> status # "cancelled" \/ FilesInPlace

=============================================================================
