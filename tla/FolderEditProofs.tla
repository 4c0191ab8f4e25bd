-------------------------- MODULE FolderEditProofs --------------------------
(***************************************************************************)
(* A folder edit of any size, in any folder, cancelled, failed, retried,   *)
(* stopped and crashed any number of times: its state keeps its types, and *)
(* no added file is ever in two places.                                    *)
(*                                                                         *)
(* An added file is published by a rename the checkpoint records later.    *)
(* Between the two, only its place tells that it is published, and a later *)
(* attempt looks there first (recoverPublishedItem).  That place is not    *)
(* touched meanwhile: no phase behind the collecting begins before every   *)
(* added file is collected or recorded as published.                       *)
(***************************************************************************)
EXTENDS FolderEdit, TLAPS

-----------------------------------------------------------------------------
(* The inductive invariant. *)

Ending == {"putting", "clearing", "closing"}

\* Phases behind the collecting.
Later == {"remove", "lift", "publish", "replacing", "place", "finish"}

\* Who has entered the library holds its lock, and nobody is at work in a
\* service that is down.
Mutex ==
    /\ act["settler"].pc \in Ending \union {"idle", "waiting"}
    /\ \A a \in Actor : act[a].pc \notin {"idle", "claimed", "waiting"} => lock = a
    /\ mode = "down" => ~signal /\ \A a \in Actor : act[a].pc = "idle"

\* What the checkpoint says of the added files is what the executor knows, or
\* less where its last operation is not yet saved or its attempt has failed.
ExecutorRecorded ==
    /\ me.dirty => me.pc \in Phase
    /\ me.pc # "idle" => /\ ckpt.staged \subseteq me.mem.staged
                         /\ ckpt.published \subseteq me.mem.published
    /\ me.pc \notin Ending \union {"idle", "failing"} /\ ~me.dirty =>
          /\ ckpt.staged = me.mem.staged
          /\ ckpt.published = me.mem.published

\* The settlement of a cancelled edit changes none of it.
SettlerRecorded ==
    act["settler"].pc \in Ending =>
        /\ ckpt.staged = act["settler"].mem.staged
        /\ ckpt.published = act["settler"].mem.published

\* An added file is in the folder, or was lifted from it.
Published(i) == \/ \E p \in Path : at[p] = i
                \/ \E m \in Move : lift[m] = i

\* Then it has no copy, and the checkpoint says that it is published, or the
\* file is at its path and the checkpoint says that it was collected.
Recognised ==
    \A i \in Item : Published(i) =>
        /\ copy[i] = Nothing
        /\ \/ i \in ckpt.published
           \/ i \in ckpt.staged /\ at[Target[i]] = i

Collected(i) == \/ i \in me.mem.published
                \/ i \in me.mem.staged /\ copy[i] = i

\* Behind the collecting, every added file is collected or published.
CollectedFirst ==
    /\ me.pc = "stage" => \A i \in Item \ me.todo : Collected(i)
    /\ me.pc \in Later => \A i \in Item : Collected(i)

\* A copy in the staging folder is the item's own.
OwnCopies == \A i \in Item : copy[i] \in {i, Nothing}

IInv ==
    /\ TypeOK
    /\ OwnCopies
    /\ Mutex
    /\ ExecutorRecorded
    /\ SettlerRecorded
    /\ Recognised
    /\ CollectedFirst

-----------------------------------------------------------------------------
(* What the executor and the settlement know. *)

\* act holds local states.
Acts == act \in [Actor -> Local]

\* The executor goes on to its next file.
LEMMA SkipEffect ==
    ASSUME Acts, NEW x, Skip(x)
    PROVE  /\ Acts'
           /\ act'["settler"] = act["settler"]
           /\ me'.pc = me.pc
           /\ me'.mem = me.mem
           /\ me'.todo = me.todo \ {x}
           /\ me'.dirty = me.dirty
  BY DEF Acts, Skip, Actor, Local, me

\* It did something it has to record.
LEMMA DidEffect ==
    ASSUME Acts, NEW x, NEW mem \in Checkpoint, Did(x, mem)
    PROVE  /\ Acts'
           /\ act'["settler"] = act["settler"]
           /\ me'.pc = me.pc
           /\ me'.mem = mem
           /\ me'.todo = me.todo \ {x}
           /\ me'.dirty = TRUE
  BY DEF Acts, Did, Actor, Local, me

\* Its attempt fails.
LEMMA FailsEffect ==
    ASSUME Acts, NEW outcome \in {"queued", "failed"}, FailsAs(outcome)
    PROVE  /\ Acts'
           /\ act'["settler"] = act["settler"]
           /\ me'.pc = "failing"
           /\ me'.mem = me.mem
           /\ me'.dirty = FALSE
  BY DEF Acts, FailsAs, Actor, Local, PC, me

\* Somebody puts lifted files back.
LEMMA PuttingBackEffect ==
    ASSUME NEW l \in Local, NEW outcome \in {"none", "queued", "failed"}
    PROVE  /\ PuttingBack(l, outcome) \in Local
           /\ PuttingBack(l, outcome).pc \in Ending
           /\ PuttingBack(l, outcome).mem = l.mem
           /\ PuttingBack(l, outcome).dirty = l.dirty
  <1> DEFINE next == CASE l.mem.lifted # {}                      -> "putting"
                       [] l.mem.lifted = {} /\ outcome = "queued" -> "closing"
                       [] OTHER                                  -> "clearing"
  <1>1. next \in Ending
    BY DEF Ending
  <1>2. PuttingBack(l, outcome) =
           [l EXCEPT !.pc = next, !.todo = l.mem.lifted \ l.mem.placed, !.kept = {}, !.then = outcome]
    BY DEF PuttingBack
  <1> HIDE DEF next
  <1>3. next \in PC
    BY <1>1 DEF Ending, PC
  <1>4. l.mem.lifted \ l.mem.placed \in SUBSET (Item \union Move \union Removal)
    BY DEF Local, Checkpoint
  <1>5. PuttingBack(l, outcome) \in Local
    BY <1>2, <1>3, <1>4 DEF Local
  <1> QED
    BY <1>1, <1>2, <1>5 DEF Local

\* The checkpoint may grow.
LEMMA CheckpointUpdates ==
    ASSUME NEW mem \in Checkpoint
    PROVE  /\ \A i \in Item : [mem EXCEPT !.published = @ \union {i}] \in Checkpoint
           /\ \A i \in Item : [mem EXCEPT !.staged = @ \union {i}] \in Checkpoint
           /\ \A p \in Removal : [mem EXCEPT !.removed = @ \union {p}] \in Checkpoint
           /\ \A m \in Move : [mem EXCEPT !.lifted = @ \union {m}] \in Checkpoint
           /\ \A m \in Move : [mem EXCEPT !.placed = @ \union {m}] \in Checkpoint
           /\ \A m \in Move : [mem EXCEPT !.lifted = @ \ {m}] \in Checkpoint
  BY DEF Checkpoint

\* What it says of the added files.
LEMMA CheckpointFields ==
    ASSUME NEW mem \in Checkpoint
    PROVE  /\ \A i \in Item : [mem EXCEPT !.published = @ \union {i}].published = mem.published \union {i}
           /\ \A i \in Item : [mem EXCEPT !.published = @ \union {i}].staged = mem.staged
           /\ \A i \in Item : [mem EXCEPT !.staged = @ \union {i}].published = mem.published
           /\ \A i \in Item : [mem EXCEPT !.staged = @ \union {i}].staged = mem.staged \union {i}
           /\ \A p \in Removal : [mem EXCEPT !.removed = @ \union {p}].published = mem.published
           /\ \A p \in Removal : [mem EXCEPT !.removed = @ \union {p}].staged = mem.staged
           /\ \A m \in Move : [mem EXCEPT !.lifted = @ \union {m}].published = mem.published
           /\ \A m \in Move : [mem EXCEPT !.lifted = @ \union {m}].staged = mem.staged
           /\ \A m \in Move : [mem EXCEPT !.placed = @ \union {m}].published = mem.published
           /\ \A m \in Move : [mem EXCEPT !.placed = @ \union {m}].staged = mem.staged
  BY DEF Checkpoint

\* A rename publishes a copy, or fails.
Renamed(i) ==
    /\ Acts'
    /\ act'["settler"] = act["settler"]
    /\ me'.pc = "publish"
    /\ me'.mem = [me.mem EXCEPT !.published = @ \union {i}]
    /\ me'.todo = me.todo \ {i}
    /\ me'.dirty = TRUE

\* It fails and nothing moves, or it succeeds where the path is free.
LEMMA RenameEffect ==
    ASSUME Acts, NEW i \in Item, PublishRename(i)
    PROVE  \/ Fails /\ UNCHANGED <<at, copy>>
           \/ /\ at[Target[i]] = Nothing
              /\ at' = [at EXCEPT ![Target[i]] = copy[i]]
              /\ copy' = [copy EXCEPT ![i] = Nothing]
              /\ Renamed(i)
  <1>1. CASE at[Target[i]] # Nothing
    BY <1>1 DEF PublishRename
  <1>2. CASE at[Target[i]] = Nothing
    <2> DEFINE mem == [me.mem EXCEPT !.published = @ \union {i}]
    <2>1. mem \in Checkpoint
      BY CheckpointUpdates DEF Acts, Actor, Local, me
    <2>2. act' = [act EXCEPT !["executor"] =
                    [me EXCEPT !.pc = "publish", !.todo = @ \ {i}, !.mem = mem, !.dirty = TRUE]]
      BY <1>2 DEF PublishRename, Acts, Actor, Local, Checkpoint, me
    <2>3. "publish" \in PC
      BY DEF PC, Phase
    <2> HIDE DEF mem
    <2>4. Acts' /\ act'["settler"] = act["settler"] /\ me'.pc = "publish"
          /\ me'.mem = mem /\ me'.todo = me.todo \ {i} /\ me'.dirty = TRUE
      BY <2>1, <2>2, <2>3 DEF Acts, Actor, Local, me
    <2> QED
      BY <1>2, <2>4 DEF Renamed, PublishRename, mem
  <1> QED  BY <1>1, <1>2

\* Nobody at work, and one that waits.
LEMMA IdleLocal ==
    /\ Idle \in Local /\ Idle.pc = "idle" /\ Idle.dirty = FALSE
    /\ Waiting \in Local /\ Waiting.pc = "waiting" /\ Waiting.dirty = FALSE
    /\ Idle.mem = NoCheckpoint
  BY DEF Idle, Waiting, Local, NoCheckpoint, Checkpoint, PC

-----------------------------------------------------------------------------
(* Types. *)

\* What the executor knows is a checkpoint, and it may be anything.
LEMMA ActsStep ==
    ASSUME Acts, ckpt \in Checkpoint, Next
    PROVE  Acts'
  <1>1. act["executor"] \in Local /\ act["settler"] \in Local /\ me \in Local
    BY DEF Acts, Actor, me
  <1>2. me.mem \in Checkpoint
    BY <1>1 DEF Local
  <1>3. CASE Claim
    <2>1. [Idle EXCEPT !.pc = "claimed", !.mem = ckpt] \in Local
      BY IdleLocal DEF Local, PC
    <2> QED  BY <1>3, <2>1 DEF Claim, Acts
  <1>4. CASE Activate \/ EnterLibrary
    BY <1>4 DEF Activate, EnterLibrary, Acts, Actor, Local, PC, Phase
  <1>5. CASE GiveUpLibrary
    BY <1>1, <1>5, IdleLocal DEF GiveUpLibrary, Acts
  <1>6. CASE SaveCheckpoint
    BY <1>6 DEF SaveCheckpoint, Acts, Actor, Local
  <1>7. ASSUME NEW phase \in Phase, NextPhase(phase)
        PROVE  Acts'
    <2>1. After(phase) \in PC /\ Loop(After(phase)) \subseteq Item \union Move \union Removal
      BY DEF After, Loop, PC, Phase
    <2> QED  BY <1>7, <2>1 DEF NextPhase, Acts, Actor, Local
  <1>8. CASE SaveRefused
    BY <1>8, FailsEffect DEF SaveRefused, Fails
  <1>9. ASSUME NEW phase \in Phase \union {"finish"}, PhaseRefused(phase) \/ StepFails(phase)
        PROVE  Acts'
    BY <1>9, FailsEffect DEF PhaseRefused, StepFails, Fails
  <1>10. ASSUME NEW i \in Item, Stage(i)
         PROVE  Acts'
    BY <1>2, <1>10, SkipEffect, DidEffect, FailsEffect, CheckpointUpdates DEF Stage, Fails
  <1>11. ASSUME NEW p \in Removal, Remove(p)
         PROVE  Acts'
    BY <1>2, <1>11, SkipEffect, DidEffect, FailsEffect, CheckpointUpdates DEF Remove, Fails
  <1>12. ASSUME NEW m \in Move, Lift(m) \/ Place(m)
         PROVE  Acts'
    BY <1>2, <1>12, SkipEffect, DidEffect, FailsEffect, CheckpointUpdates DEF Lift, Place, Fails
  <1>13. ASSUME NEW i \in Item, PublishReplacing(i)
         PROVE  Acts'
    BY <1>13, RenameEffect, FailsEffect DEF PublishReplacing, Renamed, Fails
  <1>14. ASSUME NEW i \in Item, Publish(i)
         PROVE  Acts'
    <2>1. CASE act' = [act EXCEPT !["executor"].pc = "replacing"]
      BY <2>1 DEF Acts, Actor, Local, PC
    <2>2. CASE Skip(i) \/ Fails \/ PublishRename(i)
      BY <2>2, SkipEffect, RenameEffect, FailsEffect DEF Renamed, Fails
    <2> QED  BY <1>14, <2>1, <2>2 DEF Publish
  <1>15. CASE Finish
    BY <1>15 DEF Finish, Acts, Actor, Local, PC
  <1>16. CASE Failing
    BY <1>1, <1>16, PuttingBackEffect, IdleLocal DEF Failing, Acts
  <1>17. CASE SettlerEnters
    <2>1. [Idle EXCEPT !.mem = ckpt] \in Local
      BY IdleLocal DEF Local
    <2> QED  BY <1>17, <2>1, PuttingBackEffect DEF SettlerEnters, Acts
  <1>18. ASSUME NEW a \in Actor, NEW m \in Move, PutBack(a, m)
         PROVE  Acts'
    <2>1. \/ act' = [act EXCEPT ![a].todo = @ \ {m}, ![a].mem.lifted = @ \ {m}]
          \/ act' = [act EXCEPT ![a].todo = @ \ {m}, ![a].kept = @ \union {m}]
      BY <1>18 DEF PutBack
    <2> QED  BY <2>1 DEF Acts, Local, Checkpoint
  <1>19. ASSUME NEW a \in Actor, SavePutBack(a) \/ Clear(a) \/ Close(a)
         PROVE  Acts'
    <2>1. \/ \E pc \in PC : act' = [act EXCEPT ![a].pc = pc]
          \/ act' = [act EXCEPT ![a] = Idle]
      BY <1>19 DEF SavePutBack, Clear, Close, PC
    <2> QED  BY <2>1, IdleLocal DEF Acts, Local
  <1>20. CASE Signal \/ Start \/ Stop \/ Crash
    BY <1>1, <1>20, IdleLocal DEF Signal, Start, Stop, Crash, Acts
  <1>21. CASE CancelRun \/ Retry \/ Exit \/ \E p \in Path : Appear(p)
    BY <1>21 DEF CancelRun, Retry, Exit, Appear, Acts
  <1> QED
    BY <1>3, <1>4, <1>5, <1>6, <1>7, <1>8, <1>9, <1>10, <1>11, <1>12, <1>13, <1>14, <1>15, <1>16,
       <1>17, <1>18, <1>19, <1>20, <1>21
    DEF Next, ExecutorStep, SettlementStep, Environment

\* Budgets are spent, never overdrawn.
LEMMA SpendEffect ==
    ASSUME left \in [Occasion -> Nat], NEW o \in Occasion, Spend(o)
    PROVE  left' \in [Occasion -> Nat]
  BY DEF Spend

Statuses == Open \union {"succeeded", "failed", "cancelled"}

\* A release queues or fails a running job.
LEMMA ReleaseEffect ==
    ASSUME left \in [Occasion -> Nat], status \in Statuses, NEW spent \in {0, 1}, Release(spent)
    PROVE  left' \in [Occasion -> Nat] /\ status' \in Statuses
  <1>1. "resume" \in Occasion /\ left["resume"] \in Nat
    BY DEF Occasion
  <1>2. CASE left["resume"] > 0 /\ left' = [left EXCEPT !["resume"] = @ - spent]
    <2>1. left["resume"] - spent \in Nat
      BY <1>1, <1>2
    <2> QED  BY <1>2, <2>1 DEF Release, Statuses, Open
  <1>3. CASE left' = left
    BY <1>3 DEF Release, Statuses, Open
  <1> QED  BY <1>2, <1>3 DEF Release

\* The files: a file moves, or a copy or a file of somebody else arrives.
Disk ==
    /\ at \in [Path -> File \union {Nothing}]
    /\ lift \in [Move -> File \union {Nothing}]
    /\ copy \in [Item -> Item \union {Nothing}]

\* The plan, as far as the proofs use it.
LEMMA Constants ==
    /\ Nothing \in File \union {Nothing}
    /\ Item \subseteq File /\ Move \subseteq File /\ Foreign \in File
    /\ Src \in [Move -> Path] /\ Dst \in [Move -> Path] /\ Target \in [Item -> Path]
    /\ Removal \subseteq Path
    /\ Nothing \notin Item
    /\ Foreign \notin Item
    /\ \A p \in Path : Before[p] \notin Item
    /\ \A i, j \in Item : i # j => Target[i] # Target[j]
  BY FolderEditAssumption DEF File

\* Every place keeps a file or nothing.
LEMMA DiskStep ==
    ASSUME Disk, Next
    PROVE  Disk'
  <1>1. CASE UNCHANGED disk
    BY <1>1 DEF Disk, disk
  <1>2. ASSUME NEW i \in Item, Stage(i)
        PROVE  Disk'
    <2>1. UNCHANGED <<at, lift>> /\ (copy' = copy \/ copy' = [copy EXCEPT ![i] = i])
      BY <1>2 DEF Stage
    <2> QED  BY <2>1 DEF Disk
  <1>3. ASSUME NEW p \in Removal, Remove(p)
        PROVE  Disk'
    <2>1. UNCHANGED <<lift, copy>> /\ (at' = at \/ at' = [at EXCEPT ![p] = Nothing])
      BY <1>3 DEF Remove
    <2> QED  BY <2>1 DEF Disk
  <1>4. ASSUME NEW m \in Move, Lift(m)
        PROVE  Disk'
    <2>1. \/ UNCHANGED <<at, lift>>
          \/ lift' = [lift EXCEPT ![m] = at[Src[m]]] /\ at' = [at EXCEPT ![Src[m]] = Nothing]
      BY <1>4 DEF Lift
    <2>2. copy' = copy /\ Src[m] \in Path
      BY <1>4, Constants DEF Lift
    <2> QED  BY <2>1, <2>2 DEF Disk
  <1>5. ASSUME NEW i \in Item, Publish(i) \/ PublishReplacing(i)
        PROVE  Disk'
    <2>1. \/ UNCHANGED <<at, copy>>
          \/ UNCHANGED copy /\ at' = [at EXCEPT ![Target[i]] = Nothing]
          \/ at' = [at EXCEPT ![Target[i]] = copy[i]] /\ copy' = [copy EXCEPT ![i] = Nothing]
      BY <1>5 DEF Publish, PublishReplacing, PublishRename
    <2>2. lift' = lift /\ Target[i] \in Path /\ Item \subseteq File
      BY <1>5, Constants DEF Publish, PublishReplacing
    <2> QED  BY <2>1, <2>2 DEF Disk
  <1>6. ASSUME NEW m \in Move, NEW p \in Path, UNCHANGED copy,
               \/ UNCHANGED <<at, lift>>
               \/ at' = [at EXCEPT ![p] = lift[m]] /\ lift' = [lift EXCEPT ![m] = Nothing]
        PROVE  Disk'
    BY <1>6 DEF Disk
  <1>7. ASSUME NEW m \in Move, Place(m)
        PROVE  Disk'
    <2>1. UNCHANGED copy /\ Dst[m] \in Path
      BY <1>7, Constants DEF Place
    <2> QED  BY <1>6, <1>7, <2>1 DEF Place
  <1>8. ASSUME NEW a \in Actor, NEW m \in Move, PutBack(a, m)
        PROVE  Disk'
    <2>1. UNCHANGED copy /\ Src[m] \in Path
      BY <1>8, Constants DEF PutBack
    <2> QED  BY <1>6, <1>8, <2>1 DEF PutBack
  <1>9. ASSUME NEW a \in Actor, Clear(a)
        PROVE  Disk'
    BY <1>9 DEF Clear, Disk
  <1>10. ASSUME NEW p \in Path, Appear(p)
         PROVE  Disk'
    BY <1>10, Constants DEF Appear, Disk
  <1> QED
    BY <1>1, <1>2, <1>3, <1>4, <1>5, <1>7, <1>8, <1>9, <1>10
    DEF Next, ExecutorStep, SettlementStep, Environment, disk,
        Claim, Activate, EnterLibrary, GiveUpLibrary, SaveCheckpoint, SaveRefused, NextPhase,
        PhaseRefused, Finish, Failing, SettlerEnters, SavePutBack, Close, CancelRun, Retry,
        Stop, Crash, StepFails, Signal, Exit, Start

\* The run: its status, its checkpoint, its context, its lock and its budgets.
Run ==
    /\ status \in Statuses
    /\ ckpt \in Checkpoint
    /\ ctx \in {"live", "cancelled", "stopped"}
    /\ lock \in Actor \union {"none"}
    /\ signal \in BOOLEAN
    /\ mode \in {"up", "stopping", "down"}
    /\ left \in [Occasion -> Nat]

\* Every step writes a status, a checkpoint and budgets of the right kind.
LEMMA RunStep ==
    ASSUME Acts, Run, Next
    PROVE  Run'
  <1>1. \A o \in Occasion : Spend(o) => left' \in [Occasion -> Nat]
    BY SpendEffect DEF Run
  <1>2. \A spent \in {0, 1} : Release(spent) => left' \in [Occasion -> Nat] /\ status' \in Statuses
    BY ReleaseEffect DEF Run
  <1>3. \A a \in Actor : act[a] \in Local
    BY DEF Acts
  <1>4. CASE Claim \/ EnterLibrary \/ Finish
    BY <1>4 DEF Claim, EnterLibrary, Finish, Run, Statuses, Open, Actor
  <1>5. CASE GiveUpLibrary
    BY <1>2, <1>5 DEF GiveUpLibrary, Run, Statuses
  <1>6. CASE SaveCheckpoint
    BY <1>3, <1>6 DEF SaveCheckpoint, Run, Local, Actor, me
  <1>7. CASE UNCHANGED <<status, ckpt, ctx, lock, signal, mode, left>>
    BY <1>7 DEF Run
  <1>8. CASE Failing
    BY <1>1, <1>2, <1>8 DEF Failing, Run, Occasion
  <1>9. CASE SettlerEnters
    BY <1>9 DEF SettlerEnters, Run, Actor
  <1>10. ASSUME NEW a \in Actor, SavePutBack(a) \/ Close(a)
         PROVE  Run'
    <2>1. act[a].mem \in Checkpoint /\ act[a].then \in {"none", "queued", "failed"}
      BY <1>3 DEF Local
    <2> QED  BY <1>10, <2>1 DEF SavePutBack, Close, Run, Statuses, Open
  <1>11. CASE CancelRun \/ Retry
    BY <1>1, <1>11 DEF CancelRun, Retry, Run, Occasion, Statuses, Open
  <1>12. CASE Signal \/ Exit
    BY <1>12 DEF Signal, Exit, Run
  <1>13. CASE Stop
    BY <1>1, <1>13 DEF Stop, Run, Occasion
  <1>14. CASE Crash
    <2>1. left' \in [Occasion -> Nat]
      BY <1>1, <1>14 DEF Crash, Occasion
    <2> QED  BY <1>14, <2>1 DEF Crash, Run
  <1>15. CASE Start
    BY <1>2, <1>15 DEF Start, Run
  <1>16. ASSUME NEW p \in Path, Appear(p)
         PROVE  Run'
    BY <1>1, <1>16 DEF Appear, Run, Occasion
  <1>17. ASSUME NEW phase \in Phase \union {"finish"}, StepFails(phase)
         PROVE  Run'
    BY <1>1, <1>17 DEF StepFails, Run, Occasion
  <1> QED
    BY <1>4, <1>5, <1>6, <1>7, <1>8, <1>9, <1>10, <1>11, <1>12, <1>13, <1>14, <1>15, <1>16, <1>17
    DEF Next, ExecutorStep, SettlementStep, Environment, disk,
        Activate, SaveRefused, NextPhase, PhaseRefused, Stage, Remove, Lift, Publish,
        PublishReplacing, Place, PutBack, Clear

\* The type invariant has three parts.
LEMMA TypesSplit == TypeOK <=> Acts /\ Disk /\ Run
  BY DEF TypeOK, Acts, Disk, Run, Statuses

\* They hold at first,
LEMMA TypeInit == Init => TypeOK
  <1> SUFFICES ASSUME Init PROVE TypeOK
    OBVIOUS
  <1>1. Acts
    BY IdleLocal DEF Init, Acts
  <1>2. Disk
    BY FolderEditAssumption DEF Init, Disk
  <1>3. Run
    BY FolderEditAssumption DEF Init, Run, Statuses, Open, NoCheckpoint, Checkpoint
  <1> QED  BY <1>1, <1>2, <1>3, TypesSplit

\* and in every step.
LEMMA TypeStep ==
    ASSUME TypeOK, [Next]_vars
    PROVE  TypeOK'
  <1>1. Acts /\ Disk /\ Run
    BY TypesSplit
  <1>2. ASSUME Next PROVE TypeOK'
    <2>1. Acts' /\ Disk' /\ Run'
      BY <1>1, <1>2, ActsStep, DiskStep, RunStep DEF Run
    <2> QED  BY <2>1 DEF TypeOK, Acts, Disk, Run, Statuses
  <1>3. CASE UNCHANGED vars
    BY <1>3 DEF vars, disk, TypeOK
  <1> QED  BY <1>2, <1>3

\* Every state of a folder edit keeps its types: the checkpoint names only
\* files of the plan, every path and every lifted place holds a file somebody
\* brought, and no budget is overdrawn.
THEOREM TypeCorrect == Spec => []TypeOK
  <1> QED  BY TypeInit, TypeStep, PTL DEF Spec

-----------------------------------------------------------------------------
(* Taking turns. *)

\* One that holds the library works on, and may leave it to the other.
LEMMA TurnKept ==
    ASSUME Mutex, NEW a \in Actor, act[a].pc \notin {"idle", "claimed", "waiting"},
           \A b \in Actor : b # a => act'[b] = act[b],
           UNCHANGED <<mode, signal>>,
           a = "settler" => act'[a].pc \in Ending \union {"idle"},
           lock' = lock \/ act'[a].pc = "idle"
    PROVE  Mutex'
  <1>1. mode # "down" /\ \A b \in Actor : b # a => act[b].pc \in {"idle", "claimed", "waiting"}
    BY DEF Mutex
  <1>2. act'["settler"].pc \in Ending \union {"idle", "waiting"}
    BY DEF Mutex, Actor
  <1>3. \A b \in Actor : act'[b].pc \notin {"idle", "claimed", "waiting"} => lock' = b
    BY <1>1 DEF Mutex
  <1> QED  BY <1>1, <1>2, <1>3 DEF Mutex

\* The executor is at work in the library.
AtWork ==
    \/ SaveCheckpoint \/ SaveRefused \/ Finish
    \/ \E phase \in Phase : NextPhase(phase)
    \/ \E phase \in Phase \union {"finish"} : PhaseRefused(phase) \/ StepFails(phase)
    \/ \E i \in Item : Stage(i) \/ Publish(i) \/ PublishReplacing(i)
    \/ \E p \in Removal : Remove(p)
    \/ \E m \in Move : Lift(m) \/ Place(m)

\* Then it is behind the lock, and touches neither the lock nor the settlement.
LEMMA AtWorkEffect ==
    ASSUME Acts, ExecutorRecorded, AtWork
    PROVE  /\ me.pc \in Phase \union {"replacing", "finish"}
           /\ act'["settler"] = act["settler"]
           /\ UNCHANGED <<lock, mode, signal>>
  <1>1. me.pc \in Phase \union {"replacing", "finish"}
    BY DEF AtWork, SaveCheckpoint, SaveRefused, Finish, NextPhase, PhaseRefused, StepFails, Stage,
           Publish, PublishReplacing, Remove, Lift, Place, In, ExecutorRecorded, Phase
  <1>2. UNCHANGED <<lock, mode, signal>>
    BY DEF AtWork, SaveCheckpoint, SaveRefused, Finish, NextPhase, PhaseRefused, StepFails, Stage,
           Publish, PublishReplacing, Remove, Lift, Place
  <1>3. "settler" \in Actor /\ "executor" \in Actor
    BY DEF Actor
  <1>4. ASSUME NEW x, NEW mem, \/ Skip(x) \/ Did(x, mem)
        PROVE  act'["settler"] = act["settler"]
    BY <1>3, <1>4 DEF Skip, Did, Acts
  <1>5. ASSUME NEW x, \/ PublishRename(x) \/ Fails \/ \E outcome \in {"queued", "failed"} : FailsAs(outcome)
        PROVE  act'["settler"] = act["settler"]
    BY <1>3, <1>5 DEF Fails, FailsAs, PublishRename, Acts
  <1>6. CASE SaveCheckpoint \/ Finish
    BY <1>1, <1>2, <1>3, <1>6 DEF SaveCheckpoint, Finish, Acts
  <1>7. CASE \E phase \in Phase : NextPhase(phase)
    BY <1>1, <1>2, <1>3, <1>7 DEF NextPhase, Acts
  <1>8. CASE SaveRefused \/ \E phase \in Phase \union {"finish"} : PhaseRefused(phase) \/ StepFails(phase)
    BY <1>1, <1>2, <1>5, <1>8 DEF SaveRefused, PhaseRefused, StepFails
  <1>9. ASSUME NEW i \in Item, Stage(i) \/ PublishReplacing(i)
        PROVE  act'["settler"] = act["settler"]
    <2>1. CASE Stage(i)
      BY <1>4, <1>5, <2>1 DEF Stage
    <2>2. CASE PublishReplacing(i)
      BY <1>5, <2>2 DEF PublishReplacing
    <2> QED  BY <1>9, <2>1, <2>2
  <1>10. ASSUME NEW i \in Item, Publish(i)
         PROVE  act'["settler"] = act["settler"]
    <2>1. CASE act' = [act EXCEPT !["executor"].pc = "replacing"]
      BY <1>3, <2>1 DEF Acts
    <2> QED  BY <1>4, <1>5, <1>10, <2>1 DEF Publish
  <1>11. CASE \E p \in Removal : Remove(p)
    BY <1>1, <1>2, <1>4, <1>5, <1>11 DEF Remove
  <1>12. CASE \E m \in Move : Lift(m)
    BY <1>1, <1>2, <1>4, <1>5, <1>12 DEF Lift
  <1>13. CASE \E m \in Move : Place(m)
    BY <1>1, <1>2, <1>4, <1>5, <1>13 DEF Place
  <1> QED  BY <1>1, <1>2, <1>6, <1>7, <1>8, <1>9, <1>10, <1>11, <1>12, <1>13 DEF AtWork

\* Turns are taken in every step.
LEMMA MutexStep ==
    ASSUME Acts, ExecutorRecorded, Mutex, Next
    PROVE  Mutex'
  <1>1. "executor" \in Actor /\ "settler" \in Actor /\ me \in Local
        /\ \A a \in Actor : a = "executor" \/ a = "settler"
    BY DEF Acts, Actor, me
  <1>2. ASSUME me.pc \notin {"idle", "claimed", "waiting"}, act'["settler"] = act["settler"],
               UNCHANGED <<lock, mode, signal>>
        PROVE  Mutex'
    BY <1>1, <1>2, TurnKept DEF me
  <1>3. ASSUME UNCHANGED <<act, lock, mode>>, mode # "down" \/ UNCHANGED signal
        PROVE  Mutex'
    BY <1>3 DEF Mutex
  <1>4. CASE Claim
    <2>1. act'["settler"] = act["settler"] /\ act'["executor"].pc = "claimed"
      BY <1>1, <1>4 DEF Claim, Acts, Idle
    <2> QED  BY <1>1, <1>4, <2>1 DEF Claim, Mutex
  <1>5. CASE Activate
    <2>1. act'["settler"] = act["settler"] /\ act'["executor"].pc = "waiting"
      BY <1>1, <1>5 DEF Activate, Acts, Local, me
    <2>2. mode # "down"
      BY <1>1, <1>5 DEF Activate, Mutex, me
    <2> QED  BY <1>1, <1>5, <2>1, <2>2 DEF Activate, Mutex
  <1>6. CASE EnterLibrary
    <2>1. act'["settler"] = act["settler"]
      BY <1>1, <1>6 DEF EnterLibrary, Acts
    <2>2. mode # "down" /\ act["settler"].pc \in {"idle", "waiting"}
      BY <1>1, <1>6 DEF EnterLibrary, Mutex, Ending, me
    <2> QED  BY <1>1, <1>6, <2>1, <2>2 DEF EnterLibrary, Mutex
  <1>7. CASE GiveUpLibrary
    <2>1. /\ act'["executor"].pc = "idle"
          /\ act'["settler"] = act["settler"] \/ act'["settler"].pc = "waiting"
      BY <1>1, <1>7, IdleLocal DEF GiveUpLibrary, Acts
    <2>2. mode # "down"
      BY <1>1, <1>7 DEF GiveUpLibrary, Mutex, me
    <2> QED  BY <1>1, <1>7, <2>1, <2>2 DEF GiveUpLibrary, Mutex
  <1>8. ASSUME AtWork
        PROVE  Mutex'
    BY <1>2, <1>8, AtWorkEffect DEF Phase
  <1>9. CASE Failing
    <2>1. act'["settler"] = act["settler"]
      BY <1>1, <1>9 DEF Failing, Acts
    <2>2. lock' = lock \/ act'["executor"].pc = "idle"
      BY <1>1, <1>9, IdleLocal DEF Failing, Acts
    <2>3. me.pc \notin {"idle", "claimed", "waiting"} /\ UNCHANGED <<mode, signal>>
      BY <1>9 DEF Failing
    <2> QED  BY <1>1, <2>1, <2>2, <2>3, TurnKept DEF me
  <1>10. CASE SettlerEnters
    <2>1. act'["executor"] = act["executor"] /\ act'["settler"].pc \in Ending
      BY <1>1, <1>10 DEF SettlerEnters, Acts, PuttingBack, Ending, Idle
    <2>2. mode # "down" /\ act["executor"].pc \in {"idle", "claimed", "waiting"}
      BY <1>1, <1>10 DEF SettlerEnters, Mutex
    <2> QED  BY <1>1, <1>10, <2>1, <2>2 DEF SettlerEnters, Mutex, Ending
  <1>11. ASSUME NEW a \in Actor, NEW m \in Move, PutBack(a, m)
         PROVE  Mutex'
    <2>1. act'[a].pc = "putting" /\ \A b \in Actor : b # a => act'[b] = act[b]
      BY <1>11 DEF PutBack, Acts, Local
    <2>2. act[a].pc = "putting" /\ UNCHANGED <<lock, mode, signal>>
      BY <1>11 DEF PutBack
    <2> QED  BY <2>1, <2>2, TurnKept DEF Ending
  <1>12. ASSUME NEW a \in Actor, SavePutBack(a) \/ Clear(a) \/ Close(a)
         PROVE  Mutex'
    <2>1. \A b \in Actor : b # a => act'[b] = act[b]
      BY <1>12 DEF SavePutBack, Clear, Close, Acts
    <2>2. /\ act'[a].pc \in Ending \union {"idle"}
          /\ lock' = lock \/ act'[a].pc = "idle"
      BY <1>12, IdleLocal DEF SavePutBack, Clear, Close, Acts, Local, Ending
    <2>3. act[a].pc \in Ending /\ UNCHANGED <<mode, signal>>
      BY <1>12 DEF SavePutBack, Clear, Close, Ending
    <2> QED  BY <2>1, <2>2, <2>3, TurnKept DEF Ending
  <1>13. CASE Signal
    <2>1. /\ act'["executor"] = act["executor"]
          /\ \/ act'["settler"] = act["settler"]
             \/ act["settler"].pc = "idle" /\ act'["settler"].pc = "waiting"
      <3>1. CASE act' = act
        BY <3>1
      <3>2. CASE mode = "up" /\ act["settler"].pc = "idle" /\ act' = [act EXCEPT !["settler"] = Waiting]
        BY <1>1, <3>2, IdleLocal DEF Acts
      <3> QED  BY <1>13, <3>1, <3>2 DEF Signal
    <2>2. mode # "down" /\ UNCHANGED <<lock, mode>>
      BY <1>13 DEF Signal, Mutex
    <2> QED  BY <1>1, <2>1, <2>2 DEF Mutex
  <1>14. CASE Exit
    BY <1>14 DEF Exit, Mutex
  <1>15. CASE Start
    <2>1. /\ act'["executor"] = act["executor"]
          /\ act'["settler"] = act["settler"] \/ act'["settler"].pc = "waiting"
      BY <1>1, <1>15, IdleLocal DEF Start, Acts
    <2> QED  BY <1>1, <1>15, <2>1 DEF Start, Mutex
  <1>16. CASE Stop
    <2>1. /\ act'["executor"] = act["executor"]
          /\ act'["settler"] = act["settler"] \/ act'["settler"].pc = "idle"
      BY <1>1, <1>16, IdleLocal DEF Stop, Acts
    <2> QED  BY <1>1, <1>16, <2>1 DEF Stop, Mutex
  <1>17. CASE Crash
    <2>1. \A a \in Actor : act'[a].pc = "idle"
      BY <1>17, IdleLocal DEF Crash
    <2> QED  BY <1>1, <1>17, <2>1 DEF Crash, Mutex
  <1>18. CASE CancelRun \/ Retry \/ \E p \in Path : Appear(p)
    BY <1>3, <1>18 DEF CancelRun, Retry, Appear
  <1> QED
    BY <1>4, <1>5, <1>6, <1>7, <1>8, <1>9, <1>10, <1>11, <1>12, <1>13, <1>14, <1>15, <1>16,
       <1>17, <1>18
    DEF Next, ExecutorStep, SettlementStep, Environment, AtWork

-----------------------------------------------------------------------------
(* What the checkpoint says. *)

\* Nobody else saves a checkpoint while the settlement puts files back.
LEMMA SettlerRecordedStep ==
    ASSUME Acts, Mutex, ExecutorRecorded, SettlerRecorded, Next
    PROVE  SettlerRecorded'
  <1>1. "executor" \in Actor /\ "settler" \in Actor /\ me \in Local /\ act["settler"] \in Local
        /\ \A a \in Actor : a = "executor" \/ a = "settler"
    BY DEF Acts, Actor, me
  <1>2. ASSUME UNCHANGED ckpt, act'["settler"] = act["settler"]
        PROVE  SettlerRecorded'
    BY <1>2 DEF SettlerRecorded
  <1>3. ASSUME act'["settler"].pc \notin Ending
        PROVE  SettlerRecorded'
    BY <1>3 DEF SettlerRecorded
  <1>4. ASSUME lock = "executor", act'["settler"] = act["settler"]
        PROVE  SettlerRecorded'
    BY <1>1, <1>4 DEF Mutex, Ending, SettlerRecorded
  <1>5. CASE AtWork
    BY <1>1, <1>4, <1>5, AtWorkEffect DEF Mutex, Phase, me
  <1>6. CASE Claim \/ Activate \/ EnterLibrary
    BY <1>1, <1>2, <1>6 DEF Claim, Activate, EnterLibrary, Acts
  <1>7. CASE Failing
    BY <1>1, <1>2, <1>7 DEF Failing, Acts
  <1>8. CASE GiveUpLibrary
    <2>1. act'["settler"] = act["settler"] \/ act'["settler"].pc = "waiting"
      BY <1>1, <1>8, IdleLocal DEF GiveUpLibrary, Acts
    <2> QED  BY <1>2, <1>3, <1>8, <2>1 DEF GiveUpLibrary, Ending
  <1>9. CASE SettlerEnters
    <2> DEFINE l == [Idle EXCEPT !.mem = ckpt]
    <2>1. act'["settler"] = PuttingBack(l, "none") /\ UNCHANGED ckpt
      BY <1>1, <1>9 DEF SettlerEnters, Acts
    <2>2. PuttingBack(l, "none").mem = ckpt
      BY DEF PuttingBack, Idle
    <2> QED  BY <2>1, <2>2 DEF SettlerRecorded
  <1>10. ASSUME NEW a \in Actor, NEW m \in Move, PutBack(a, m)
         PROVE  SettlerRecorded'
    <2>1. CASE a = "executor"
      BY <1>1, <1>2, <1>10, <2>1 DEF PutBack, Acts
    <2>2. CASE a = "settler"
      <3>1. UNCHANGED ckpt /\ act["settler"].pc \in Ending
        BY <1>10, <2>2 DEF PutBack, Ending
      <3>2. /\ act'["settler"].mem.staged = act["settler"].mem.staged
            /\ act'["settler"].mem.published = act["settler"].mem.published
        BY <1>1, <1>10, <2>2 DEF PutBack, Acts, Local, Checkpoint
      <3> QED  BY <3>1, <3>2 DEF SettlerRecorded
    <2> QED  BY <1>1, <2>1, <2>2
  <1>11. CASE SavePutBack("executor")
    <2>1. act'["settler"] = act["settler"] /\ lock = "executor"
      BY <1>1, <1>11 DEF SavePutBack, Acts, Mutex
    <2> QED  BY <1>4, <2>1
  <1>12. CASE SavePutBack("settler")
    <2>1. ckpt' = act["settler"].mem /\ act'["settler"].mem = act["settler"].mem
      BY <1>1, <1>12 DEF SavePutBack, Acts, Local
    <2> QED  BY <2>1 DEF SettlerRecorded
  <1>13. CASE Clear("executor") \/ Close("executor")
    BY <1>1, <1>2, <1>13 DEF Clear, Close, Acts
  <1>14. CASE Clear("settler")
    <2>1. UNCHANGED ckpt /\ act'["settler"].mem = act["settler"].mem /\ act["settler"].pc \in Ending
      BY <1>1, <1>14 DEF Clear, Acts, Local, Ending
    <2> QED  BY <2>1 DEF SettlerRecorded
  <1>15. CASE Close("settler")
    BY <1>1, <1>3, <1>15, IdleLocal DEF Close, Acts, Ending
  <1>16. CASE Signal \/ Start \/ Stop
    <2>1. UNCHANGED ckpt
      BY <1>16 DEF Signal, Start, Stop
    <2>2. \/ act' = act
          \/ \E l \in {Idle, Waiting} : act' = [act EXCEPT !["settler"] = l]
          \/ act' = [act EXCEPT !["settler"] = act["settler"]]
      BY <1>16 DEF Signal, Start, Stop
    <2>3. act'["settler"] = act["settler"] \/ act'["settler"].pc \in {"idle", "waiting"}
      BY <1>1, <2>2, IdleLocal DEF Acts
    <2> QED  BY <1>2, <1>3, <2>1, <2>3 DEF Ending
  <1>17. CASE Crash
    BY <1>1, <1>3, <1>17, IdleLocal DEF Crash, Ending
  <1>18. CASE CancelRun \/ Retry \/ Exit \/ \E p \in Path : Appear(p)
    BY <1>2, <1>18 DEF CancelRun, Retry, Exit, Appear
  <1> QED
    BY <1>1, <1>5, <1>6, <1>7, <1>8, <1>9, <1>10, <1>11, <1>12, <1>13, <1>14, <1>15, <1>16,
       <1>17, <1>18
    DEF Next, ExecutorStep, SettlementStep, Environment, AtWork

\* What the executor knows of the added files only grows, and it is saved before
\* the next operation.
LEMMA ExecutorRecordedStep ==
    ASSUME Acts, Mutex, ckpt \in Checkpoint, ExecutorRecorded, SettlerRecorded, Next
    PROVE  ExecutorRecorded'
  <1>1. "executor" \in Actor /\ "settler" \in Actor /\ me \in Local /\ me.mem \in Checkpoint
        /\ \A a \in Actor : a = "executor" \/ a = "settler"
    BY DEF Acts, Actor, Local, me
  <1>2. ASSUME UNCHANGED <<ckpt, me>>
        PROVE  ExecutorRecorded'
    BY <1>2 DEF ExecutorRecorded, me
  <1>3. ASSUME me'.pc = "idle", me'.dirty = FALSE
        PROVE  ExecutorRecorded'
    BY <1>3 DEF ExecutorRecorded, me
  \* Steps that learn nothing.
  <1>4. ASSUME UNCHANGED ckpt, me'.mem = me.mem, me.pc # "idle", me'.dirty = me.dirty,
               me'.dirty => me'.pc \in Phase,
               \/ me'.pc \in Ending \union {"failing"}
               \/ me.pc \notin Ending \union {"failing"}
        PROVE  ExecutorRecorded'
    BY <1>4 DEF ExecutorRecorded, me
  <1>5. ASSUME UNCHANGED ckpt, me.pc # "idle", NEW outcome \in {"queued", "failed"}, FailsAs(outcome)
        PROVE  ExecutorRecorded'
    <2>1. me'.pc = "failing" /\ me'.mem = me.mem /\ me'.dirty = FALSE
      BY <1>5, FailsEffect
    <2> QED  BY <1>5, <2>1 DEF ExecutorRecorded, me
  \* Steps that leave something to be saved.
  <1>6. ASSUME UNCHANGED ckpt, me.pc # "idle", me'.dirty = TRUE, me'.pc \in Phase,
               me.mem.staged \subseteq me'.mem.staged, me.mem.published \subseteq me'.mem.published
        PROVE  ExecutorRecorded'
    BY <1>6 DEF ExecutorRecorded, Ending, Phase, me
  <1>7. ASSUME UNCHANGED ckpt, me.pc # "idle", ~me.dirty, NEW x, Skip(x)
        PROVE  ExecutorRecorded'
    <2>1. me'.pc = me.pc /\ me'.mem = me.mem /\ me'.dirty = me.dirty
      BY <1>7, SkipEffect
    <2> QED  BY <1>7, <2>1, <1>4 DEF ExecutorRecorded, me
  <1>8. ASSUME UNCHANGED ckpt, me.pc \in Phase, NEW x, NEW mem \in Checkpoint, Did(x, mem),
               me.mem.staged \subseteq mem.staged, me.mem.published \subseteq mem.published
        PROVE  ExecutorRecorded'
    <2>1. me'.pc = me.pc /\ me'.mem = mem /\ me'.dirty = TRUE
      BY <1>8, DidEffect
    <2> QED  BY <1>6, <1>8, <2>1 DEF Phase
  <1>9. CASE Claim
    <2>1. me'.pc = "claimed" /\ me'.mem = ckpt /\ me'.dirty = FALSE
      BY <1>1, <1>9 DEF Claim, Acts, Idle, me
    <2> QED  BY <1>9, <2>1 DEF Claim, ExecutorRecorded, me
  <1>10. CASE Activate
    <2>1. me'.mem = me.mem /\ me'.dirty = me.dirty /\ me'.pc = "waiting" /\ me.pc = "claimed"
      BY <1>1, <1>10 DEF Activate, Acts, Local, me
    <2> QED  BY <1>4, <1>10, <2>1 DEF Activate, ExecutorRecorded, Phase, Ending
  <1>11. CASE EnterLibrary
    BY <1>1, <1>4, <1>11 DEF EnterLibrary, ExecutorRecorded, Acts, Local, Phase, Ending, me
  <1>12. CASE GiveUpLibrary
    BY <1>1, <1>3, <1>12, IdleLocal DEF GiveUpLibrary, Acts, me
  <1>13. CASE SaveCheckpoint
    <2>1. me'.mem = me.mem /\ me'.pc = me.pc /\ me'.dirty = FALSE /\ ckpt' = me.mem
      BY <1>1, <1>13 DEF SaveCheckpoint, Acts, Local, me
    <2> QED  BY <2>1 DEF ExecutorRecorded, me
  <1>14. CASE SaveRefused
    BY <1>5, <1>14 DEF SaveRefused, Fails
  <1>15. ASSUME NEW phase \in Phase, NextPhase(phase)
         PROVE  ExecutorRecorded'
    <2>1. me'.mem = me.mem /\ me'.dirty = me.dirty /\ ~me.dirty /\ me.pc \in Phase /\ UNCHANGED ckpt
      BY <1>1, <1>15 DEF NextPhase, In, Acts, Local, me
    <2> QED  BY <1>4, <2>1 DEF Phase, Ending
  <1>16. ASSUME NEW phase \in Phase \union {"finish"}, PhaseRefused(phase) \/ StepFails(phase)
         PROVE  ExecutorRecorded'
    BY <1>5, <1>16 DEF PhaseRefused, StepFails, Fails, In, Phase
  <1>17. ASSUME NEW i \in Item, Stage(i)
         PROVE  ExecutorRecorded'
    <2>1. UNCHANGED ckpt /\ me.pc = "stage" /\ ~me.dirty
      BY <1>17 DEF Stage, In
    <2>2. \/ Fails \/ Skip(i)
          \/ Did(i, [me.mem EXCEPT !.published = @ \union {i}])
          \/ Did(i, [me.mem EXCEPT !.staged = @ \union {i}])
      BY <1>17 DEF Stage
    <2>3. CASE Did(i, [me.mem EXCEPT !.published = @ \union {i}])
      <3> DEFINE mem == [me.mem EXCEPT !.published = @ \union {i}]
      <3>1. /\ mem \in Checkpoint
            /\ me.mem.staged \subseteq mem.staged /\ me.mem.published \subseteq mem.published
        BY <1>1, <1>17, CheckpointUpdates, CheckpointFields
      <3> HIDE DEF mem
      <3>2. me.pc \in Phase /\ Did(i, mem)
        BY <2>1, <2>3 DEF Phase, mem
      <3> QED  BY <1>8, <2>1, <3>1, <3>2
    <2>4. CASE Did(i, [me.mem EXCEPT !.staged = @ \union {i}])
      <3> DEFINE mem == [me.mem EXCEPT !.staged = @ \union {i}]
      <3>1. /\ mem \in Checkpoint
            /\ me.mem.staged \subseteq mem.staged /\ me.mem.published \subseteq mem.published
        BY <1>1, <1>17, CheckpointUpdates, CheckpointFields
      <3> HIDE DEF mem
      <3>2. me.pc \in Phase /\ Did(i, mem)
        BY <2>1, <2>4 DEF Phase, mem
      <3> QED  BY <1>8, <2>1, <3>1, <3>2
    <2> QED  BY <1>5, <1>7, <2>1, <2>2, <2>3, <2>4 DEF Fails
  <1>18. ASSUME NEW p \in Removal, Remove(p)
         PROVE  ExecutorRecorded'
    <2>1. UNCHANGED ckpt /\ me.pc = "remove" /\ ~me.dirty
      BY <1>18 DEF Remove, In
    <2>2. \/ Fails \/ Skip(p)
          \/ Did(p, [me.mem EXCEPT !.removed = @ \union {p}])
      BY <1>18 DEF Remove
    <2>3. CASE Did(p, [me.mem EXCEPT !.removed = @ \union {p}])
      BY <1>1, <1>8, <2>1, <2>3, CheckpointUpdates, CheckpointFields DEF Phase
    <2> QED  BY <1>5, <1>7, <2>1, <2>2, <2>3 DEF Fails
  <1>19. ASSUME NEW m \in Move, Lift(m) \/ Place(m)
         PROVE  ExecutorRecorded'
    <2>1. UNCHANGED ckpt /\ me.pc \in {"lift", "place"} /\ ~me.dirty
      BY <1>19 DEF Lift, Place, In
    <2>2. \/ Fails \/ Skip(m)
          \/ Did(m, [me.mem EXCEPT !.lifted = @ \union {m}])
          \/ Did(m, [me.mem EXCEPT !.placed = @ \union {m}])
      BY <1>19 DEF Lift, Place
    <2>3. CASE Did(m, [me.mem EXCEPT !.lifted = @ \union {m}])
      <3> DEFINE mem == [me.mem EXCEPT !.lifted = @ \union {m}]
      <3>1. mem \in Checkpoint /\ mem.staged = me.mem.staged /\ mem.published = me.mem.published
        BY <1>1, <1>19, CheckpointUpdates, CheckpointFields
      <3> HIDE DEF mem
      <3>2. me.pc \in Phase /\ Did(m, mem)
        BY <2>1, <2>3 DEF Phase, mem
      <3> QED  BY <1>8, <2>1, <3>1, <3>2
    <2>4. CASE Did(m, [me.mem EXCEPT !.placed = @ \union {m}])
      <3> DEFINE mem == [me.mem EXCEPT !.placed = @ \union {m}]
      <3>1. mem \in Checkpoint /\ mem.staged = me.mem.staged /\ mem.published = me.mem.published
        BY <1>1, <1>19, CheckpointUpdates, CheckpointFields
      <3> HIDE DEF mem
      <3>2. me.pc \in Phase /\ Did(m, mem)
        BY <2>1, <2>4 DEF Phase, mem
      <3> QED  BY <1>8, <2>1, <3>1, <3>2
    <2> QED  BY <1>5, <1>7, <2>1, <2>2, <2>3, <2>4 DEF Fails
  <1>20. ASSUME NEW i \in Item, PublishRename(i), UNCHANGED ckpt, me.pc \in {"publish", "replacing"}
         PROVE  ExecutorRecorded'
    <2>1. Fails \/ Renamed(i)
      BY <1>20, RenameEffect
    <2>2. CASE Renamed(i)
      <3>1. me'.mem.staged = me.mem.staged /\ me'.mem.published = me.mem.published \union {i}
        BY <1>1, <2>2, CheckpointFields DEF Renamed
      <3>2. me'.dirty = TRUE /\ me'.pc \in Phase /\ me.pc # "idle"
        BY <1>20, <2>2 DEF Renamed, Phase
      <3> QED  BY <1>6, <1>20, <3>1, <3>2
    <2> QED  BY <1>5, <1>20, <2>1, <2>2 DEF Fails
  <1>21. ASSUME NEW i \in Item, PublishReplacing(i)
         PROVE  ExecutorRecorded'
    BY <1>20, <1>21 DEF PublishReplacing
  <1>22. ASSUME NEW i \in Item, Publish(i)
         PROVE  ExecutorRecorded'
    <2>1. UNCHANGED ckpt /\ me.pc = "publish" /\ ~me.dirty
      BY <1>22 DEF Publish, In
    <2>2. CASE act' = [act EXCEPT !["executor"].pc = "replacing"]
      <3>1. me'.mem = me.mem /\ me'.dirty = me.dirty
        BY <1>1, <2>2 DEF Acts, Local, me
      <3> QED  BY <1>4, <2>1, <3>1 DEF Ending
    <2> QED  BY <1>5, <1>7, <1>20, <1>22, <2>1, <2>2 DEF Publish, Fails
  <1>23. CASE Finish
    <2>1. UNCHANGED ckpt /\ me.pc = "finish" /\ ~me.dirty
      BY <1>23 DEF Finish, In
    <2>2. me'.mem = me.mem /\ me'.dirty = me.dirty /\ me'.pc = "clearing"
      BY <1>1, <1>23 DEF Finish, Acts, Local, me
    <2> QED  BY <1>4, <2>1, <2>2 DEF Ending
  <1>24. CASE Failing
    <2>1. UNCHANGED ckpt /\ me.pc = "failing" /\ ~me.dirty
      BY <1>24 DEF Failing, ExecutorRecorded, Phase
    <2>2. \/ act' = [act EXCEPT !["executor"] = Idle]
          \/ \E outcome \in {"none", "queued", "failed"} :
                act' = [act EXCEPT !["executor"] = PuttingBack(me, outcome)]
      BY <1>24 DEF Failing
    <2>3. CASE act' = [act EXCEPT !["executor"] = Idle]
      BY <1>1, <1>3, <2>3, IdleLocal DEF Acts, me
    <2>4. ASSUME NEW outcome \in {"none", "queued", "failed"},
                 act' = [act EXCEPT !["executor"] = PuttingBack(me, outcome)]
          PROVE  ExecutorRecorded'
      <3>1. me' = PuttingBack(me, outcome)
        BY <1>1, <2>4 DEF Acts, me
      <3> QED  BY <1>1, <1>4, <2>1, <3>1, PuttingBackEffect
    <2> QED  BY <2>2, <2>3, <2>4
  <1>25. CASE SettlerEnters \/ Clear("settler") \/ Close("settler") \/ \E m \in Move : PutBack("settler", m)
    BY <1>1, <1>2, <1>25 DEF SettlerEnters, Clear, Close, PutBack, Acts, me
  <1>26. CASE SavePutBack("settler")
    <2>1. me' = me /\ ckpt' = act["settler"].mem /\ act["settler"].pc \in Ending
      BY <1>1, <1>26 DEF SavePutBack, Acts, Ending, me
    <2>2. ckpt'.staged = ckpt.staged /\ ckpt'.published = ckpt.published
      BY <2>1 DEF SettlerRecorded
    <2> QED  BY <2>1, <2>2 DEF ExecutorRecorded, me
  <1>27. ASSUME NEW m \in Move, PutBack("executor", m)
         PROVE  ExecutorRecorded'
    <2>1. /\ me'.mem.staged = me.mem.staged /\ me'.mem.published = me.mem.published
          /\ me'.pc = "putting" /\ me'.dirty = me.dirty
      BY <1>1, <1>27 DEF PutBack, Acts, Local, Checkpoint, me
    <2>2. UNCHANGED ckpt /\ me.pc = "putting"
      BY <1>27 DEF PutBack, me
    <2> QED  BY <2>1, <2>2 DEF ExecutorRecorded, Ending, Phase, me
  <1>28. CASE SavePutBack("executor")
    <2>1. me'.mem = me.mem /\ me'.dirty = me.dirty /\ me'.pc \in Ending /\ ckpt' = me.mem /\ me.pc = "putting"
      BY <1>1, <1>28 DEF SavePutBack, Acts, Local, Ending, me
    <2> QED  BY <2>1 DEF ExecutorRecorded, Phase, me
  <1>29. CASE Clear("executor")
    <2>1. /\ me'.mem = me.mem /\ me'.dirty = me.dirty /\ me'.pc = "closing"
          /\ me.pc = "clearing" /\ UNCHANGED ckpt
      BY <1>1, <1>29 DEF Clear, Acts, Local, me
    <2> QED  BY <1>4, <2>1 DEF ExecutorRecorded, Phase, Ending
  <1>30. CASE Close("executor")
    BY <1>1, <1>3, <1>30, IdleLocal DEF Close, Acts, me
  <1>31. CASE Signal \/ Start \/ Stop
    <2>1. UNCHANGED ckpt
      BY <1>31 DEF Signal, Start, Stop
    <2>2. \/ act' = act
          \/ \E l : act' = [act EXCEPT !["settler"] = l]
      BY <1>31 DEF Signal, Start, Stop
    <2>3. me' = me
      BY <1>1, <2>2 DEF Acts, me
    <2> QED  BY <1>2, <2>1, <2>3
  <1>32. CASE Crash
    BY <1>1, <1>3, <1>32, IdleLocal DEF Crash, me
  <1>33. CASE CancelRun \/ Retry \/ Exit \/ \E p \in Path : Appear(p)
    BY <1>2, <1>33 DEF CancelRun, Retry, Exit, Appear, me
  <1> QED
    BY <1>1, <1>9, <1>10, <1>11, <1>12, <1>13, <1>14, <1>15, <1>16, <1>17, <1>18, <1>19, <1>21, <1>22,
       <1>23, <1>24, <1>25, <1>26, <1>27, <1>28, <1>29, <1>30, <1>31, <1>32, <1>33
    DEF Next, ExecutorStep, SettlementStep, Environment

-----------------------------------------------------------------------------
(* Everything is collected first. *)

\* A copy in the staging folder is the item's own.
LEMMA OwnCopiesStep ==
    ASSUME Disk, OwnCopies, Next
    PROVE  OwnCopies'
  <1>1. CASE UNCHANGED copy
    BY <1>1 DEF OwnCopies
  <1>2. ASSUME NEW i \in Item, Stage(i) \/ Publish(i) \/ PublishReplacing(i)
        PROVE  OwnCopies'
    <2>1. copy' = copy \/ copy' = [copy EXCEPT ![i] = i] \/ copy' = [copy EXCEPT ![i] = Nothing]
      BY <1>2 DEF Stage, Publish, PublishReplacing, PublishRename
    <2> QED  BY <2>1 DEF OwnCopies, Disk
  <1>3. ASSUME NEW a \in Actor, Clear(a)
        PROVE  OwnCopies'
    BY <1>3 DEF Clear, OwnCopies
  <1> QED
    BY <1>1, <1>2, <1>3
    DEF Next, ExecutorStep, SettlementStep, Environment, disk,
        Claim, Activate, EnterLibrary, GiveUpLibrary, SaveCheckpoint, SaveRefused, NextPhase,
        PhaseRefused, Remove, Lift, Place, Finish, Failing, SettlerEnters, PutBack, SavePutBack,
        Close, CancelRun, Retry, Stop, Crash, Appear, StepFails, Signal, Exit, Start

\* The loop of the stage phase leaves only what is collected, the later phases
\* begin when it is empty, and nobody clears the copies meanwhile.
LEMMA CollectedFirstStep ==
    ASSUME Acts, Disk, Mutex, ExecutorRecorded, CollectedFirst, Next
    PROVE  CollectedFirst'
  <1>1. "executor" \in Actor /\ "settler" \in Actor /\ me \in Local /\ me.mem \in Checkpoint
        /\ \A a \in Actor : a = "executor" \/ a = "settler"
    BY DEF Acts, Actor, Local, me
  <1>2. ASSUME me'.pc \notin Later \union {"stage"}
        PROVE  CollectedFirst'
    BY <1>2 DEF CollectedFirst, me
  <1>3. ASSUME UNCHANGED <<copy, me>>
        PROVE  CollectedFirst'
    BY <1>3 DEF CollectedFirst, Collected, me
  \* What is collected stays so, and a file the loop leaves is collected.
  <1>4. ASSUME \/ me'.pc = me.pc
               \/ me.pc \in Later /\ me'.pc \in Later,
               \A i \in Item : Collected(i) => Collected(i)',
               \A i \in Item : me.pc = "stage" /\ i \in me.todo \ me'.todo => Collected(i)'
        PROVE  CollectedFirst'
    <2>1. CASE me.pc \in Later
      <3>1. me'.pc \in Later /\ me'.pc # "stage"
        BY <1>4, <2>1 DEF Later
      <3> QED  BY <1>4, <2>1, <3>1 DEF CollectedFirst, me
    <2>2. CASE me.pc = "stage"
      <3>1. me'.pc = "stage" /\ me'.pc \notin Later
        BY <1>4, <2>2 DEF Later
      <3>2. ASSUME NEW i \in Item, i \notin me'.todo
            PROVE  Collected(i)'
        BY <1>4, <2>2, <3>2 DEF CollectedFirst
      <3> QED  BY <3>1, <3>2 DEF CollectedFirst, me
    <2> QED  BY <1>2, <1>4, <2>1, <2>2
  <1>5. ASSUME NEW outcome \in {"queued", "failed"}, FailsAs(outcome)
        PROVE  CollectedFirst'
    BY <1>2, <1>5, FailsEffect DEF Later
  <1>6. ASSUME NEW x, Skip(x), UNCHANGED copy, me.pc = "stage" => Collected(x)
        PROVE  CollectedFirst'
    <2>1. me'.pc = me.pc /\ me'.mem = me.mem /\ me'.todo = me.todo \ {x}
      BY <1>6, SkipEffect
    <2>2. \A i \in Item : Collected(i) => Collected(i)'
      BY <1>6, <2>1 DEF Collected, me
    <2> QED  BY <1>4, <1>6, <2>1, <2>2
  <1>7. ASSUME NEW x, NEW mem \in Checkpoint, Did(x, mem),
               me.mem.staged \subseteq mem.staged, me.mem.published \subseteq mem.published,
               UNCHANGED copy \/ \E i \in Item : copy' = [copy EXCEPT ![i] = i],
               me.pc = "stage" /\ x \in Item => x \in mem.published \/ (x \in mem.staged /\ copy'[x] = x)
        PROVE  CollectedFirst'
    <2>1. me'.pc = me.pc /\ me'.mem = mem /\ me'.todo = me.todo \ {x}
      BY <1>7, DidEffect
    <2>2. \A i \in Item : copy[i] = i => copy'[i] = i
      BY <1>7 DEF Disk
    <2>3. \A i \in Item : Collected(i) => Collected(i)'
      BY <1>7, <2>1, <2>2 DEF Collected, me
    <2>4. me.pc = "stage" /\ x \in Item => Collected(x)'
      BY <1>7, <2>1 DEF Collected, me
    <2> QED  BY <1>4, <2>1, <2>3, <2>4
  <1>8. CASE Claim \/ Activate
    <2>1. CASE Claim
      BY <1>1, <1>2, <2>1 DEF Claim, Acts, Idle, Later, me
    <2>2. CASE Activate
      BY <1>1, <1>2, <2>2 DEF Activate, Acts, Local, Later, me
    <2> QED  BY <1>8, <2>1, <2>2
  <1>9. CASE EnterLibrary
    <2>1. me'.pc = "stage" /\ me'.todo = Item
      BY <1>1, <1>9 DEF EnterLibrary, Acts, Local, me
    <2> QED  BY <2>1 DEF CollectedFirst, Later, me
  <1>10. CASE GiveUpLibrary
    BY <1>1, <1>2, <1>10, IdleLocal DEF GiveUpLibrary, Acts, Later, me
  <1>11. CASE SaveCheckpoint
    <2>1. me'.mem = me.mem /\ me'.pc = me.pc /\ me'.todo = me.todo /\ UNCHANGED copy
      BY <1>1, <1>11 DEF SaveCheckpoint, Acts, Local, disk, me
    <2>2. \A i \in Item : Collected(i) => Collected(i)'
      BY <2>1 DEF Collected, me
    <2> QED  BY <1>4, <2>1, <2>2
  <1>12. CASE SaveRefused
    BY <1>5, <1>12 DEF SaveRefused, Fails
  <1>13. ASSUME NEW phase \in Phase, NextPhase(phase)
         PROVE  CollectedFirst'
    <2>1. /\ me.pc = phase /\ me.todo = {} /\ UNCHANGED copy
          /\ me'.mem = me.mem /\ me'.pc = After(phase)
      BY <1>1, <1>13 DEF NextPhase, In, Acts, Local, disk, me
    <2>2. After(phase) \in Later /\ After(phase) # "stage"
      BY DEF After, Phase, Later
    <2>3. \A i \in Item : Collected(i)
      BY <2>1 DEF CollectedFirst, Phase, Later
    <2>4. \A i \in Item : Collected(i)'
      BY <2>1, <2>3 DEF Collected, me
    <2> QED  BY <2>1, <2>2, <2>4 DEF CollectedFirst, me
  <1>14. ASSUME NEW phase \in Phase \union {"finish"}, PhaseRefused(phase) \/ StepFails(phase)
         PROVE  CollectedFirst'
    BY <1>5, <1>14 DEF PhaseRefused, StepFails, Fails
  <1>15. ASSUME NEW i \in Item, Stage(i)
         PROVE  CollectedFirst'
    <2>1. \/ Fails /\ UNCHANGED copy
          \/ Did(i, [me.mem EXCEPT !.published = @ \union {i}]) /\ UNCHANGED copy
          \/ /\ i \in me.mem.published \/ (i \in me.mem.staged /\ copy[i] = i)
             /\ Skip(i) /\ UNCHANGED copy
          \/ Did(i, [me.mem EXCEPT !.staged = @ \union {i}]) /\ copy' = [copy EXCEPT ![i] = i]
      BY <1>15 DEF Stage
    <2>2. CASE Did(i, [me.mem EXCEPT !.published = @ \union {i}]) /\ UNCHANGED copy
      <3> DEFINE mem == [me.mem EXCEPT !.published = @ \union {i}]
      <3>1. mem \in Checkpoint /\ mem.staged = me.mem.staged /\ mem.published = me.mem.published \union {i}
        BY <1>1, <1>15, CheckpointUpdates, CheckpointFields
      <3> HIDE DEF mem
      <3>2. Did(i, mem) /\ UNCHANGED copy
        BY <2>2 DEF mem
      <3> QED  BY <1>7, <3>1, <3>2
    <2>3. CASE Did(i, [me.mem EXCEPT !.staged = @ \union {i}]) /\ copy' = [copy EXCEPT ![i] = i]
      <3> DEFINE mem == [me.mem EXCEPT !.staged = @ \union {i}]
      <3>1. mem \in Checkpoint /\ mem.staged = me.mem.staged \union {i} /\ mem.published = me.mem.published
        BY <1>1, <1>15, CheckpointUpdates, CheckpointFields
      <3> HIDE DEF mem
      <3>2. Did(i, mem) /\ copy' = [copy EXCEPT ![i] = i] /\ copy'[i] = i
        BY <1>15, <2>3 DEF mem, Disk
      <3> QED  BY <1>7, <1>15, <3>1, <3>2
    <2> QED  BY <1>5, <1>6, <2>1, <2>2, <2>3 DEF Fails, Collected
  <1>16. ASSUME NEW p \in Removal, Remove(p)
         PROVE  CollectedFirst'
    <2>1. \/ Fails \/ Skip(p)
          \/ Did(p, [me.mem EXCEPT !.removed = @ \union {p}])
      BY <1>16 DEF Remove
    <2>2. me.pc = "remove" /\ UNCHANGED copy
      BY <1>16 DEF Remove, In
    <2>3. CASE Did(p, [me.mem EXCEPT !.removed = @ \union {p}])
      <3> DEFINE mem == [me.mem EXCEPT !.removed = @ \union {p}]
      <3>1. mem \in Checkpoint /\ mem.staged = me.mem.staged /\ mem.published = me.mem.published
        BY <1>1, <1>16, CheckpointUpdates, CheckpointFields
      <3> HIDE DEF mem
      <3>2. Did(p, mem)
        BY <2>3 DEF mem
      <3> QED  BY <1>7, <2>2, <3>1, <3>2
    <2> QED  BY <1>5, <1>6, <2>1, <2>2, <2>3 DEF Fails
  <1>17. ASSUME NEW m \in Move, Lift(m) \/ Place(m)
         PROVE  CollectedFirst'
    <2>1. \/ Fails \/ Skip(m)
          \/ Did(m, [me.mem EXCEPT !.lifted = @ \union {m}])
          \/ Did(m, [me.mem EXCEPT !.placed = @ \union {m}])
      BY <1>17 DEF Lift, Place
    <2>2. me.pc \in {"lift", "place"} /\ UNCHANGED copy
      BY <1>17 DEF Lift, Place, In
    <2>3. ASSUME NEW mem \in Checkpoint, Did(m, mem),
                 mem.staged = me.mem.staged, mem.published = me.mem.published
          PROVE  CollectedFirst'
      BY <1>7, <2>2, <2>3
    <2>4. CASE Did(m, [me.mem EXCEPT !.lifted = @ \union {m}])
      <3> DEFINE mem == [me.mem EXCEPT !.lifted = @ \union {m}]
      <3>1. mem \in Checkpoint /\ mem.staged = me.mem.staged /\ mem.published = me.mem.published
        BY <1>1, <1>17, CheckpointUpdates, CheckpointFields
      <3> QED  BY <2>3, <2>4, <3>1
    <2>5. CASE Did(m, [me.mem EXCEPT !.placed = @ \union {m}])
      <3> DEFINE mem == [me.mem EXCEPT !.placed = @ \union {m}]
      <3>1. mem \in Checkpoint /\ mem.staged = me.mem.staged /\ mem.published = me.mem.published
        BY <1>1, <1>17, CheckpointUpdates, CheckpointFields
      <3> QED  BY <2>3, <2>5, <3>1
    <2> QED  BY <1>5, <1>6, <2>1, <2>2, <2>4, <2>5 DEF Fails
  <1>18. ASSUME NEW i \in Item, PublishRename(i), me.pc \in {"publish", "replacing"}
         PROVE  CollectedFirst'
    <2>1. CASE Renamed(i) /\ copy' = [copy EXCEPT ![i] = Nothing]
      <3>1. me'.mem.staged = me.mem.staged /\ me'.mem.published = me.mem.published \union {i}
        BY <1>1, <2>1, CheckpointFields DEF Renamed
      <3>2. \A k \in Item : k # i => copy'[k] = copy[k]
        BY <2>1 DEF Disk
      <3>3. \A k \in Item : Collected(k) => Collected(k)'
        BY <3>1, <3>2 DEF Collected, me
      <3>4. me.pc \in Later /\ me'.pc \in Later /\ me.pc # "stage"
        BY <1>18, <2>1 DEF Renamed, Later
      <3> QED  BY <1>4, <3>3, <3>4
    <2> QED  BY <1>5, <1>18, <2>1, RenameEffect DEF Fails
  <1>19. ASSUME NEW i \in Item, PublishReplacing(i)
         PROVE  CollectedFirst'
    BY <1>18, <1>19 DEF PublishReplacing
  <1>20. ASSUME NEW i \in Item, Publish(i)
         PROVE  CollectedFirst'
    <2>1. me.pc = "publish"
      BY <1>20 DEF Publish, In
    <2>2. CASE act' = [act EXCEPT !["executor"].pc = "replacing"] /\ UNCHANGED copy
      <3>1. me'.mem = me.mem /\ me'.pc = "replacing"
        BY <1>1, <2>2 DEF Acts, Local, me
      <3>2. \A k \in Item : Collected(k) => Collected(k)'
        BY <2>2, <3>1 DEF Collected, me
      <3> QED  BY <1>4, <2>1, <3>1, <3>2 DEF Later
    <2> QED  BY <1>5, <1>6, <1>18, <1>20, <2>1, <2>2 DEF Publish, Fails
  <1>21. CASE Finish
    <2>1. me'.pc = "clearing"
      BY <1>1, <1>21 DEF Finish, Acts, Local, me
    <2> QED  BY <1>2, <2>1 DEF Later
  <1>22. CASE Failing
    <2>1. \/ act' = [act EXCEPT !["executor"] = Idle]
          \/ \E outcome \in {"none", "queued", "failed"} :
                act' = [act EXCEPT !["executor"] = PuttingBack(me, outcome)]
      BY <1>22 DEF Failing
    <2>2. me'.pc \in Ending \union {"idle"}
      BY <1>1, <2>1, IdleLocal, PuttingBackEffect DEF Acts, me
    <2> QED  BY <1>2, <2>2 DEF Later, Ending
  <1>23. ASSUME NEW a \in Actor,
                Clear(a) \/ Close(a) \/ SavePutBack(a) \/ \E m \in Move : PutBack(a, m)
         PROVE  CollectedFirst'
    <2>1. CASE a = "executor"
      <3>1. CASE Clear(a) \/ SavePutBack(a)
        BY <1>1, <1>2, <2>1, <3>1 DEF Clear, SavePutBack, Acts, Local, Later, me
      <3>2. CASE Close(a)
        BY <1>1, <1>2, <2>1, <3>2, IdleLocal DEF Close, Acts, Later, me
      <3>3. CASE \E m \in Move : PutBack(a, m)
        <4>1. me'.pc = "putting"
          BY <1>1, <2>1, <3>3 DEF PutBack, Acts, Local, me
        <4> QED  BY <1>2, <4>1 DEF Later
      <3> QED  BY <1>23, <3>1, <3>2, <3>3
    <2>2. CASE a = "settler"
      <3>1. me' = me
        BY <1>1, <1>23, <2>2 DEF Clear, Close, SavePutBack, PutBack, Acts, me
      <3>2. me.pc \notin Later \union {"stage"}
        BY <1>1, <1>23, <2>2 DEF Clear, Close, SavePutBack, PutBack, Mutex, Later, me
      <3> QED  BY <1>2, <3>1, <3>2
    <2> QED  BY <1>1, <2>1, <2>2
  <1>24. CASE SettlerEnters
    BY <1>1, <1>3, <1>24 DEF SettlerEnters, Acts, disk, me
  <1>25. CASE Signal \/ Start \/ Stop
    <2>1. UNCHANGED copy
      BY <1>25 DEF Signal, Start, Stop, disk
    <2>2. \/ act' = act
          \/ \E l : act' = [act EXCEPT !["settler"] = l]
      BY <1>25 DEF Signal, Start, Stop
    <2>3. me' = me
      BY <1>1, <2>2 DEF Acts, me
    <2> QED  BY <1>3, <2>1, <2>3
  <1>26. CASE Crash
    BY <1>1, <1>2, <1>26, IdleLocal DEF Crash, Later, me
  <1>27. CASE CancelRun \/ Retry \/ Exit \/ \E p \in Path : Appear(p)
    BY <1>3, <1>27 DEF CancelRun, Retry, Exit, Appear, disk, me
  <1> QED
    BY <1>8, <1>9, <1>10, <1>11, <1>12, <1>13, <1>14, <1>15, <1>16, <1>17, <1>19, <1>20, <1>21, <1>22,
       <1>23, <1>24, <1>25, <1>26, <1>27
    DEF Next, ExecutorStep, SettlementStep, Environment

-----------------------------------------------------------------------------
(* Published files are recognised. *)

\* Behind the collecting, the saved checkpoint names every added file that is
\* in the folder.
LEMMA AllRecorded ==
    ASSUME ExecutorRecorded, Recognised, CollectedFirst, me.pc \in Later, ~me.dirty,
           NEW i \in Item, Published(i)
    PROVE  i \in ckpt.published
  <1>1. copy[i] # i
    BY Constants DEF Recognised
  <1>2. i \in me.mem.published
    BY <1>1 DEF CollectedFirst, Collected
  <1> QED
    BY <1>2 DEF ExecutorRecorded, Later, Ending

\* The folder and the lifted files stay, copies go, and the checkpoint learns.
LEMMA FolderStays ==
    ASSUME Recognised, UNCHANGED <<at, lift>>,
           \A i \in Item : copy'[i] \in {copy[i], Nothing},
           ckpt.staged \subseteq ckpt'.staged, ckpt.published \subseteq ckpt'.published
    PROVE  Recognised'
  <1>1. \A i \in Item : Published(i)' => Published(i)
    BY DEF Published
  <1> QED
    BY <1>1 DEF Recognised

\* A file leaves its path when every added file in the folder is recorded.
LEMMA FileLeaves ==
    ASSUME Recognised, UNCHANGED <<copy, ckpt>>,
           \A i \in Item : Published(i)' => Published(i) /\ i \in ckpt.published
    PROVE  Recognised'
  BY DEF Recognised

\* A lifted file is renamed to a free path.
LEMMA FileReturns ==
    ASSUME Disk, Recognised, UNCHANGED <<copy, ckpt>>, NEW m \in Move, NEW p \in Path,
           at[p] = Nothing,
           at' = [at EXCEPT ![p] = lift[m]], lift' = [lift EXCEPT ![m] = Nothing]
    PROVE  Recognised'
  <1> SUFFICES ASSUME NEW i \in Item, Published(i)'
               PROVE  /\ copy'[i] = Nothing
                      /\ \/ i \in ckpt'.published
                         \/ i \in ckpt'.staged /\ at'[Target[i]] = i
    BY DEF Recognised
  <1>1. i # Nothing /\ Target[i] \in Path
    BY Constants
  <1>2. Published(i)
    <2>1. CASE \E q \in Path : at'[q] = i
      <3>1. PICK q \in Path : at'[q] = i
        BY <2>1
      <3>2. at[q] = i \/ lift[m] = i
        BY <3>1 DEF Disk
      <3> QED  BY <3>2 DEF Published
    <2>2. CASE \E n \in Move : lift'[n] = i
      <3>1. PICK n \in Move : lift'[n] = i
        BY <2>2
      <3>2. lift[n] = i
        BY <1>1, <3>1 DEF Disk
      <3> QED  BY <3>2 DEF Published
    <2> QED  BY <2>1, <2>2 DEF Published
  <1>3. at[Target[i]] = i => at'[Target[i]] = i
    BY <1>1 DEF Disk
  <1> QED  BY <1>2, <1>3 DEF Recognised

\* A file is collected only where none was published, is published from its
\* copy, and leaves its path only when the checkpoint names it.
LEMMA RecognisedStep ==
    ASSUME Acts, Disk, Run, OwnCopies, Mutex, ExecutorRecorded, SettlerRecorded,
           Recognised, CollectedFirst, Next
    PROVE  Recognised'
  <1>1. "executor" \in Actor /\ "settler" \in Actor
        /\ \A a \in Actor : a = "executor" \/ a = "settler"
    BY DEF Actor
  <1>2. CASE UNCHANGED <<at, lift, copy, ckpt>>
    BY <1>2, FolderStays
  <1>3. CASE SaveCheckpoint
    <2>1. me.pc # "idle" /\ ckpt' = me.mem /\ UNCHANGED <<at, lift, copy>>
      BY <1>3 DEF SaveCheckpoint, ExecutorRecorded, Phase, disk
    <2> QED  BY <2>1, FolderStays DEF ExecutorRecorded
  <1>4. ASSUME NEW a \in Actor, SavePutBack(a)
        PROVE  Recognised'
    <2>1. act[a].pc = "putting" /\ ckpt' = act[a].mem /\ UNCHANGED <<at, lift, copy>>
      BY <1>4 DEF SavePutBack, disk
    <2>2. ckpt.staged \subseteq act[a].mem.staged /\ ckpt.published \subseteq act[a].mem.published
      BY <1>1, <2>1 DEF ExecutorRecorded, SettlerRecorded, Ending, me
    <2> QED  BY <2>1, <2>2, FolderStays
  <1>5. ASSUME NEW a \in Actor, Clear(a)
        PROVE  Recognised'
    <2>1. \A i \in Item : Published(i)' => Published(i)
      BY <1>5, Constants DEF Clear, Published
    <2> QED  BY <1>5, <2>1 DEF Clear, Recognised
  <1>6. ASSUME NEW i \in Item, Stage(i), copy' = [copy EXCEPT ![i] = i]
        PROVE  Recognised'
    <2>1. UNCHANGED <<at, lift, ckpt>> /\ me.pc = "stage" /\ ~me.dirty
      BY <1>6 DEF Stage, In
    <2>2. CASE copy[i] = i
      <3>1. copy' = copy
        BY <1>6, <2>2 DEF Disk
      <3> QED  BY <2>1, <3>1, FolderStays
    <2>3. CASE copy[i] = Nothing
      <3>1. /\ i \notin me.mem.published
            /\ ~(i \in me.mem.staged /\ at[Target[i]] # Nothing)
        BY <1>6, <2>3, Constants DEF Stage, MissingCopy, Skip, Disk
      <3>2. ~Published(i)
        BY <2>1, <3>1, Constants DEF Recognised, ExecutorRecorded, Ending
      <3>3. \A k \in Item : Published(k)' => Published(k) /\ k # i
        BY <2>1, <3>2 DEF Published
      <3>4. \A k \in Item : k # i => copy'[k] = copy[k]
        BY <1>6 DEF Disk
      <3> QED  BY <2>1, <3>3, <3>4 DEF Recognised
    <2> QED  BY <2>2, <2>3 DEF OwnCopies
  <1>7. ASSUME NEW i \in Item, Stage(i)
        PROVE  Recognised'
    <2>1. UNCHANGED copy \/ copy' = [copy EXCEPT ![i] = i]
      BY <1>7 DEF Stage
    <2>2. UNCHANGED <<at, lift, ckpt>>
      BY <1>7 DEF Stage
    <2> QED  BY <1>2, <1>6, <1>7, <2>1, <2>2
  <1>8. ASSUME NEW p \in Removal, Remove(p)
        PROVE  Recognised'
    <2>1. UNCHANGED <<lift, copy, ckpt>> /\ me.pc = "remove" /\ ~me.dirty
      BY <1>8 DEF Remove, In
    <2>2. CASE at' = [at EXCEPT ![p] = Nothing]
      <3>1. \A i \in Item : Published(i)' => Published(i)
        BY <2>1, <2>2, Constants DEF Published, Disk
      <3> QED  BY <2>1, <3>1, AllRecorded, FileLeaves DEF Later
    <2>3. at' = at \/ at' = [at EXCEPT ![p] = Nothing]
      BY <1>8 DEF Remove
    <2> QED  BY <1>2, <2>1, <2>2, <2>3
  <1>9. ASSUME NEW m \in Move, Lift(m)
        PROVE  Recognised'
    <2>1. UNCHANGED <<copy, ckpt>> /\ me.pc = "lift" /\ ~me.dirty /\ Src[m] \in Path
      BY <1>9, Constants DEF Lift, In
    <2>2. CASE lift' = [lift EXCEPT ![m] = at[Src[m]]] /\ at' = [at EXCEPT ![Src[m]] = Nothing]
      <3>1. ASSUME NEW i \in Item, Published(i)'
            PROVE  Published(i)
        <4>1. i # Nothing
          BY Constants
        <4>2. \A q \in Path : at'[q] = i => at[q] = i
          BY <2>2, <4>1 DEF Disk
        <4>3. \A n \in Move : lift'[n] = i => lift[n] = i \/ at[Src[m]] = i
          BY <2>2 DEF Disk
        <4> QED  BY <2>1, <3>1, <4>2, <4>3 DEF Published
      <3> QED  BY <2>1, <3>1, AllRecorded, FileLeaves DEF Later
    <2>3. \/ UNCHANGED <<at, lift>>
          \/ lift' = [lift EXCEPT ![m] = at[Src[m]]] /\ at' = [at EXCEPT ![Src[m]] = Nothing]
      BY <1>9 DEF Lift
    <2> QED  BY <1>2, <2>1, <2>2, <2>3
  <1>10. ASSUME NEW i \in Item, PublishRename(i), UNCHANGED <<lift, ckpt>>,
                me.pc \in Later, ~me.dirty
         PROVE  Recognised'
    <2>1. CASE UNCHANGED <<at, copy>>
      BY <1>2, <1>10, <2>1
    <2>2. CASE /\ at[Target[i]] = Nothing
               /\ at' = [at EXCEPT ![Target[i]] = copy[i]]
               /\ copy' = [copy EXCEPT ![i] = Nothing]
      <3> SUFFICES ASSUME NEW k \in Item, Published(k)'
                   PROVE  /\ copy'[k] = Nothing
                          /\ \/ k \in ckpt'.published
                             \/ k \in ckpt'.staged /\ at'[Target[k]] = k
        BY DEF Recognised
      <3>1. k # Nothing /\ Target[k] \in Path /\ Target[i] \in Path /\ copy[i] \in {i, Nothing}
        BY Constants DEF OwnCopies
      <3>2. Published(k) \/ (k = i /\ copy[i] = i)
        <4>1. CASE \E q \in Path : at'[q] = k
          <5>1. PICK q \in Path : at'[q] = k
            BY <4>1
          <5>2. at[q] = k \/ copy[i] = k
            BY <2>2, <5>1 DEF Disk
          <5> QED  BY <3>1, <5>2 DEF Published
        <4>2. CASE \E n \in Move : lift'[n] = k
          BY <1>10, <4>2 DEF Published
        <4> QED  BY <4>1, <4>2 DEF Published
      <3>3. CASE Published(k)
        <4>1. k \in ckpt.published
          BY <1>10, <3>3, AllRecorded
        <4>2. copy[k] = Nothing
          BY <3>3 DEF Recognised
        <4> QED  BY <1>10, <2>2, <4>1, <4>2 DEF Disk
      <3>4. CASE k = i /\ copy[i] = i
        <4>1. copy'[k] = Nothing /\ at'[Target[k]] = k
          BY <2>2, <3>1, <3>4 DEF Disk
        <4>2. k \in me.mem.published \/ k \in me.mem.staged
          BY <1>10 DEF CollectedFirst, Collected
        <4>3. ckpt.staged = me.mem.staged /\ ckpt.published = me.mem.published
          BY <1>10 DEF ExecutorRecorded, Later, Ending
        <4> QED  BY <1>10, <4>1, <4>2, <4>3
      <3> QED  BY <3>2, <3>3, <3>4
    <2> QED  BY <1>10, <2>1, <2>2 DEF PublishRename
  <1>11. ASSUME NEW i \in Item, PublishReplacing(i)
         PROVE  Recognised'
    <2>1. me.pc = "replacing" /\ ~me.dirty
      BY <1>11 DEF PublishReplacing, ExecutorRecorded, Phase
    <2> QED  BY <1>10, <1>11, <2>1 DEF PublishReplacing, Later
  <1>12. ASSUME NEW i \in Item, Publish(i)
         PROVE  Recognised'
    <2>1. UNCHANGED <<lift, ckpt>> /\ me.pc = "publish" /\ ~me.dirty
      BY <1>12 DEF Publish, In
    <2>2. CASE at' = [at EXCEPT ![Target[i]] = Nothing] /\ UNCHANGED copy
      <3>1. \A k \in Item : Published(k)' => Published(k)
        BY <2>1, <2>2, Constants DEF Published, Disk
      <3> QED  BY <2>1, <2>2, <3>1, AllRecorded, FileLeaves DEF Later
    <2>3. \/ UNCHANGED <<at, copy>>
          \/ at' = [at EXCEPT ![Target[i]] = Nothing] /\ UNCHANGED copy
          \/ PublishRename(i)
      BY <1>12 DEF Publish
    <2> QED  BY <1>2, <1>10, <2>1, <2>2, <2>3 DEF Later
  <1>13. ASSUME NEW m \in Move, Place(m)
         PROVE  Recognised'
    <2>1. UNCHANGED <<copy, ckpt>> /\ Dst[m] \in Path
      BY <1>13, Constants DEF Place
    <2> QED  BY <1>2, <1>13, <2>1, FileReturns DEF Place
  <1>14. ASSUME NEW a \in Actor, NEW m \in Move, PutBack(a, m)
         PROVE  Recognised'
    <2>1. UNCHANGED <<copy, ckpt>> /\ Src[m] \in Path
      BY <1>14, Constants DEF PutBack
    <2> QED  BY <1>2, <1>14, <2>1, FileReturns DEF PutBack
  <1>15. ASSUME NEW p \in Path, Appear(p)
         PROVE  Recognised'
    <2>1. /\ at[p] = Nothing /\ at' = [at EXCEPT ![p] = Foreign]
          /\ UNCHANGED <<lift, copy, ckpt>>
      BY <1>15 DEF Appear
    <2>2. \A i \in Item : /\ Published(i)' => Published(i)
                          /\ at[Target[i]] = i => at'[Target[i]] = i
      BY <2>1, Constants DEF Published, Disk
    <2> QED  BY <2>1, <2>2 DEF Recognised
  <1> QED
    BY <1>2, <1>3, <1>4, <1>5, <1>7, <1>8, <1>9, <1>11, <1>12, <1>13, <1>14, <1>15
    DEF Next, ExecutorStep, SettlementStep, Environment, disk,
        Claim, Activate, EnterLibrary, GiveUpLibrary, SaveRefused, NextPhase, PhaseRefused,
        Finish, Failing, SettlerEnters, Close, CancelRun, Retry, Stop, Crash, StepFails,
        Signal, Exit, Start

-----------------------------------------------------------------------------
(* Theorems. *)

\* The invariant holds at first,
LEMMA InitInvariant == Init => IInv
  <1> SUFFICES ASSUME Init PROVE IInv
    OBVIOUS
  <1>1. TypeOK
    BY TypeInit
  <1>2. OwnCopies
    BY DEF Init, OwnCopies
  <1>3. \A a \in Actor : act[a] = Idle
    BY DEF Init
  <1>4. me = Idle /\ act["settler"] = Idle
    BY <1>3 DEF Actor, me
  <1>5. Mutex
    BY <1>3, <1>4, IdleLocal DEF Init, Mutex
  <1>6. ExecutorRecorded /\ SettlerRecorded /\ CollectedFirst
    BY <1>4, IdleLocal DEF ExecutorRecorded, SettlerRecorded, CollectedFirst, Ending, Later
  <1>7. \A i \in Item : ~Published(i)
    BY Constants DEF Init, Published
  <1> QED
    BY <1>1, <1>2, <1>5, <1>6, <1>7 DEF IInv, Recognised

\* and in every step.
LEMMA StepInvariant ==
    ASSUME IInv, [Next]_vars
    PROVE  IInv'
  <1>1. TypeOK' /\ Acts /\ Disk /\ Run /\ ckpt \in Checkpoint
    BY TypeStep, TypesSplit DEF IInv, Run
  <1>2. CASE Next
    <2>1. OwnCopies'
      BY <1>1, <1>2, OwnCopiesStep DEF IInv
    <2>2. Mutex'
      BY <1>1, <1>2, MutexStep DEF IInv
    <2>3. ExecutorRecorded' /\ SettlerRecorded'
      BY <1>1, <1>2, ExecutorRecordedStep, SettlerRecordedStep DEF IInv
    <2>4. CollectedFirst'
      BY <1>1, <1>2, CollectedFirstStep DEF IInv
    <2>5. Recognised'
      BY <1>1, <1>2, RecognisedStep DEF IInv
    <2> QED  BY <1>1, <2>1, <2>2, <2>3, <2>4, <2>5 DEF IInv
  <1>3. CASE UNCHANGED vars
    BY <1>1, <1>3 DEF IInv, vars, disk, OwnCopies, Mutex, ExecutorRecorded, SettlerRecorded, me,
       Recognised, Published, CollectedFirst, Collected
  <1> QED  BY <1>2, <1>3

\* In every state the checkpoint, the folder and the staging folder agree on
\* the added files as the parts of IInv say.
THEOREM Invariance == Spec => []IInv
  <1> QED  BY InitInvariant, StepInvariant, PTL DEF Spec

\* No added file is ever in two places, whatever stops the edit between a rename
\* and its checkpoint: no attempt collects again what an earlier one published.
THEOREM OnePlace == Spec => []OneCopy
  <1>1. IInv => OneCopy
    BY Constants DEF IInv, Recognised, Published, OneCopy
  <1> QED  BY <1>1, Invariance, PTL

\* No file leaves its path before every added file is collected, or recorded as
\* published by an earlier attempt: a download that fails removes nothing.
FilesLeaveLast ==
    [][\A p \in Path : at[p] # Nothing /\ at'[p] # at[p] =>
          \A i \in Item : copy[i] = i \/ i \in ckpt.published]_vars

\* In every behaviour the files of the folder stay until the collecting is done
\* (run collects before it removes, lifts and publishes, in every attempt).
THEOREM CollectingComesFirst == Spec => FilesLeaveLast
  <1> DEFINE Safe == \A i \in Item : copy[i] = i \/ i \in ckpt.published
             Filled == \A p \in Path : at[p] # Nothing => at'[p] = at[p]
  <1>1. ASSUME IInv, Next
        PROVE  Safe \/ Filled
    <2>1. ASSUME me.pc \in Later, ~me.dirty
          PROVE  Safe
      BY <1>1, <2>1 DEF IInv, CollectedFirst, Collected, ExecutorRecorded, Later, Ending
    <2>2. CASE UNCHANGED at
      BY <2>2
    <2>3. ASSUME NEW p \in Removal, Remove(p)
          PROVE  Safe
      BY <2>1, <2>3 DEF Remove, In, Later
    <2>4. ASSUME NEW m \in Move, Lift(m) \/ Place(m)
          PROVE  Safe
      BY <2>1, <2>4 DEF Lift, Place, In, Later
    <2>5. ASSUME NEW i \in Item, Publish(i)
          PROVE  Safe
      BY <2>1, <2>5 DEF Publish, In, Later
    <2>6. ASSUME NEW i \in Item, PublishReplacing(i)
          PROVE  Safe
      BY <1>1, <2>1, <2>6 DEF PublishReplacing, IInv, ExecutorRecorded, Later, Phase
    <2>7. ASSUME NEW a \in Actor, NEW m \in Move, PutBack(a, m)
          PROVE  Filled
      <3>1. at \in [Path -> File \union {Nothing}]
        BY <1>1, TypesSplit DEF IInv, Disk
      <3>2. \/ UNCHANGED at
            \/ at[Src[m]] = Nothing /\ at' = [at EXCEPT ![Src[m]] = lift[m]]
        BY <2>7 DEF PutBack
      <3> QED  BY <3>1, <3>2
    <2>8. ASSUME NEW p \in Path, Appear(p)
          PROVE  Filled
      BY <2>8 DEF Appear
    <2> HIDE DEF Safe, Filled
    <2> QED
      BY <1>1, <2>2, <2>3, <2>4, <2>5, <2>6, <2>7, <2>8
      DEF Next, ExecutorStep, SettlementStep, Environment, disk,
          Claim, Activate, EnterLibrary, GiveUpLibrary, SaveCheckpoint, SaveRefused, NextPhase,
          PhaseRefused, Stage, Finish, Failing, SettlerEnters, SavePutBack, Clear, Close,
          CancelRun, Retry, Stop, Crash, StepFails, Signal, Exit, Start
  <1>2. IInv /\ [Next]_vars =>
           [\A p \in Path : at[p] # Nothing /\ at'[p] # at[p] =>
               \A i \in Item : copy[i] = i \/ i \in ckpt.published]_vars
    BY <1>1
  <1> QED  BY <1>2, Invariance, PTL DEF Spec, FilesLeaveLast

=============================================================================
