------------------------ MODULE FolderEditMoveProofs ------------------------
(***************************************************************************)
(* What becomes of the files of an edit: MovedFileSurvives,                *)
(* ForeignFileKept, SuccessIsComplete, LeavesAfterCollecting and           *)
(* StoppedEditPutsBack of FolderEdit, for any folder and plan, however     *)
(* often the run is cancelled, fails, is retried, stopped or crashed.      *)
(*                                                                         *)
(* 1. No edit loses a file it moves, unless the process ends in the one    *)
(*    place where the code lets it happen, between a rename of liftMoves   *)
(*    and the checkpoint that records it.  A file in the staging folder is *)
(*    named by every record of the moves that somebody works from or will  *)
(*    read; so whoever puts files back finds it, and whoever clears the    *)
(*    staging folder knows what it keeps.                                  *)
(* 2. Nor does it lose a file of somebody else: such a file can be lifted  *)
(*    in place of a moved one, and is then put somewhere again.            *)
(* 3. A run that succeeded did all it was asked: what a record says is     *)
(*    true of the folder, and no phase begins before the earlier ones have *)
(*    recorded all of theirs.  So no file leaves its path too early.       *)
(* 4. A run that was cancelled or failed, and that nobody works on, has    *)
(*    put its files back: somebody still has to, or nothing can go back.   *)
(***************************************************************************)
EXTENDS FolderEditProofs, FiniteSetTheorems

-----------------------------------------------------------------------------
(* The inductive invariant. *)

\* A record of the moves names every file that is in the staging folder.
Knows(mem) == \A m \in Move : lift[m] # Nothing => m \in mem.lifted \ mem.placed

\* So does what the executor and the settlement read, and the checkpoint, but
\* for the file lifted last.
LiftsKnown ==
    /\ me.pc # "idle" => Knows(me.mem)
    /\ act["settler"].pc \in Ending => Knows(act["settler"].mem)
    /\ (me.dirty /\ me.pc = "lift") \/ Knows(ckpt)

\* What is placed was lifted.
PlacedWereLifted ==
    /\ ckpt.placed \subseteq ckpt.lifted
    /\ \A a \in Actor : act[a].mem.placed \subseteq act[a].mem.lifted

\* No file is published or placed before all are lifted, and the edit does not
\* finish before all are placed.
MovesInOrder ==
    /\ me.pc = "lift" => Move \subseteq me.todo \union me.mem.lifted
    /\ me.pc \in {"publish", "replacing", "place", "finish"} => Move \subseteq me.mem.lifted
    /\ me.pc = "place" => Move \subseteq me.todo \union me.mem.placed
    /\ me.pc = "finish" => Move \subseteq me.mem.placed

\* Who puts files back passes over none, and knows which it had to keep.
NoneLeftBehind ==
    \A a \in Actor :
        /\ act[a].pc = "putting" =>
              /\ act[a].todo \intersect act[a].mem.placed = {}
              /\ \A m \in Move : lift[m] # Nothing => m \in act[a].todo \union act[a].kept
        /\ act[a].pc = "clearing" => \A m \in Move : lift[m] # Nothing => m \in act[a].kept

\* Moved files go to old and new paths of moved files only.
KnownPaths == \A p \in Path : at[p] \in Move => \E m \in Move : p \in {Src[m], Dst[m]}

\* The inductive invariant behind the survival of moved files.
MInv ==
    /\ IInv
    /\ LiftsKnown
    /\ PlacedWereLifted
    /\ MovesInOrder
    /\ NoneLeftBehind
    /\ KnownPaths
    /\ MovedFileSurvives

-----------------------------------------------------------------------------
(* What the steps do to the moved files. *)

\* What is recorded of them.
Moves(mem) == <<mem.lifted, mem.placed>>

\* Which records of the moves an update of the checkpoint changes.
LEMMA MoveFields ==
    ASSUME NEW mem \in Checkpoint
    PROVE  /\ \A i \in Item : Moves([mem EXCEPT !.published = @ \union {i}]) = Moves(mem)
           /\ \A i \in Item : Moves([mem EXCEPT !.staged = @ \union {i}]) = Moves(mem)
           /\ \A p \in Removal : Moves([mem EXCEPT !.removed = @ \union {p}]) = Moves(mem)
           /\ \A m \in Move : Moves([mem EXCEPT !.lifted = @ \union {m}]) =
                                 <<mem.lifted \union {m}, mem.placed>>
           /\ \A m \in Move : Moves([mem EXCEPT !.placed = @ \union {m}]) =
                                 <<mem.lifted, mem.placed \union {m}>>
  BY DEF Checkpoint, Moves

\* The plan, as far as these proofs use it.
LEMMA Plan ==
    /\ Src \in [Move -> Path] /\ Dst \in [Move -> Path] /\ Target \in [Item -> Path]
    /\ Removal \subseteq Path
    /\ Nothing \notin Move /\ Nothing \notin Item /\ Foreign \notin Move
    /\ Move \intersect Item = {}
    /\ \A m \in Move : Before[Src[m]] = m
    /\ \A p \in Path : Before[p] \in Move => p = Src[Before[p]]
    /\ \A p \in Removal : Before[p] \notin Move
    /\ \A i \in Item, m \in Move : Target[i] # Dst[m]
    /\ \A i \in Replace : i \in Item /\ \A m \in Move : Target[i] # Src[m]
  <1>1. Src \in [Move -> Path] /\ \A m \in Move : Before[Src[m]] = m
    BY FolderEditAssumption
  <1>2. Foreign \notin Move /\ Nothing \notin Move \union Item
    BY <1>1, FolderEditAssumption
  <1>3. ASSUME NEW p \in Removal, Before[p] \in Move
        PROVE  FALSE
    <2>1. p \in Path /\ \A m \in Move : Src[m] # p
      BY FolderEditAssumption
    <2>2. p = Src[Before[p]]
      BY <1>3, <2>1, FolderEditAssumption
    <2> QED  BY <1>3, <2>1, <2>2
  <1> QED
    BY <1>1, <1>2, <1>3, FolderEditAssumption

\* The executor works on; the status, the files and the rest do not matter here.
Works(pc, moves, todo, dirty) ==
    /\ act'["settler"] = act["settler"]
    /\ me'.pc = pc
    /\ Moves(me'.mem) = moves
    /\ me'.todo = todo
    /\ me'.dirty = dirty

\* Skip, Did and FailsAs, as far as the moves go.
LEMMA SkipWorks ==
    ASSUME Acts, NEW x, Skip(x)
    PROVE  Works(me.pc, Moves(me.mem), me.todo \ {x}, me.dirty)
  BY SkipEffect DEF Works

LEMMA DidWorks ==
    ASSUME Acts, NEW x, NEW mem \in Checkpoint, Did(x, mem)
    PROVE  Works(me.pc, Moves(mem), me.todo \ {x}, TRUE)
  BY DidEffect DEF Works

LEMMA FailsWorks ==
    ASSUME Acts, NEW outcome \in {"queued", "failed"}, FailsAs(outcome)
    PROVE  Works("failing", Moves(me.mem), {}, FALSE)
  <1>1. me'.todo = {}
    BY DEF FailsAs, Acts, Actor, Local, me
  <1> QED  BY <1>1, FailsEffect DEF Works

\* It puts a file back.
LEMMA PutBackEffect ==
    ASSUME Acts, NEW a \in Actor, NEW m \in Move, PutBack(a, m)
    PROVE  /\ act[a].pc = "putting" /\ m \in act[a].todo
           /\ \A b \in Actor : b # a => act'[b] = act[b]
           /\ act'[a].pc = "putting"
           /\ act'[a].todo = act[a].todo \ {m}
           /\ act'[a].dirty = act[a].dirty
           /\ act'[a].then = act[a].then
           /\ UNCHANGED ckpt
           /\ \/ /\ lift[m] # Nothing /\ at[Src[m]] = Nothing
                 /\ at' = [at EXCEPT ![Src[m]] = lift[m]]
                 /\ lift' = [lift EXCEPT ![m] = Nothing]
                 /\ Moves(act'[a].mem) = <<act[a].mem.lifted \ {m}, act[a].mem.placed>>
                 /\ act'[a].kept = act[a].kept
              \/ /\ lift[m] = Nothing /\ Matches(at[Src[m]], m)
                 /\ UNCHANGED <<at, lift>>
                 /\ Moves(act'[a].mem) = <<act[a].mem.lifted \ {m}, act[a].mem.placed>>
                 /\ act'[a].kept = act[a].kept
              \/ /\ lift[m] # Nothing => at[Src[m]] # Nothing
                 /\ lift[m] = Nothing => ~Matches(at[Src[m]], m)
                 /\ UNCHANGED <<at, lift>>
                 /\ Moves(act'[a].mem) = Moves(act[a].mem)
                 /\ act'[a].kept = act[a].kept \union {m}
  <1>1. act[a] \in Local
    BY DEF Acts
  <1>2. ASSUME act' = [act EXCEPT ![a].todo = @ \ {m}, ![a].mem.lifted = @ \ {m}]
        PROVE  /\ \A b \in Actor : b # a => act'[b] = act[b]
               /\ act'[a].pc = act[a].pc
               /\ act'[a].todo = act[a].todo \ {m}
               /\ act'[a].dirty = act[a].dirty
               /\ act'[a].then = act[a].then
               /\ act'[a].kept = act[a].kept
               /\ Moves(act'[a].mem) = <<act[a].mem.lifted \ {m}, act[a].mem.placed>>
    BY <1>1, <1>2 DEF Acts, Local, Checkpoint, Moves
  <1>3. ASSUME act' = [act EXCEPT ![a].todo = @ \ {m}, ![a].kept = @ \union {m}]
        PROVE  /\ \A b \in Actor : b # a => act'[b] = act[b]
               /\ act'[a].pc = act[a].pc
               /\ act'[a].todo = act[a].todo \ {m}
               /\ act'[a].dirty = act[a].dirty
               /\ act'[a].then = act[a].then
               /\ act'[a].kept = act[a].kept \union {m}
               /\ act'[a].mem = act[a].mem
    BY <1>1, <1>3 DEF Acts, Local
  <1>4. CASE lift[m] # Nothing /\ at[Src[m]] = Nothing
    BY <1>2, <1>4 DEF PutBack
  <1>5. CASE lift[m] = Nothing /\ Matches(at[Src[m]], m)
    BY <1>2, <1>5 DEF PutBack
  <1>6. CASE /\ ~(lift[m] # Nothing /\ at[Src[m]] = Nothing)
             /\ ~(lift[m] = Nothing /\ Matches(at[Src[m]], m))
    BY <1>3, <1>6 DEF PutBack
  <1> QED  BY <1>4, <1>5, <1>6

\* The steps of an executor at work, as far as the moved files go: it saves,
\* goes on to the next phase, fails, or finishes the edit;
Saves ==
    /\ me.dirty
    /\ ckpt' = me.mem
    /\ UNCHANGED <<at, lift>>
    /\ Works(me.pc, Moves(me.mem), me.todo, FALSE)

Advances ==
    \E phase \in Phase :
        /\ me.pc = phase /\ ~me.dirty /\ me.todo = {}
        /\ UNCHANGED <<at, lift, ckpt>>
        /\ Works(After(phase), Moves(me.mem), Loop(After(phase)), FALSE)

Abandons ==
    /\ me.dirty => me.pc = "stage"
    /\ UNCHANGED <<at, lift, ckpt>>
    /\ Works("failing", Moves(me.mem), {}, FALSE)

Concludes ==
    /\ me.pc = "finish" /\ ~me.dirty
    /\ UNCHANGED <<at, lift, ckpt>>
    /\ Works("clearing", Moves(me.mem), me.todo, FALSE)

\* it collects, removes or publishes and touches no moved file;
Stands == \A p \in Path : at[p] \in Move \/ at'[p] \in Move => at'[p] = at[p]

WorksElsewhere ==
    /\ \/ me.pc \in {"stage", "remove"} /\ me'.pc = me.pc
       \/ me.pc \in {"publish", "replacing"} /\ me'.pc \in {"publish", "replacing"}
    /\ ~me.dirty
    /\ Stands
    /\ UNCHANGED <<lift, ckpt>>
    /\ Works(me'.pc, Moves(me.mem), me'.todo, me'.dirty)

\* it lifts a file, or finds it lifted;
Lifts(m) ==
    /\ me.pc = "lift" /\ ~me.dirty
    /\ UNCHANGED ckpt
    /\ \/ /\ m \in me.mem.lifted
          /\ UNCHANGED <<at, lift>>
          /\ Works("lift", Moves(me.mem), me.todo \ {m}, FALSE)
       \/ /\ m \notin me.mem.lifted
          /\ \/ /\ AlreadyLifted(m)
                /\ UNCHANGED <<at, lift>>
             \/ /\ at[Src[m]] # Nothing
                /\ at' = [at EXCEPT ![Src[m]] = Nothing]
                /\ lift' = [lift EXCEPT ![m] = at[Src[m]]]
          /\ Works("lift", <<me.mem.lifted \union {m}, me.mem.placed>>, me.todo \ {m}, TRUE)

\* or it places one, or finds it placed.
Places(m) ==
    /\ me.pc = "place" /\ ~me.dirty
    /\ UNCHANGED ckpt
    /\ \/ /\ m \in me.mem.placed
          /\ UNCHANGED <<at, lift>>
          /\ Works("place", Moves(me.mem), me.todo \ {m}, FALSE)
       \/ /\ m \notin me.mem.placed
          /\ \/ /\ lift[m] = Nothing /\ Matches(at[Dst[m]], m)
                /\ UNCHANGED <<at, lift>>
             \/ /\ lift[m] # Nothing /\ at[Dst[m]] = Nothing
                /\ at' = [at EXCEPT ![Dst[m]] = lift[m]]
                /\ lift' = [lift EXCEPT ![m] = Nothing]
          /\ Works("place", <<me.mem.lifted, me.mem.placed \union {m}>>, me.todo \ {m}, TRUE)

\* Every step of an executor at work is one of these.
LEMMA WorkMoves ==
    ASSUME Acts, Disk, OwnCopies, ExecutorRecorded, KnownPaths, AtWork
    PROVE  \/ Saves \/ Advances \/ Abandons \/ Concludes \/ WorksElsewhere
           \/ \E m \in Move : Lifts(m) \/ Places(m)
  <1>1. "executor" \in Actor /\ "settler" \in Actor /\ me \in Local /\ me.mem \in Checkpoint
    BY DEF Acts, Actor, Local, me
  <1>2. me.dirty \in BOOLEAN
    BY <1>1 DEF Local
  <1>3. ASSUME ~me.dirty \/ me.pc = "stage", UNCHANGED <<at, lift, ckpt>>,
               NEW outcome \in {"queued", "failed"}, FailsAs(outcome)
        PROVE  Abandons
    BY <1>3, FailsWorks DEF Abandons
  <1>4. CASE SaveCheckpoint
    <2>1. /\ act'["settler"] = act["settler"] /\ me'.pc = me.pc /\ me'.mem = me.mem
          /\ me'.todo = me.todo /\ me'.dirty = FALSE
      BY <1>1, <1>4 DEF SaveCheckpoint, Acts, Local, me
    <2> QED  BY <1>4, <2>1 DEF SaveCheckpoint, Saves, Works, disk
  <1>5. CASE SaveRefused
    BY <1>3, <1>5 DEF SaveRefused, Fails, disk
  <1>6. ASSUME NEW phase \in Phase, NextPhase(phase)
        PROVE  Advances
    <2>1. /\ act'["settler"] = act["settler"] /\ me'.pc = After(phase) /\ me'.mem = me.mem
          /\ me'.todo = Loop(After(phase)) /\ me'.dirty = me.dirty
      BY <1>1, <1>6 DEF NextPhase, Acts, Local, me
    <2>2. ~me.dirty /\ me.dirty = FALSE /\ me.pc = phase /\ me.todo = {} /\ UNCHANGED <<at, lift, ckpt>>
      BY <1>2, <1>6 DEF NextPhase, In, disk
    <2> QED  BY <2>1, <2>2 DEF Advances, Works
  <1>7. ASSUME NEW phase \in Phase \union {"finish"}, PhaseRefused(phase) \/ StepFails(phase)
        PROVE  Abandons
    BY <1>3, <1>7 DEF PhaseRefused, StepFails, In, Fails, disk
  <1>8. CASE Finish
    <2>1. /\ act'["settler"] = act["settler"] /\ me'.pc = "clearing" /\ me'.mem = me.mem
          /\ me'.todo = me.todo /\ me'.dirty = me.dirty
      BY <1>1, <1>8 DEF Finish, Acts, Local, me
    <2>2. ~me.dirty /\ me.dirty = FALSE /\ me.pc = "finish" /\ UNCHANGED <<at, lift, ckpt>>
      BY <1>2, <1>8 DEF Finish, In, disk
    <2> QED  BY <2>1, <2>2 DEF Concludes, Works
  <1>9. ASSUME NEW x, NEW mem \in Checkpoint, Moves(mem) = Moves(me.mem),
               Skip(x) \/ Did(x, mem)
        PROVE  /\ me'.pc = me.pc
               /\ Works(me'.pc, Moves(me.mem), me'.todo, me'.dirty)
    BY <1>9, SkipWorks, DidWorks DEF Works
  <1>10. UNCHANGED at => Stands
    BY DEF Stands
  <1>11. ASSUME NEW i \in Item, Stage(i)
         PROVE  Abandons \/ WorksElsewhere
    <2>1. me.pc = "stage" /\ ~me.dirty /\ UNCHANGED <<at, lift, ckpt>>
      BY <1>11 DEF Stage, In
    <2>2. CASE Fails
      BY <1>3, <2>1, <2>2 DEF Fails
    <2>3. CASE \/ Skip(i) \/ Did(i, [me.mem EXCEPT !.published = @ \union {i}])
               \/ Did(i, [me.mem EXCEPT !.staged = @ \union {i}])
      <3>1. me'.pc = me.pc /\ Works(me'.pc, Moves(me.mem), me'.todo, me'.dirty)
        BY <1>1, <1>9, <2>3, CheckpointUpdates, MoveFields
      <3> QED  BY <1>10, <2>1, <3>1 DEF WorksElsewhere
    <2> QED  BY <1>11, <2>2, <2>3 DEF Stage
  <1>12. ASSUME NEW p \in Removal, Remove(p)
         PROVE  Abandons \/ WorksElsewhere
    <2>1. me.pc = "remove" /\ ~me.dirty /\ UNCHANGED <<lift, ckpt>>
      BY <1>12 DEF Remove, In
    <2>2. CASE Fails /\ UNCHANGED at
      BY <1>3, <2>1, <2>2 DEF Fails
    <2>3. CASE Skip(p) /\ UNCHANGED at
      <3>1. me'.pc = me.pc /\ Works(me'.pc, Moves(me.mem), me'.todo, me'.dirty)
        BY <1>1, <1>9, <2>3
      <3> QED  BY <1>10, <2>1, <2>3, <3>1 DEF WorksElsewhere
    <2>4. CASE /\ at[p] \in {Nothing, Before[p]} /\ at' = [at EXCEPT ![p] = Nothing]
               /\ Did(p, [me.mem EXCEPT !.removed = @ \union {p}])
      <3>1. me'.pc = me.pc /\ Works(me'.pc, Moves(me.mem), me'.todo, me'.dirty)
        BY <1>1, <1>9, <2>4, CheckpointUpdates, MoveFields
      <3>2. at[p] \notin Move /\ Nothing \notin Move
        BY <2>4, Plan
      <3>3. Stands
        BY <2>4, <3>2 DEF Stands, Disk
      <3> QED  BY <2>1, <3>1, <3>3 DEF WorksElsewhere
    <2> QED  BY <1>12, <2>2, <2>3, <2>4 DEF Remove
  <1>13. ASSUME NEW i \in Item, PublishRename(i), UNCHANGED <<lift, ckpt>>,
                me.pc \in {"publish", "replacing"}, ~me.dirty
         PROVE  Abandons \/ WorksElsewhere
    <2>1. CASE Fails /\ UNCHANGED <<at, copy>>
      BY <1>3, <1>13, <2>1 DEF Fails
    <2>2. CASE /\ at[Target[i]] = Nothing /\ at' = [at EXCEPT ![Target[i]] = copy[i]]
               /\ Renamed(i)
      <3>1. me'.pc = "publish" /\ Works(me'.pc, Moves(me.mem), me'.todo, me'.dirty)
        BY <1>1, <2>2, MoveFields DEF Renamed, Works
      <3>2. copy[i] \notin Move /\ Nothing \notin Move
        BY Plan DEF OwnCopies
      <3>3. Stands
        BY <2>2, <3>2 DEF Stands, Disk
      <3> QED  BY <1>13, <3>1, <3>3 DEF WorksElsewhere
    <2> QED  BY <1>13, <2>1, <2>2, RenameEffect
  <1>14. ASSUME NEW i \in Item, PublishReplacing(i)
         PROVE  Abandons \/ WorksElsewhere
    <2>1. me.pc = "replacing" /\ ~me.dirty
      BY <1>14 DEF PublishReplacing, ExecutorRecorded, Phase
    <2> QED  BY <1>13, <1>14, <2>1 DEF PublishReplacing
  <1>15. ASSUME NEW i \in Item, Publish(i)
         PROVE  Abandons \/ WorksElsewhere
    <2>1. me.pc = "publish" /\ ~me.dirty /\ UNCHANGED <<lift, ckpt>>
      BY <1>15 DEF Publish, In
    <2>2. CASE Fails /\ UNCHANGED at
      BY <1>3, <2>1, <2>2 DEF Fails
    <2>3. CASE Skip(i) /\ UNCHANGED at
      <3>1. me'.pc = me.pc /\ Works(me'.pc, Moves(me.mem), me'.todo, me'.dirty)
        BY <1>1, <1>9, <2>3
      <3> QED  BY <1>10, <2>1, <2>3, <3>1 DEF WorksElsewhere
    <2>4. CASE /\ i \in Replace /\ at' = [at EXCEPT ![Target[i]] = Nothing]
               /\ act' = [act EXCEPT !["executor"].pc = "replacing"]
      <3>1. /\ act'["settler"] = act["settler"] /\ me'.pc = "replacing" /\ me'.mem = me.mem
        BY <1>1, <2>4 DEF Acts, Local, me
      <3>2. at[Target[i]] \notin Move /\ Nothing \notin Move
        BY <2>4, Plan DEF KnownPaths
      <3>3. Stands
        BY <2>4, <3>2 DEF Stands, Disk
      <3> QED  BY <2>1, <3>1, <3>3 DEF WorksElsewhere, Works
    <2>5. CASE PublishRename(i)
      BY <1>13, <2>1, <2>5
    <2> QED  BY <1>15, <2>2, <2>3, <2>4, <2>5 DEF Publish
  <1>16. ASSUME NEW m \in Move, Lift(m)
         PROVE  Abandons \/ Lifts(m)
    <2> DEFINE mem == [me.mem EXCEPT !.lifted = @ \union {m}]
    <2>1. me.pc = "lift" /\ ~me.dirty /\ me.dirty = FALSE /\ UNCHANGED ckpt
      BY <1>2, <1>16 DEF Lift, In
    <2>2. mem \in Checkpoint /\ Moves(mem) = <<me.mem.lifted \union {m}, me.mem.placed>>
      BY <1>1, CheckpointUpdates, MoveFields
    <2>3. \/ Fails /\ UNCHANGED <<at, lift>>
          \/ m \in me.mem.lifted /\ Skip(m) /\ UNCHANGED <<at, lift>>
          \/ /\ m \notin me.mem.lifted /\ Did(m, mem)
             /\ \/ AlreadyLifted(m) /\ UNCHANGED <<at, lift>>
                \/ /\ at[Src[m]] # Nothing
                   /\ at' = [at EXCEPT ![Src[m]] = Nothing]
                   /\ lift' = [lift EXCEPT ![m] = at[Src[m]]]
      BY <1>16 DEF Lift, Matches
    <2> HIDE DEF mem
    <2>4. CASE Fails /\ UNCHANGED <<at, lift>>
      BY <1>3, <2>1, <2>4 DEF Fails
    <2>5. CASE m \in me.mem.lifted /\ Skip(m) /\ UNCHANGED <<at, lift>>
      BY <2>1, <2>5, SkipWorks DEF Lifts
    <2>6. ASSUME Did(m, mem)
          PROVE  Works("lift", <<me.mem.lifted \union {m}, me.mem.placed>>, me.todo \ {m}, TRUE)
      BY <2>1, <2>2, <2>6, DidWorks
    <2> QED  BY <2>1, <2>3, <2>4, <2>5, <2>6 DEF Lifts
  <1>17. ASSUME NEW m \in Move, Place(m)
         PROVE  Abandons \/ Places(m)
    <2> DEFINE mem == [me.mem EXCEPT !.placed = @ \union {m}]
    <2>1. me.pc = "place" /\ ~me.dirty /\ me.dirty = FALSE /\ UNCHANGED ckpt
      BY <1>2, <1>17 DEF Place, In
    <2>2. mem \in Checkpoint /\ Moves(mem) = <<me.mem.lifted, me.mem.placed \union {m}>>
      BY <1>1, CheckpointUpdates, MoveFields
    <2>3. \/ Fails /\ UNCHANGED <<at, lift>>
          \/ m \in me.mem.placed /\ Skip(m) /\ UNCHANGED <<at, lift>>
          \/ /\ m \notin me.mem.placed /\ Did(m, mem)
             /\ \/ lift[m] = Nothing /\ Matches(at[Dst[m]], m) /\ UNCHANGED <<at, lift>>
                \/ /\ lift[m] # Nothing /\ at[Dst[m]] = Nothing
                   /\ at' = [at EXCEPT ![Dst[m]] = lift[m]]
                   /\ lift' = [lift EXCEPT ![m] = Nothing]
      BY <1>17 DEF Place
    <2> HIDE DEF mem
    <2>4. CASE Fails /\ UNCHANGED <<at, lift>>
      BY <1>3, <2>1, <2>4 DEF Fails
    <2>5. CASE m \in me.mem.placed /\ Skip(m) /\ UNCHANGED <<at, lift>>
      BY <2>1, <2>5, SkipWorks DEF Places
    <2>6. ASSUME Did(m, mem)
          PROVE  Works("place", <<me.mem.lifted, me.mem.placed \union {m}>>, me.todo \ {m}, TRUE)
      BY <2>1, <2>2, <2>6, DidWorks
    <2> QED  BY <2>1, <2>3, <2>4, <2>5, <2>6 DEF Places
  <1> QED
    BY <1>4, <1>5, <1>6, <1>7, <1>8, <1>11, <1>12, <1>14, <1>15, <1>16, <1>17 DEF AtWork

-----------------------------------------------------------------------------
(* Every step keeps the invariant. *)

\* The parts of it that TypeOK and the earlier invariants do not give.
MParts ==
    /\ LiftsKnown
    /\ PlacedWereLifted
    /\ MovesInOrder
    /\ NoneLeftBehind
    /\ KnownPaths
    /\ MovedFileSurvives

\* What the steps need of the rest.
Frame == Acts /\ Disk /\ Run /\ OwnCopies /\ Mutex /\ ExecutorRecorded

\* A moved file goes nowhere.
LEMMA FilesStand ==
    ASSUME KnownPaths, MovedFileSurvives, Stands, UNCHANGED lift
    PROVE  KnownPaths' /\ MovedFileSurvives'
  BY DEF KnownPaths, MovedFileSurvives, Stands

\* A lifted file is renamed to a free path of a move,
LEMMA FileLands ==
    ASSUME Disk, KnownPaths, MovedFileSurvives, NEW m \in Move, NEW p \in {Src[m], Dst[m]},
           at[p] = Nothing, at' = [at EXCEPT ![p] = lift[m]], lift' = [lift EXCEPT ![m] = Nothing]
    PROVE  KnownPaths' /\ MovedFileSurvives'
  <1>1. p \in Path /\ Nothing \notin Move
    BY Plan
  <1>2. KnownPaths'
    BY <1>1 DEF KnownPaths, Disk
  <1>3. ASSUME NEW n \in Move
        PROVE  (\E q \in Path : at'[q] = n) \/ (\E k \in Move : lift'[k] = n)
    <2>1. CASE \E q \in Path : at[q] = n
      <3>1. PICK q \in Path : at[q] = n
        BY <2>1
      <3>2. at'[q] = n
        BY <1>1, <3>1 DEF Disk
      <3> QED  BY <3>2
    <2>2. CASE \E k \in Move : lift[k] = n
      <3>1. PICK k \in Move : lift[k] = n
        BY <2>2
      <3>2. CASE k = m
        <4>1. at'[p] = n
          BY <1>1, <3>1, <3>2 DEF Disk
        <4> QED  BY <1>1, <4>1
      <3>3. CASE k # m
        <4>1. lift'[k] = n
          BY <3>1, <3>3 DEF Disk
        <4> QED  BY <4>1
      <3> QED  BY <3>2, <3>3
    <2> QED  BY <2>1, <2>2 DEF MovedFileSurvives
  <1> QED  BY <1>2, <1>3 DEF MovedFileSurvives

\* or a file is renamed into an empty place of the staging folder.
LEMMA FileLifted ==
    ASSUME Disk, KnownPaths, MovedFileSurvives, NEW m \in Move, lift[m] = Nothing,
           at' = [at EXCEPT ![Src[m]] = Nothing], lift' = [lift EXCEPT ![m] = at[Src[m]]]
    PROVE  KnownPaths' /\ MovedFileSurvives'
  <1>1. Src[m] \in Path /\ Nothing \notin Move
    BY Plan
  <1>2. KnownPaths'
    BY <1>1 DEF KnownPaths, Disk
  <1>3. ASSUME NEW n \in Move
        PROVE  (\E q \in Path : at'[q] = n) \/ (\E k \in Move : lift'[k] = n)
    <2>1. CASE \E q \in Path : at[q] = n
      <3>1. PICK q \in Path : at[q] = n
        BY <2>1
      <3>2. CASE q = Src[m]
        <4>1. lift'[m] = n
          BY <3>1, <3>2 DEF Disk
        <4> QED  BY <4>1
      <3>3. CASE q # Src[m]
        <4>1. at'[q] = n
          BY <3>1, <3>3 DEF Disk
        <4> QED  BY <4>1
      <3> QED  BY <3>2, <3>3
    <2>2. CASE \E k \in Move : lift[k] = n
      <3>1. PICK k \in Move : lift[k] = n
        BY <2>2
      <3>2. lift'[k] = n
        BY <1>1, <3>1 DEF Disk
      <3> QED  BY <3>2
    <2> QED  BY <2>1, <2>2 DEF MovedFileSurvives
  <1> QED  BY <1>2, <1>3 DEF MovedFileSurvives

\* The executor at work.
LEMMA WorkKeeps ==
    ASSUME Frame, MParts, AtWork
    PROVE  MParts'
  <1> USE DEF Frame, MParts
  <1>1. /\ act'["settler"] = act["settler"] /\ act["settler"].pc \notin Ending
        /\ me.pc \in Phase \union {"replacing", "finish"}
    <2>1. /\ act'["settler"] = act["settler"]
          /\ me.pc \in Phase \union {"replacing", "finish"}
      BY AtWorkEffect
    <2>2. lock = "executor"
      BY <2>1 DEF Mutex, Actor, Phase, me
    <2> QED  BY <2>1, <2>2 DEF Mutex, Actor, Ending
  <1>2. Knows(me.mem) /\ me.mem.placed \subseteq me.mem.lifted
        /\ act["settler"].mem.placed \subseteq act["settler"].mem.lifted
    BY <1>1 DEF LiftsKnown, PlacedWereLifted, Actor, Phase, me
  <1>3. me = act["executor"] /\ me' = act'["executor"]
        /\ \A a \in Actor : a = "executor" \/ a = "settler"
    BY DEF me, Actor
  <1>4. me.dirty \in BOOLEAN
    BY DEF Acts, Actor, Local, me
  <1>5. ASSUME NEW pc \in PC, NEW moves, NEW todo, NEW dirty, Works(pc, moves, todo, dirty),
               pc \notin {"putting", "clearing"}
        PROVE  NoneLeftBehind'
    BY <1>1, <1>3, <1>5 DEF NoneLeftBehind, Works, Ending
  <1>6. CASE Saves
    <2>1. /\ me'.pc = me.pc /\ Moves(me'.mem) = Moves(me.mem) /\ me'.todo = me.todo /\ me'.dirty = FALSE
          /\ ckpt' = me.mem /\ UNCHANGED <<at, lift>>
      BY <1>6 DEF Saves, Works
    <2>2. me'.mem.lifted = me.mem.lifted /\ me'.mem.placed = me.mem.placed
      BY <2>1 DEF Moves
    <2>3. LiftsKnown'
      BY <1>1, <1>2, <2>1, <2>2 DEF LiftsKnown, Knows
    <2>4. PlacedWereLifted'
      BY <1>1, <1>2, <1>3, <2>1, <2>2 DEF PlacedWereLifted
    <2>5. MovesInOrder'
      BY <2>1, <2>2 DEF MovesInOrder
    <2>6. NoneLeftBehind'
      BY <1>1, <1>3, <2>1 DEF NoneLeftBehind, Ending, Phase
    <2>7. KnownPaths' /\ MovedFileSurvives'
      BY <2>1, FilesStand DEF Stands
    <2> QED  BY <2>3, <2>4, <2>5, <2>6, <2>7
  <1>7. CASE Advances
    <2>1. PICK phase \in Phase :
              /\ me.pc = phase /\ ~me.dirty /\ me.todo = {}
              /\ UNCHANGED <<at, lift, ckpt>>
              /\ Works(After(phase), Moves(me.mem), Loop(After(phase)), FALSE)
      BY <1>7 DEF Advances
    <2>2. /\ me'.pc = After(phase) /\ me'.todo = Loop(After(phase)) /\ me'.dirty = FALSE
          /\ me'.mem.lifted = me.mem.lifted /\ me'.mem.placed = me.mem.placed
      BY <2>1 DEF Works, Moves
    <2>3. LiftsKnown'
      BY <1>1, <1>2, <2>1, <2>2 DEF LiftsKnown, Knows
    <2>4. PlacedWereLifted'
      BY <1>1, <1>2, <1>3, <2>1, <2>2 DEF PlacedWereLifted
    <2>5. MovesInOrder'
      BY <2>1, <2>2 DEF MovesInOrder, After, Loop, Phase
    <2>6. NoneLeftBehind'
      BY <1>1, <1>3, <2>1, <2>2 DEF NoneLeftBehind, Ending, After, Phase
    <2>7. KnownPaths' /\ MovedFileSurvives'
      BY <2>1, FilesStand DEF Stands
    <2> QED  BY <2>3, <2>4, <2>5, <2>6, <2>7
  <1>8. CASE Abandons
    <2>1. /\ me'.pc = "failing" /\ me'.dirty = FALSE /\ UNCHANGED <<at, lift, ckpt>>
          /\ me'.mem.lifted = me.mem.lifted /\ me'.mem.placed = me.mem.placed
          /\ me.dirty => me.pc = "stage"
      BY <1>8 DEF Abandons, Works, Moves
    <2>2. LiftsKnown'
      BY <1>1, <1>2, <2>1 DEF LiftsKnown, Knows
    <2>3. PlacedWereLifted'
      BY <1>1, <1>2, <1>3, <2>1 DEF PlacedWereLifted
    <2>4. MovesInOrder'
      BY <2>1 DEF MovesInOrder
    <2>5. NoneLeftBehind'
      BY <1>1, <1>3, <2>1 DEF NoneLeftBehind, Ending
    <2>6. KnownPaths' /\ MovedFileSurvives'
      BY <2>1, FilesStand DEF Stands
    <2> QED  BY <2>2, <2>3, <2>4, <2>5, <2>6
  <1>9. CASE Concludes
    <2>1. /\ me.pc = "finish" /\ me'.pc = "clearing" /\ me'.dirty = FALSE /\ UNCHANGED <<at, lift, ckpt>>
          /\ me'.mem.lifted = me.mem.lifted /\ me'.mem.placed = me.mem.placed
      BY <1>9 DEF Concludes, Works, Moves
    <2>2. \A m \in Move : lift[m] = Nothing
      BY <1>2, <2>1 DEF MovesInOrder, Knows
    <2>3. LiftsKnown'
      BY <1>1, <1>2, <2>1, <2>2 DEF LiftsKnown, Knows
    <2>4. PlacedWereLifted'
      BY <1>1, <1>2, <1>3, <2>1 DEF PlacedWereLifted
    <2>5. MovesInOrder'
      BY <2>1 DEF MovesInOrder
    <2>6. NoneLeftBehind'
      BY <1>1, <1>3, <2>1, <2>2 DEF NoneLeftBehind, Ending
    <2>7. KnownPaths' /\ MovedFileSurvives'
      BY <2>1, FilesStand DEF Stands
    <2> QED  BY <2>3, <2>4, <2>5, <2>6, <2>7
  <1>10. CASE WorksElsewhere
    <2>1. /\ \/ me.pc \in {"stage", "remove"} /\ me'.pc = me.pc
             \/ me.pc \in {"publish", "replacing"} /\ me'.pc \in {"publish", "replacing"}
          /\ ~me.dirty /\ Stands /\ UNCHANGED <<lift, ckpt>>
          /\ me'.mem.lifted = me.mem.lifted /\ me'.mem.placed = me.mem.placed
      BY <1>10 DEF WorksElsewhere, Works, Moves
    <2>2. LiftsKnown'
      BY <1>1, <1>2, <2>1 DEF LiftsKnown, Knows
    <2>3. PlacedWereLifted'
      BY <1>1, <1>2, <1>3, <2>1 DEF PlacedWereLifted
    <2>4. MovesInOrder'
      BY <2>1 DEF MovesInOrder
    <2>5. NoneLeftBehind'
      BY <1>1, <1>3, <2>1 DEF NoneLeftBehind, Ending
    <2>6. KnownPaths' /\ MovedFileSurvives'
      BY <2>1, FilesStand
    <2> QED  BY <2>2, <2>3, <2>4, <2>5, <2>6
  <1>11. ASSUME NEW m \in Move, Lifts(m)
         PROVE  MParts'
    <2>1. /\ me.pc = "lift" /\ me'.pc = "lift" /\ me'.todo = me.todo \ {m} /\ UNCHANGED ckpt
          /\ Knows(ckpt)
      BY <1>11 DEF Lifts, Works, LiftsKnown
    <2>2. CASE m \in me.mem.lifted
      <3>1. /\ me'.mem.lifted = me.mem.lifted /\ me'.mem.placed = me.mem.placed
            /\ me'.dirty = FALSE /\ UNCHANGED <<at, lift>>
        BY <1>11, <2>2 DEF Lifts, Works, Moves
      <3>2. LiftsKnown'
        BY <1>1, <1>2, <2>1, <3>1 DEF LiftsKnown, Knows
      <3>3. PlacedWereLifted'
        BY <1>1, <1>2, <1>3, <2>1, <3>1 DEF PlacedWereLifted
      <3>4. MovesInOrder'
        BY <2>1, <2>2, <3>1 DEF MovesInOrder
      <3>5. NoneLeftBehind'
        BY <1>1, <1>3, <2>1 DEF NoneLeftBehind, Ending
      <3>6. KnownPaths' /\ MovedFileSurvives'
        BY <3>1, FilesStand DEF Stands
      <3> QED  BY <3>2, <3>3, <3>4, <3>5, <3>6
    <2>3. CASE m \notin me.mem.lifted
      <3>1. /\ me'.mem.lifted = me.mem.lifted \union {m} /\ me'.mem.placed = me.mem.placed
            /\ me'.dirty = TRUE
            /\ \/ UNCHANGED <<at, lift>>
               \/ /\ at' = [at EXCEPT ![Src[m]] = Nothing]
                  /\ lift' = [lift EXCEPT ![m] = at[Src[m]]]
        BY <1>11, <2>3 DEF Lifts, Works, Moves
      <3>2. m \notin me.mem.placed /\ lift[m] = Nothing
        BY <1>2, <2>3 DEF Knows
      <3>3. \A n \in Move : n # m => lift'[n] = lift[n]
        BY <3>1 DEF Disk
      <3>4. LiftsKnown'
        BY <1>1, <1>2, <2>1, <3>1, <3>2, <3>3 DEF LiftsKnown, Knows
      <3>5. PlacedWereLifted'
        BY <1>1, <1>2, <1>3, <2>1, <3>1 DEF PlacedWereLifted
      <3>6. MovesInOrder'
        BY <2>1, <3>1 DEF MovesInOrder
      <3>7. NoneLeftBehind'
        BY <1>1, <1>3, <2>1 DEF NoneLeftBehind, Ending
      <3>8. KnownPaths' /\ MovedFileSurvives'
        BY <3>1, <3>2, FilesStand, FileLifted DEF Stands
      <3> QED  BY <3>4, <3>5, <3>6, <3>7, <3>8
    <2> QED  BY <2>2, <2>3
  <1>12. ASSUME NEW m \in Move, Places(m)
         PROVE  MParts'
    <2>1. /\ me.pc = "place" /\ me'.pc = "place" /\ me'.todo = me.todo \ {m} /\ UNCHANGED ckpt
          /\ Knows(ckpt)
      BY <1>12 DEF Places, Works, LiftsKnown
    <2>2. m \in me.mem.lifted
      BY <2>1 DEF MovesInOrder
    <2>3. /\ me'.mem.lifted = me.mem.lifted /\ me'.mem.placed = me.mem.placed \union {m}
          /\ \/ m \in me.mem.placed /\ UNCHANGED <<at, lift>>
             \/ lift[m] = Nothing /\ UNCHANGED <<at, lift>>
             \/ /\ at[Dst[m]] = Nothing
                /\ at' = [at EXCEPT ![Dst[m]] = lift[m]]
                /\ lift' = [lift EXCEPT ![m] = Nothing]
      BY <1>12 DEF Places, Works, Moves
    <2>4. lift'[m] = Nothing /\ \A n \in Move : n # m => lift'[n] = lift[n]
      BY <1>2, <2>3 DEF Disk, Knows
    <2>5. LiftsKnown'
      BY <1>1, <1>2, <2>1, <2>3, <2>4 DEF LiftsKnown, Knows
    <2>6. PlacedWereLifted'
      BY <1>1, <1>2, <1>3, <2>1, <2>2, <2>3 DEF PlacedWereLifted
    <2>7. MovesInOrder'
      BY <2>1, <2>3 DEF MovesInOrder
    <2>8. NoneLeftBehind'
      BY <1>1, <1>3, <2>1 DEF NoneLeftBehind, Ending
    <2>9. KnownPaths' /\ MovedFileSurvives'
      BY <2>3, FilesStand, FileLands DEF Stands
    <2> QED  BY <2>5, <2>6, <2>7, <2>8, <2>9
  <1> HIDE DEF MParts
  <1> QED
    BY <1>6, <1>7, <1>8, <1>9, <1>10, <1>11, <1>12, WorkMoves DEF MParts

\* Nobody learns anything new of the moved files, and nobody starts to work.
LEMMA QuietKeeps ==
    ASSUME MParts, Stands, UNCHANGED <<lift, ckpt>>,
           me' = me \/ (me'.pc = "idle" /\ me'.mem = NoCheckpoint /\ ~me.dirty),
           \/ act'["settler"] = act["settler"]
           \/ act'["settler"].pc \in {"idle", "waiting"} /\ act'["settler"].mem = NoCheckpoint
    PROVE  MParts'
  <1>1. me = act["executor"] /\ me' = act'["executor"]
        /\ \A a \in Actor : a = "executor" \/ a = "settler"
    BY DEF me, Actor
  <1>2. NoCheckpoint.placed \subseteq NoCheckpoint.lifted
    BY DEF NoCheckpoint
  <1>3. LiftsKnown'
    BY DEF MParts, LiftsKnown, Knows, Ending
  <1>4. PlacedWereLifted'
    BY <1>1, <1>2 DEF MParts, PlacedWereLifted
  <1>5. MovesInOrder'
    BY DEF MParts, MovesInOrder
  <1>6. NoneLeftBehind'
    BY <1>1 DEF MParts, NoneLeftBehind
  <1> QED
    BY <1>3, <1>4, <1>5, <1>6, FilesStand DEF MParts

\* An actor starts to put back what it knows of.
LEMMA EndingKeeps ==
    ASSUME MParts, Frame, NEW a \in Actor, NEW l \in Local, NEW outcome \in {"none", "queued", "failed"},
           act'[a] = PuttingBack(l, outcome), \A b \in Actor : b # a => act'[b] = act[b],
           Knows(l.mem), l.mem.placed \subseteq l.mem.lifted, ~me.dirty,
           UNCHANGED <<disk, ckpt>>
    PROVE  MParts'
  <1> DEFINE l2 == PuttingBack(l, outcome)
  <1>1. me = act["executor"] /\ me' = act'["executor"]
        /\ "executor" \in Actor /\ "settler" \in Actor /\ \A b \in Actor : b = "executor" \/ b = "settler"
    BY DEF me, Actor
  <1>2. l2.pc \in Ending /\ l2.mem = l.mem
    BY PuttingBackEffect
  <1>3. /\ l2.todo = l.mem.lifted \ l.mem.placed
        /\ l2.pc = "clearing" => l.mem.lifted = {}
    BY DEF PuttingBack, Local
  <1>4. act'[a] = l2 /\ UNCHANGED <<at, lift, ckpt>>
    BY DEF disk
  <1> HIDE DEF l2
  <1>5. LiftsKnown'
    BY <1>1, <1>2, <1>4 DEF MParts, LiftsKnown, Knows
  <1>6. PlacedWereLifted'
    BY <1>1, <1>2, <1>4 DEF MParts, PlacedWereLifted
  <1>7. MovesInOrder'
    BY <1>1, <1>2, <1>4 DEF MParts, MovesInOrder, Ending
  <1>8. /\ l2.pc = "putting" =>
               /\ l2.todo \intersect l2.mem.placed = {}
               /\ \A m \in Move : lift[m] # Nothing => m \in l2.todo \union l2.kept
        /\ l2.pc = "clearing" => \A m \in Move : lift[m] # Nothing => m \in l2.kept
    BY <1>2, <1>3 DEF Knows
  <1>9. NoneLeftBehind'
    BY <1>4, <1>8 DEF MParts, NoneLeftBehind
  <1> QED
    BY <1>4, <1>5, <1>6, <1>7, <1>9, FilesStand DEF MParts, Stands

\* It puts a file back, or keeps it.
LEMMA PutBackKeeps ==
    ASSUME MParts, Frame, NEW a \in Actor, NEW m \in Move, PutBack(a, m)
    PROVE  MParts'
  <1>1. me = act["executor"] /\ me' = act'["executor"]
        /\ "executor" \in Actor /\ "settler" \in Actor /\ \A b \in Actor : b = "executor" \/ b = "settler"
    BY DEF me, Actor
  <1>2. /\ act[a].pc = "putting" /\ m \in act[a].todo
        /\ act'[a].pc = "putting" /\ act'[a].todo = act[a].todo \ {m}
        /\ act'[a].dirty = act[a].dirty
        /\ \A b \in Actor : b # a => act'[b] = act[b]
        /\ UNCHANGED ckpt
        /\ act'[a].mem.placed = act[a].mem.placed
        /\ \/ /\ lift[m] # Nothing /\ at[Src[m]] = Nothing
              /\ at' = [at EXCEPT ![Src[m]] = lift[m]]
              /\ lift' = [lift EXCEPT ![m] = Nothing]
              /\ act'[a].mem.lifted = act[a].mem.lifted \ {m}
              /\ act'[a].kept = act[a].kept
           \/ /\ lift[m] = Nothing /\ UNCHANGED <<at, lift>>
              /\ act'[a].mem.lifted = act[a].mem.lifted \ {m}
              /\ act'[a].kept = act[a].kept
           \/ /\ UNCHANGED <<at, lift>>
              /\ act'[a].mem.lifted = act[a].mem.lifted
              /\ act'[a].kept = act[a].kept \union {m}
    BY PutBackEffect DEF Frame, Moves
  <1>3. /\ act["executor"].pc = "putting" => a = "executor"
        /\ act["settler"].pc \in Ending => a = "settler"
        /\ me.pc \notin Phase \union {"replacing", "finish"}
    BY <1>1, <1>2 DEF Frame, Mutex, Ending, Phase
  <1>4. ~me.dirty \/ a # "executor"
    BY <1>1, <1>2 DEF Frame, ExecutorRecorded, Phase
  <1>5. m \notin act[a].mem.placed /\ act[a].mem.placed \subseteq act[a].mem.lifted
    BY <1>2 DEF MParts, NoneLeftBehind, PlacedWereLifted
  <1>6. \A n \in Move : /\ lift'[n] # Nothing => lift[n] # Nothing
                        /\ n = m => lift'[n] = Nothing \/ act'[a].mem.lifted = act[a].mem.lifted
    BY <1>2 DEF Frame, Disk
  <1>7. LiftsKnown'
    <2>1. ~(me.dirty /\ me.pc = "lift")
      BY <1>3 DEF Phase
    <2>2. Knows(ckpt)'
      BY <1>2, <1>6, <2>1 DEF MParts, LiftsKnown, Knows
    <2>3. Knows(act[a].mem)
      BY <1>1, <1>2 DEF MParts, LiftsKnown, Ending
    <2>4. \A n \in Move : lift'[n] # Nothing => n \in act'[a].mem.lifted \ act'[a].mem.placed
      BY <1>2, <1>6, <2>3 DEF Knows
    <2>5. \A n \in Move : lift'[n] # Nothing => lift[n] # Nothing
      BY <1>6
    <2>6. me'.pc # "idle" => Knows(me.mem)'
      <3>1. CASE a = "executor"
        BY <1>1, <2>4, <3>1 DEF Knows
      <3>2. CASE a = "settler"
        BY <1>1, <1>2, <2>5, <3>2 DEF MParts, LiftsKnown, Knows
      <3> QED  BY <1>1, <3>1, <3>2
    <2>7. act'["settler"].pc \in Ending => Knows(act["settler"].mem)'
      <3>1. CASE a = "settler"
        BY <1>1, <2>4, <3>1 DEF Knows
      <3>2. CASE a = "executor"
        BY <1>1, <1>2, <1>3, <3>2
      <3> QED  BY <1>1, <3>1, <3>2
    <2> QED  BY <2>2, <2>6, <2>7 DEF LiftsKnown
  <1>8. PlacedWereLifted'
    BY <1>2, <1>5 DEF MParts, PlacedWereLifted
  <1>9. MovesInOrder'
    <2>1. me'.pc = me.pc
      BY <1>1, <1>2
    <2> QED  BY <1>3, <2>1 DEF MovesInOrder, Phase
  <1>10. NoneLeftBehind'
    <2>1. /\ act'[a].todo \intersect act'[a].mem.placed = {}
          /\ \A n \in Move : lift'[n] # Nothing => n \in act'[a].todo \union act'[a].kept
      BY <1>2, <1>6 DEF MParts, NoneLeftBehind, Frame, Disk
    <2>2. \A b \in Actor : b # a => act'[b].pc \notin {"putting", "clearing"}
      BY <1>1, <1>2 DEF Frame, Mutex
    <2> QED  BY <1>2, <2>1, <2>2 DEF NoneLeftBehind
  <1>11. KnownPaths' /\ MovedFileSurvives'
    BY <1>2, FilesStand, FileLands DEF MParts, Frame, Stands
  <1> QED  BY <1>7, <1>8, <1>9, <1>10, <1>11 DEF MParts

\* It saves what stays lifted, clears the staging folder, and leaves.
LEMMA LeavingKeeps ==
    ASSUME MParts, Frame, NEW a \in Actor, SavePutBack(a) \/ Clear(a) \/ Close(a)
    PROVE  MParts'
  <1>1. me = act["executor"] /\ me' = act'["executor"] /\ act[a] \in Local
        /\ "executor" \in Actor /\ "settler" \in Actor /\ \A b \in Actor : b = "executor" \/ b = "settler"
    BY DEF me, Actor, Frame, Acts
  <1>2. UNCHANGED at /\ act[a].pc \in Ending /\ \A b \in Actor : b # a => act'[b] = act[b]
    BY DEF SavePutBack, Clear, Close, Frame, Acts, Ending, disk
  <1>3. /\ \A b \in Actor : b # a => act[b].pc \in {"idle", "claimed", "waiting"}
        /\ me.pc \notin Phase \union {"replacing", "finish"}
    BY <1>1, <1>2 DEF Frame, Mutex, Ending, Phase
  <1>4. me'.pc = me.pc \/ me'.pc \in {"idle", "closing", "clearing"}
    BY <1>1, <1>2, IdleLocal DEF SavePutBack, Clear, Close, Frame, Acts, Local
  <1>5. MovesInOrder'
    BY <1>3, <1>4 DEF MovesInOrder, Phase
  <1>6. ~(me.dirty /\ me.pc = "lift") /\ Knows(act[a].mem) /\ Knows(ckpt)
    BY <1>1, <1>2, <1>3 DEF MParts, LiftsKnown, Ending, Phase
  <1>7. CASE SavePutBack(a)
    <2>1. /\ UNCHANGED lift /\ ckpt' = act[a].mem /\ act[a].pc = "putting" /\ act[a].todo = {}
          /\ act'[a].pc \in {"closing", "clearing"}
          /\ act'[a].mem = act[a].mem /\ act'[a].kept = act[a].kept
      BY <1>1, <1>7 DEF SavePutBack, disk, Frame, Acts, Local
    <2>2. LiftsKnown'
      BY <1>1, <1>2, <1>6, <2>1 DEF MParts, LiftsKnown, Knows
    <2>3. PlacedWereLifted'
      BY <1>2, <2>1 DEF MParts, PlacedWereLifted
    <2>4. NoneLeftBehind'
      BY <1>2, <2>1 DEF MParts, NoneLeftBehind
    <2> QED  BY <1>2, <1>5, <2>1, <2>2, <2>3, <2>4, FilesStand DEF MParts, Stands
  <1>8. CASE Clear(a)
    <2>1. \A m \in Move : lift[m] # Nothing => act[a].kept # {}
      BY <1>8 DEF Clear, MParts, NoneLeftBehind
    <2>2. lift' = lift
      <3>1. CASE act[a].kept = {}
        <4>1. lift \in [Move -> File \union {Nothing}] /\ \A m \in Move : lift[m] = Nothing
          BY <2>1, <3>1 DEF Frame, Disk
        <4> QED  BY <1>8, <3>1, <4>1 DEF Clear
      <3>2. CASE act[a].kept # {}
        BY <1>8, <3>2 DEF Clear
      <3> QED  BY <3>1, <3>2
    <2>3. UNCHANGED ckpt /\ act'[a].pc = "closing" /\ act'[a].mem = act[a].mem
      BY <1>1, <1>8 DEF Clear, Frame, Acts, Local
    <2>4. LiftsKnown'
      BY <1>1, <1>2, <1>6, <2>2, <2>3 DEF MParts, LiftsKnown, Knows
    <2>5. PlacedWereLifted'
      BY <1>2, <2>3 DEF MParts, PlacedWereLifted
    <2>6. NoneLeftBehind'
      BY <1>2, <2>2, <2>3 DEF MParts, NoneLeftBehind
    <2> QED  BY <1>2, <1>5, <2>2, <2>4, <2>5, <2>6, FilesStand DEF MParts, Stands
  <1>9. CASE Close(a)
    <2>1. UNCHANGED <<lift, ckpt>> /\ act'[a] = Idle
      BY <1>1, <1>9 DEF Close, disk, Frame, Acts
    <2>2. ~(a = "executor" /\ me.dirty)
      BY <1>1, <1>2 DEF Frame, ExecutorRecorded, Phase, Ending
    <2>3. /\ me' = me \/ (me'.pc = "idle" /\ me'.mem = NoCheckpoint /\ ~me.dirty)
          /\ \/ act'["settler"] = act["settler"]
             \/ act'["settler"].pc \in {"idle", "waiting"} /\ act'["settler"].mem = NoCheckpoint
      BY <1>1, <1>2, <2>1, <2>2, IdleLocal
    <2> QED  BY <1>2, <2>1, <2>3, QuietKeeps DEF Stands
  <1> QED  BY <1>7, <1>8, <1>9

\* Who waits has read nothing.
LEMMA WaitingLocal == Waiting.mem = NoCheckpoint /\ Waiting.pc = "waiting"
  BY DEF Waiting, Idle

\* Every step, but for a crash between a file's rename out of its place and
\* the checkpoint.
LEMMA MovesStep ==
    ASSUME MInv, Next, Crash => ~(me.dirty /\ me.pc = "lift")
    PROVE  MParts'
  <1>1. Frame /\ MParts
    BY TypesSplit DEF MInv, IInv, Frame, MParts
  <1>2. me = act["executor"] /\ me' = act'["executor"] /\ me \in Local
        /\ "executor" \in Actor /\ "settler" \in Actor /\ \A a \in Actor : a = "executor" \/ a = "settler"
    BY <1>1 DEF me, Actor, Frame, Acts
  <1>3. UNCHANGED at => Stands
    BY DEF Stands
  <1>4. CASE AtWork
    BY <1>1, <1>4, WorkKeeps
  <1>5. CASE Claim
    <2>1. /\ me.pc = "idle" /\ ~me.dirty /\ UNCHANGED <<at, lift, ckpt>>
          /\ act' = [act EXCEPT !["executor"] = [Idle EXCEPT !.pc = "claimed", !.mem = ckpt]]
      BY <1>1, <1>5 DEF Claim, disk, Frame, ExecutorRecorded, Phase
    <2>2. me'.pc = "claimed" /\ me'.mem = ckpt /\ act'["settler"] = act["settler"]
      BY <1>1, <1>2, <2>1, IdleLocal DEF Frame, Acts, Local
    <2>3. LiftsKnown'
      BY <1>1, <2>1, <2>2 DEF MParts, LiftsKnown, Knows
    <2>4. PlacedWereLifted'
      BY <1>1, <1>2, <2>1, <2>2 DEF MParts, PlacedWereLifted
    <2>5. MovesInOrder'
      BY <2>2 DEF MovesInOrder
    <2>6. NoneLeftBehind'
      BY <1>1, <1>2, <2>1, <2>2 DEF MParts, NoneLeftBehind
    <2> QED  BY <1>1, <1>3, <2>1, <2>3, <2>4, <2>5, <2>6, FilesStand DEF MParts
  <1>6. CASE Activate \/ EnterLibrary
    <2>1. /\ me.pc \in {"claimed", "waiting"} /\ ~me.dirty /\ UNCHANGED <<at, lift, ckpt>>
      BY <1>1, <1>6 DEF Activate, EnterLibrary, disk, Frame, ExecutorRecorded, Phase
    <2>2. me'.pc \in {"waiting", "stage"} /\ me'.mem = me.mem /\ act'["settler"] = act["settler"]
      BY <1>1, <1>2, <1>6 DEF Activate, EnterLibrary, Frame, Acts, Local
    <2>3. LiftsKnown'
      BY <1>1, <2>1, <2>2 DEF MParts, LiftsKnown, Knows
    <2>4. PlacedWereLifted'
      BY <1>1, <1>2, <2>1, <2>2 DEF MParts, PlacedWereLifted
    <2>5. MovesInOrder'
      BY <2>2 DEF MovesInOrder
    <2>6. NoneLeftBehind'
      BY <1>1, <1>2, <2>1, <2>2 DEF MParts, NoneLeftBehind
    <2> QED  BY <1>1, <1>3, <2>1, <2>3, <2>4, <2>5, <2>6, FilesStand DEF MParts
  <1>7. CASE GiveUpLibrary
    <2>1. /\ ~me.dirty /\ UNCHANGED <<at, lift, ckpt>>
          /\ act'["executor"] = Idle
          /\ act'["settler"] = act["settler"] \/ act'["settler"] = Waiting
      BY <1>1, <1>2, <1>7 DEF GiveUpLibrary, disk, Frame, Acts, ExecutorRecorded, Phase
    <2>2. me'.pc = "idle" /\ me'.mem = NoCheckpoint
      BY <1>2, <2>1, IdleLocal
    <2> QED  BY <1>1, <1>3, <2>1, <2>2, QuietKeeps, WaitingLocal
  <1>8. CASE Failing
    <2>1. me.pc = "failing" /\ ~me.dirty /\ UNCHANGED <<disk, ckpt>>
      BY <1>1, <1>8 DEF Failing, Frame, ExecutorRecorded, Phase
    <2>2. act'["settler"] = act["settler"]
      BY <1>1, <1>2, <1>8 DEF Failing, Frame, Acts
    <2>3. \/ act'["executor"] = Idle
          \/ \E outcome \in {"none", "queued", "failed"} : act'["executor"] = PuttingBack(me, outcome)
      BY <1>1, <1>2, <1>8 DEF Failing, Frame, Acts
    <2>4. CASE act'["executor"] = Idle
      <3>1. UNCHANGED <<at, lift, ckpt>>
        BY <2>1 DEF disk
      <3>2. me'.pc = "idle" /\ me'.mem = NoCheckpoint
        BY <1>2, <2>4, IdleLocal
      <3> QED  BY <1>1, <1>3, <2>1, <2>2, <3>1, <3>2, QuietKeeps
    <2>5. CASE \E outcome \in {"none", "queued", "failed"} : act'["executor"] = PuttingBack(me, outcome)
      <3>1. Knows(me.mem) /\ me.mem.placed \subseteq me.mem.lifted
        BY <1>1, <1>2, <2>1 DEF MParts, LiftsKnown, PlacedWereLifted
      <3>2. \A b \in Actor : b # "executor" => act'[b] = act[b]
        BY <1>2, <2>2
      <3> QED  BY <1>1, <1>2, <2>1, <2>5, <3>1, <3>2, EndingKeeps
    <2> QED  BY <2>3, <2>4, <2>5
  <1>9. CASE SettlerEnters
    <2> DEFINE l == [Idle EXCEPT !.mem = ckpt]
    <2>1. /\ UNCHANGED <<disk, ckpt>> /\ lock = "none"
          /\ act'["settler"] = PuttingBack(l, "none")
          /\ \A b \in Actor : b # "settler" => act'[b] = act[b]
      BY <1>1, <1>2, <1>9 DEF SettlerEnters, Frame, Acts
    <2>2. l \in Local /\ l.mem = ckpt
      BY <1>1, IdleLocal DEF Frame, Run, Local
    <2>3. me.pc \in {"idle", "claimed", "waiting"} /\ ~me.dirty
      BY <1>1, <1>2, <2>1 DEF Frame, Mutex, ExecutorRecorded, Phase, Actor
    <2>4. Knows(ckpt) /\ ckpt.placed \subseteq ckpt.lifted
      BY <1>1, <2>3 DEF MParts, LiftsKnown, PlacedWereLifted
    <2> HIDE DEF l
    <2> QED  BY <1>1, <1>2, <2>1, <2>2, <2>3, <2>4, EndingKeeps
  <1>10. CASE Signal \/ Start \/ Stop
    <2>1. UNCHANGED <<at, lift, ckpt>>
      BY <1>10 DEF Signal, Start, Stop, disk
    <2>2. \/ act' = act
          \/ \E l \in {Idle, Waiting, act["settler"]} : act' = [act EXCEPT !["settler"] = l]
      BY <1>10 DEF Signal, Start, Stop
    <2>3. me' = me /\ act'["settler"] \in {Idle, Waiting, act["settler"]}
      BY <1>1, <1>2, <2>2 DEF Frame, Acts
    <2> QED  BY <1>1, <1>3, <2>1, <2>3, QuietKeeps, IdleLocal, WaitingLocal
  <1>11. CASE CancelRun \/ Retry \/ Exit
    <2>1. UNCHANGED <<at, lift, ckpt, act>>
      BY <1>11 DEF CancelRun, Retry, Exit, disk
    <2>2. me' = me
      BY <2>1 DEF me
    <2> QED  BY <1>1, <1>3, <2>1, <2>2, QuietKeeps
  <1>12. ASSUME NEW p \in Path, Appear(p)
         PROVE  MParts'
    <2>1. Foreign \notin Move /\ Nothing \notin Move
      BY Plan
    <2>2. Stands
      BY <1>1, <1>12, <2>1 DEF Appear, Stands, Frame, Disk
    <2> QED  BY <1>1, <1>12, <2>2, QuietKeeps DEF Appear, me
  <1>13. CASE Crash
    <2>1. UNCHANGED <<at, lift, ckpt>> /\ act' = [a \in Actor |-> Idle] /\ ~(me.dirty /\ me.pc = "lift")
      BY <1>13 DEF Crash, disk
    <2>2. \A a \in Actor : act'[a].pc = "idle" /\ act'[a].mem = NoCheckpoint
      BY <2>1, IdleLocal
    <2>3. LiftsKnown'
      BY <1>1, <1>2, <2>1, <2>2 DEF MParts, LiftsKnown, Knows, Ending
    <2>4. PlacedWereLifted'
      BY <1>1, <2>1, <2>2 DEF MParts, PlacedWereLifted, NoCheckpoint
    <2>5. MovesInOrder'
      BY <1>2, <2>2 DEF MovesInOrder
    <2>6. NoneLeftBehind'
      BY <2>2 DEF NoneLeftBehind
    <2> QED  BY <1>1, <1>3, <2>1, <2>3, <2>4, <2>5, <2>6, FilesStand DEF MParts
  <1> QED
    BY <1>1, <1>4, <1>5, <1>6, <1>7, <1>8, <1>9, <1>10, <1>11, <1>12, <1>13, PutBackKeeps, LeavingKeeps
    DEF Next, ExecutorStep, SettlementStep, Environment, AtWork

-----------------------------------------------------------------------------
(* Theorems. *)

\* It holds at first,
LEMMA MovesInit == Init => MInv
  <1> SUFFICES ASSUME Init PROVE MInv
    OBVIOUS
  <1>1. IInv
    BY InitInvariant
  <1>2. at = Before /\ (\A m \in Move : lift[m] = Nothing) /\ ckpt = NoCheckpoint
        /\ (\A a \in Actor : act[a] = Idle) /\ me = Idle /\ act["settler"] = Idle
    BY DEF Init, Actor, me
  <1>3. LiftsKnown /\ PlacedWereLifted /\ MovesInOrder /\ NoneLeftBehind
    BY <1>2, IdleLocal
    DEF LiftsKnown, Knows, PlacedWereLifted, MovesInOrder, NoneLeftBehind, NoCheckpoint, Ending
  <1>4. KnownPaths
    BY <1>2, Plan DEF KnownPaths
  <1>5. MovedFileSurvives
    BY <1>2, Plan DEF MovedFileSurvives
  <1> QED  BY <1>1, <1>3, <1>4, <1>5 DEF MInv

\* The process never ends between the rename of a file out of its place and the
\* checkpoint that records it.
CrashesSpareLifting == [][Crash => ~(me.dirty /\ me.pc = "lift")]_vars

\* and every step keeps it that is no crash in that place.
LEMMA MovesInvariant ==
    ASSUME MInv, [Next]_vars, [Crash => ~(me.dirty /\ me.pc = "lift")]_vars
    PROVE  MInv'
  <1>1. IInv'
    BY StepInvariant DEF MInv
  <1>2. CASE Next /\ vars' # vars
    BY <1>1, <1>2, MovesStep DEF MInv, MParts
  <1>3. CASE UNCHANGED vars
    BY <1>1, <1>3
    DEF MInv, vars, disk, LiftsKnown, Knows, PlacedWereLifted, MovesInOrder, NoneLeftBehind,
        KnownPaths, MovedFileSurvives, me
  <1> QED  BY <1>2, <1>3

\* However often an edit is cancelled, fails, is retried, stopped or crashed, and
\* whatever others put into the folder: no moved file is lost, unless the process
\* ends between a rename of liftMoves and its checkpoint.  The run
\* folder_edit_lost shows that there it can be.
THEOREM OnlyLiftingIsFragile == Spec /\ CrashesSpareLifting => []MovedFileSurvives
  <1>1. MInv => MovedFileSurvives
    BY DEF MInv
  <1> QED  BY <1>1, MovesInit, MovesInvariant, PTL DEF Spec, CrashesSpareLifting

-----------------------------------------------------------------------------
(* What every step does to the folder. *)

\* remove takes the file the plan saw away,
Removes(p) ==
    /\ me.pc = "remove"
    /\ at[p] \in {Nothing, Before[p]}
    /\ at' = [at EXCEPT ![p] = Nothing]
    /\ UNCHANGED lift

\* liftMoves renames a file of the right size into the staging folder,
Takes(m) ==
    /\ me.pc = "lift" /\ m \notin me.mem.lifted
    /\ Matches(at[Src[m]], m)
    /\ at' = [at EXCEPT ![Src[m]] = Nothing]
    /\ lift' = [lift EXCEPT ![m] = at[Src[m]]]

\* publishItem removes a file of the size of the replaced one,
GivesWay(i) ==
    /\ me.pc = "publish" /\ i \in Replace /\ i \notin me.mem.published
    /\ at[Target[i]] # Nothing /\ Size[at[Target[i]]] = Size[Before[Target[i]]]
    /\ at' = [at EXCEPT ![Target[i]] = Nothing]
    /\ UNCHANGED lift

\* and renames the collected copy,
Lands(i) ==
    /\ me.pc \in {"publish", "replacing"}
    /\ at[Target[i]] = Nothing
    /\ at' = [at EXCEPT ![Target[i]] = copy[i]]
    /\ UNCHANGED lift

\* and a lifted file goes to its new path, or back to its old one.
Returns(m, p) ==
    /\ lift[m] # Nothing /\ at[p] = Nothing
    /\ at' = [at EXCEPT ![p] = lift[m]]
    /\ lift' = [lift EXCEPT ![m] = Nothing]

\* No step does anything else to the folder or to the lifted files.
LEMMA FolderSteps ==
    ASSUME Acts, Next
    PROVE  \/ UNCHANGED <<at, lift>>
           \/ \E a \in Actor : Clear(a)
           \/ \E p \in Path : Appear(p)
           \/ \E p \in Removal : Removes(p)
           \/ \E m \in Move : Takes(m) \/ Returns(m, Src[m]) \/ Returns(m, Dst[m])
           \/ \E i \in Item : GivesWay(i) \/ Lands(i)
  <1>1. CASE Claim \/ Activate \/ EnterLibrary \/ GiveUpLibrary \/ SaveCheckpoint \/ SaveRefused
             \/ Finish \/ Failing \/ SettlerEnters \/ CancelRun \/ Retry \/ Stop \/ Crash
             \/ Signal \/ Exit \/ Start
    BY <1>1 DEF Claim, Activate, EnterLibrary, GiveUpLibrary, SaveCheckpoint, SaveRefused, Finish,
                Failing, SettlerEnters, CancelRun, Retry, Stop, Crash, Signal, Exit, Start, disk
  <1>2. ASSUME NEW phase \in Phase \union {"finish"},
               NextPhase(phase) \/ PhaseRefused(phase) \/ StepFails(phase)
        PROVE  UNCHANGED <<at, lift>>
    BY <1>2 DEF NextPhase, PhaseRefused, StepFails, disk
  <1>3. ASSUME NEW i \in Item, Stage(i)
        PROVE  UNCHANGED <<at, lift>>
    BY <1>3 DEF Stage
  <1>4. ASSUME NEW p \in Removal, Remove(p)
        PROVE  UNCHANGED <<at, lift>> \/ Removes(p)
    BY <1>4 DEF Remove, In, Removes
  <1>5. ASSUME NEW m \in Move, Lift(m)
        PROVE  UNCHANGED <<at, lift>> \/ Takes(m)
    BY <1>5 DEF Lift, In, Takes
  <1>6. ASSUME NEW m \in Move, Place(m)
        PROVE  UNCHANGED <<at, lift>> \/ Returns(m, Dst[m])
    BY <1>6 DEF Place, Returns
  <1>7. ASSUME NEW i \in Item, PublishRename(i), UNCHANGED lift, me.pc \in {"publish", "replacing"}
        PROVE  UNCHANGED <<at, lift>> \/ Lands(i)
    BY <1>7, RenameEffect DEF Lands
  <1>8. ASSUME NEW i \in Item, Publish(i)
        PROVE  UNCHANGED <<at, lift>> \/ GivesWay(i) \/ Lands(i)
    BY <1>7, <1>8 DEF Publish, In, GivesWay
  <1>9. ASSUME NEW i \in Item, PublishReplacing(i)
        PROVE  UNCHANGED <<at, lift>> \/ Lands(i)
    BY <1>7, <1>9 DEF PublishReplacing
  <1>10. ASSUME NEW a \in Actor, NEW m \in Move, PutBack(a, m)
         PROVE  UNCHANGED <<at, lift>> \/ Returns(m, Src[m])
    BY <1>10 DEF PutBack, Returns
  <1>11. ASSUME NEW a \in Actor, SavePutBack(a) \/ Close(a)
         PROVE  UNCHANGED <<at, lift>>
    BY <1>11 DEF SavePutBack, Close, disk
  <1> QED
    BY <1>1, <1>2, <1>3, <1>4, <1>5, <1>6, <1>8, <1>9, <1>10, <1>11
    DEF Next, ExecutorStep, SettlementStep, Environment

-----------------------------------------------------------------------------
(* Files of somebody else. *)

\* The size of a file of somebody else differs from that of the replaced files.
ReplacedStandsOut == \A i \in Replace : Size[Foreign] # Size[Before[Target[i]]]

\* Where such files are.
ForeignAt == {p \in Path : at[p] = Foreign}
ForeignLifted == {m \in Move : lift[m] = Foreign}

\* Each of them is somewhere.
ForeignCounted ==
    /\ IsFiniteSet(ForeignAt)
    /\ Cardinality(ForeignAt) + Cardinality(ForeignLifted) = Budget["appear"] - left["appear"]

\* The budget of appearances counts the files that appeared.
LEMMA AppearsSpent ==
    ASSUME left \in [Occasion -> Nat], Next
    PROVE  \/ left'["appear"] = left["appear"]
           \/ \E p \in Path : Appear(p)
  <1>1. ASSUME NEW o \in Occasion \ {"appear"}, Spend(o)
        PROVE  left'["appear"] = left["appear"]
    BY <1>1 DEF Spend, Occasion
  <1>2. {"cancel", "retry", "fail", "stop", "crash"} \subseteq Occasion \ {"appear"}
    BY DEF Occasion
  <1>3. ASSUME NEW spent \in {0, 1}, Release(spent)
        PROVE  left'["appear"] = left["appear"]
    BY <1>3 DEF Release, Occasion
  <1>4. CASE GiveUpLibrary \/ Failing \/ Start
    BY <1>1, <1>2, <1>3, <1>4 DEF GiveUpLibrary, Failing, Start
  <1>5. ASSUME NEW phase \in Phase \union {"finish"},
               NextPhase(phase) \/ PhaseRefused(phase) \/ StepFails(phase)
        PROVE  left'["appear"] = left["appear"]
    BY <1>1, <1>2, <1>5 DEF NextPhase, PhaseRefused, StepFails
  <1>6. CASE CancelRun \/ Retry \/ Stop \/ Crash
    BY <1>1, <1>2, <1>6 DEF CancelRun, Retry, Stop, Crash
  <1>7. CASE Claim \/ Activate \/ EnterLibrary \/ SaveCheckpoint \/ SaveRefused
             \/ Finish \/ SettlerEnters \/ Signal \/ Exit
    BY <1>7 DEF Claim, Activate, EnterLibrary, SaveCheckpoint, SaveRefused, Finish, SettlerEnters,
                Signal, Exit
  <1>8. ASSUME NEW i \in Item, Stage(i) \/ Publish(i) \/ PublishReplacing(i)
        PROVE  left' = left
    BY <1>8 DEF Stage, Publish, PublishReplacing
  <1>9. ASSUME NEW p \in Removal, Remove(p)
        PROVE  left' = left
    BY <1>9 DEF Remove
  <1>10. ASSUME NEW m \in Move, Lift(m) \/ Place(m)
         PROVE  left' = left
    BY <1>10 DEF Lift, Place
  <1>11. ASSUME NEW a \in Actor, (\E m \in Move : PutBack(a, m)) \/ SavePutBack(a) \/ Clear(a) \/ Close(a)
         PROVE  left' = left
    BY <1>11 DEF PutBack, SavePutBack, Clear, Close
  <1> QED
    BY <1>4, <1>5, <1>6, <1>7, <1>8, <1>9, <1>10, <1>11
    DEF Next, ExecutorStep, SettlementStep, Environment

\* What is cleared holds no file.
LEMMA ClearTakesNothing ==
    ASSUME NoneLeftBehind, Disk, NEW a \in Actor, Clear(a)
    PROVE  UNCHANGED <<at, lift>>
  <1>1. CASE act[a].kept = {}
    <2>1. lift \in [Move -> File \union {Nothing}] /\ \A m \in Move : lift[m] = Nothing
      BY <1>1 DEF Clear, NoneLeftBehind, Disk
    <2> QED  BY <1>1, <2>1 DEF Clear
  <1>2. CASE act[a].kept # {}
    BY <1>2 DEF Clear
  <1> QED  BY <1>1, <1>2

\* No step takes such a file away, and each that appears is counted.
LEMMA ForeignStep ==
    ASSUME ReplacedStandsOut, Frame, MParts, ForeignCounted, Next
    PROVE  ForeignCounted'
  <1>1. /\ Acts /\ Disk /\ OwnCopies /\ left \in [Occasion -> Nat]
        /\ Budget["appear"] \in Nat /\ left["appear"] \in Nat /\ "appear" \in Occasion
    BY FolderEditAssumption DEF Frame, Run, Occasion
  <1>2. /\ Foreign # Nothing
        /\ \A p \in Path : Before[p] # Foreign
        /\ \A i \in Item : i # Foreign
    BY FolderEditAssumption
  <1>3. /\ IsFiniteSet(ForeignAt) /\ IsFiniteSet(ForeignLifted)
        /\ Cardinality(ForeignAt) \in Nat /\ Cardinality(ForeignLifted) \in Nat
        /\ Cardinality(ForeignAt) + Cardinality(ForeignLifted) = Budget["appear"] - left["appear"]
    <2>1. IsFiniteSet(Move) /\ ForeignLifted \in SUBSET Move
      BY FolderEditAssumption DEF ForeignLifted
    <2> QED  BY <2>1, FS_Subset, FS_CardinalityType DEF ForeignCounted
  <1>4. ASSUME NEW p \in Path, Appear(p)
        PROVE  ForeignCounted'
    <2>1. at[p] = Nothing /\ at' = [at EXCEPT ![p] = Foreign] /\ UNCHANGED lift
          /\ left'["appear"] = left["appear"] - 1
      BY <1>1, <1>4 DEF Appear, Spend
    <2>2. ForeignAt' = ForeignAt \union {p} /\ p \notin ForeignAt /\ ForeignLifted' = ForeignLifted
      BY <1>1, <1>2, <2>1 DEF ForeignAt, ForeignLifted, Disk
    <2>3. IsFiniteSet(ForeignAt') /\ Cardinality(ForeignAt') = Cardinality(ForeignAt) + 1
      BY <1>3, <2>2, FS_AddElement
    <2> QED  BY <1>1, <1>3, <2>1, <2>2, <2>3 DEF ForeignCounted
  <1>5. ASSUME left'["appear"] = left["appear"], ForeignAt' = ForeignAt, ForeignLifted' = ForeignLifted
        PROVE  ForeignCounted'
    BY <1>5 DEF ForeignCounted
  <1>6. ASSUME left'["appear"] = left["appear"], ~\E p \in Path : Appear(p)
        PROVE  ForeignCounted'
    <2>1. CASE UNCHANGED <<at, lift>>
      BY <1>5, <1>6, <2>1 DEF ForeignAt, ForeignLifted
    <2>2. CASE \E a \in Actor : Clear(a)
      BY <1>1, <2>1, <2>2, ClearTakesNothing DEF MParts
    <2>3. ASSUME NEW p \in Path, NEW f, at' = [at EXCEPT ![p] = f], at[p] # Foreign, f # Foreign,
                 UNCHANGED lift
          PROVE  ForeignCounted'
      <3>1. ForeignAt' = ForeignAt /\ ForeignLifted' = ForeignLifted
        BY <1>1, <2>3 DEF ForeignAt, ForeignLifted, Disk
      <3> QED  BY <1>5, <1>6, <3>1
    <2>4. ASSUME NEW p \in Removal, Removes(p)
          PROVE  ForeignCounted'
      <3>1. p \in Path /\ at[p] # Foreign
        BY <1>2, <2>4, Plan DEF Removes
      <3> QED  BY <1>2, <2>3, <2>4, <3>1 DEF Removes
    <2>5. ASSUME NEW i \in Item, GivesWay(i)
          PROVE  ForeignCounted'
      <3>1. Target[i] \in Path /\ at[Target[i]] # Foreign
        BY <2>5, Plan DEF GivesWay, ReplacedStandsOut
      <3> QED  BY <1>2, <2>3, <2>5, <3>1 DEF GivesWay
    <2>6. ASSUME NEW i \in Item, Lands(i)
          PROVE  ForeignCounted'
      <3>1. Target[i] \in Path /\ at[Target[i]] # Foreign /\ copy[i] # Foreign
        BY <1>1, <1>2, <2>6, Plan DEF Lands, OwnCopies
      <3> QED  BY <2>3, <2>6, <3>1 DEF Lands
    <2>7. ASSUME NEW m \in Move, Takes(m)
          PROVE  ForeignCounted'
      <3>1. Src[m] \in Path /\ lift[m] = Nothing
        BY <2>7, Plan DEF Takes, MParts, LiftsKnown, Knows
      <3>2. CASE at[Src[m]] = Foreign
        <4>1. /\ ForeignAt' = ForeignAt \ {Src[m]} /\ Src[m] \in ForeignAt
              /\ ForeignLifted' = ForeignLifted \union {m} /\ m \notin ForeignLifted
          BY <1>1, <1>2, <2>7, <3>1, <3>2 DEF Takes, ForeignAt, ForeignLifted, Disk
        <4>2. /\ IsFiniteSet(ForeignAt') /\ Cardinality(ForeignAt') = Cardinality(ForeignAt) - 1
              /\ Cardinality(ForeignLifted') = Cardinality(ForeignLifted) + 1
          BY <1>3, <4>1, FS_AddElement, FS_RemoveElement
        <4> QED  BY <1>1, <1>3, <1>6, <4>2 DEF ForeignCounted
      <3>3. CASE at[Src[m]] # Foreign
        <4>1. ForeignAt' = ForeignAt /\ ForeignLifted' = ForeignLifted
          BY <1>1, <1>2, <2>7, <3>1, <3>3 DEF Takes, ForeignAt, ForeignLifted, Disk
        <4> QED  BY <1>5, <1>6, <4>1
      <3> QED  BY <3>2, <3>3
    <2>8. ASSUME NEW m \in Move, NEW p \in {Src[m], Dst[m]}, Returns(m, p)
          PROVE  ForeignCounted'
      <3>1. p \in Path
        BY Plan
      <3>2. CASE lift[m] = Foreign
        <4>1. /\ ForeignAt' = ForeignAt \union {p} /\ p \notin ForeignAt
              /\ ForeignLifted' = ForeignLifted \ {m} /\ m \in ForeignLifted
          BY <1>1, <1>2, <2>8, <3>1, <3>2 DEF Returns, ForeignAt, ForeignLifted, Disk
        <4>2. /\ IsFiniteSet(ForeignAt') /\ Cardinality(ForeignAt') = Cardinality(ForeignAt) + 1
              /\ Cardinality(ForeignLifted') = Cardinality(ForeignLifted) - 1
          BY <1>3, <4>1, FS_AddElement, FS_RemoveElement
        <4> QED  BY <1>1, <1>3, <1>6, <4>2 DEF ForeignCounted
      <3>3. CASE lift[m] # Foreign
        <4>1. ForeignAt' = ForeignAt /\ ForeignLifted' = ForeignLifted
          BY <1>1, <1>2, <2>8, <3>1, <3>3 DEF Returns, ForeignAt, ForeignLifted, Disk
        <4> QED  BY <1>5, <1>6, <4>1
      <3> QED  BY <3>2, <3>3
    <2> QED
      BY <1>1, <1>6, <2>1, <2>2, <2>4, <2>5, <2>6, <2>7, <2>8, FolderSteps
  <1> QED
    BY <1>1, <1>4, <1>6, AppearsSpent

\* At first there is none.
LEMMA ForeignInit == Init => ForeignCounted
  <1> SUFFICES ASSUME Init PROVE ForeignCounted
    OBVIOUS
  <1>1. ForeignAt = {} /\ ForeignLifted = {}
    <2>1. at = Before /\ \A m \in Move : lift[m] = Nothing
      BY DEF Init
    <2>2. Foreign # Nothing /\ \A p \in Path : Before[p] # Foreign
      BY FolderEditAssumption
    <2> QED  BY <2>1, <2>2 DEF ForeignAt, ForeignLifted
  <1>2. Budget["appear"] \in Nat /\ left = Budget
    BY FolderEditAssumption DEF Init, Occasion
  <1> QED  BY <1>1, <1>2, FS_EmptySet DEF ForeignCounted

\* No step removes a file that somebody else puts into the folder, renames over it, or clears
\* it away with the staging folder, under the same hypothesis on crashes, where its size is
\* not that of a file the edit replaces: publishItem tells the replaced file by its size.
THEOREM ForeignKept ==
    ReplacedStandsOut => (Spec /\ CrashesSpareLifting => []ForeignFileKept)
  <1> SUFFICES ASSUME ReplacedStandsOut PROVE Spec /\ CrashesSpareLifting => []ForeignFileKept
    OBVIOUS
  <1>1. ASSUME MInv, ForeignCounted, [Next]_vars
        PROVE  ForeignCounted'
    <2>1. CASE Next
      <3>1. Frame /\ MParts
        BY <1>1, TypesSplit DEF MInv, IInv, Frame, MParts
      <3> QED  BY <1>1, <2>1, <3>1, ForeignStep
    <2>2. CASE UNCHANGED vars
      BY <1>1, <2>2 DEF vars, ForeignCounted, ForeignAt, ForeignLifted
    <2> QED  BY <1>1, <2>1, <2>2
  <1>2. ForeignCounted => ForeignFileKept
    BY DEF ForeignCounted, ForeignAt, ForeignLifted, ForeignFileKept
  <1> QED
    BY <1>1, <1>2, MovesInit, MovesInvariant, ForeignInit, PTL DEF Spec, CrashesSpareLifting

-----------------------------------------------------------------------------
(* What a success says. *)

\* The size of a moved file tells it from every other, as existingFileMatches takes for granted.
SizesTell == \A m \in Move, f \in File : Size[f] = Size[m] => f = m

\* A file in the staging folder is the one it was lifted as.
LiftsOwn == \A m \in Move : lift[m] \in {m, Nothing}

\* What a record says of the folder.
Claims(mem) == <<mem.removed, mem.published, mem.placed>>

Holds(mem, folder) ==
    /\ \A p \in mem.removed : folder[p] # Before[p]
    /\ \A i \in mem.published : folder[Target[i]] = i
    /\ \A m \in mem.placed : folder[Dst[m]] = m

\* It is true in every record that somebody works from or will read.
RecordsTrue ==
    /\ Holds(ckpt, at)
    /\ me.pc # "idle" => Holds(me.mem, at)
    /\ act["settler"].pc \in Ending => Holds(act["settler"].mem, at)

\* No phase begins before the earlier ones have recorded all of theirs.
PhasesInOrder ==
    /\ me.pc = "remove" => Removal \subseteq me.todo \union me.mem.removed
    /\ me.pc \in {"lift", "publish", "replacing", "place", "finish"} => Removal \subseteq me.mem.removed
    /\ me.pc \in {"publish", "replacing"} => Item \subseteq me.todo \union me.mem.published
    /\ me.pc = "replacing" => First(me.todo) \notin me.mem.published
    /\ me.pc \in {"place", "finish"} => Item \subseteq me.mem.published
    /\ me.pc = "place" => Move \subseteq me.todo \union me.mem.placed
    /\ me.pc = "finish" => Move \subseteq me.mem.placed

\* Behind a success the executor only cleans up.
NothingAfterSuccess == status = "succeeded" => me.pc \in {"idle", "clearing", "closing"}

\* The inductive invariant behind the truth of a success.
TInv ==
    /\ IInv
    /\ LiftsOwn
    /\ RecordsTrue
    /\ PhasesInOrder
    /\ NothingAfterSuccess
    /\ SuccessIsComplete

\* A file of the right size is the right one.
LEMMA SizeTells ==
    ASSUME SizesTell, Disk, NEW m \in Move
    PROVE  /\ \A p \in Path : Matches(at[p], m) => at[p] = m
           /\ \A n \in Move : Matches(lift[n], m) => lift[n] = m
  BY DEF SizesTell, Disk, Matches

\* liftMoves takes no file for another (Takes), and nothing else fills the staging folder.
LEMMA LiftsOwnStep ==
    ASSUME SizesTell, Acts, Disk, LiftsOwn, Next
    PROVE  LiftsOwn'
  <1>1. CASE UNCHANGED lift
    BY <1>1 DEF LiftsOwn
  <1>2. ASSUME NEW a \in Actor, Clear(a)
        PROVE  LiftsOwn'
    BY <1>2 DEF Clear, LiftsOwn
  <1>3. ASSUME NEW m \in Move, Takes(m)
        PROVE  LiftsOwn'
    <2>1. at[Src[m]] = m
      BY <1>3, SizeTells, Plan DEF Takes
    <2> QED  BY <1>3, <2>1 DEF Takes, LiftsOwn, Disk
  <1>4. ASSUME NEW m \in Move, NEW p, Returns(m, p)
        PROVE  LiftsOwn'
    BY <1>4 DEF Returns, LiftsOwn, Disk
  <1> QED
    BY <1>1, <1>2, <1>3, <1>4, FolderSteps DEF Appear, Removes, GivesWay, Lands

\* The plan, as far as records go.
LEMMA PlanOfRecords ==
    /\ \A p \in Removal : p \in Path /\ Before[p] \notin Move \union Item \union {Nothing, Foreign}
    /\ \A i, j \in Item : i # j => Target[i] # Target[j]
    /\ \A i \in Replace : Target[i] \notin Removal
    /\ \A m, n \in Move : m # n => Dst[m] # Dst[n]
    /\ \A m \in Move : Src[m] # Dst[m]
    /\ Foreign # Nothing
  <1>1. \A p \in Removal : p \in Path /\ Before[p] # Nothing /\ Before[p] \notin Item \union {Foreign}
    BY FolderEditAssumption
  <1>2. \A i, j \in Item : i # j => Target[i] # Target[j]
    BY FolderEditAssumption
  <1>3. \A i \in Replace : Target[i] \notin Removal
    BY FolderEditAssumption
  <1>4. \A m, n \in Move : m # n => Dst[m] # Dst[n]
    BY FolderEditAssumption
  <1>5. (\A m \in Move : Src[m] # Dst[m]) /\ Foreign # Nothing
    BY FolderEditAssumption
  <1> QED  BY <1>1, <1>2, <1>3, <1>4, <1>5, Plan

\* What was true stays true, but for what is published again.
LEMMA TruthLasts ==
    ASSUME SizesTell, Acts, Disk, OwnCopies, LiftsOwn, Next,
           NEW mem \in Checkpoint, Holds(mem, at),
           me.pc = "publish" => mem.published \subseteq me.mem.published
    PROVE  Holds(mem, at')
  <1>1. /\ mem.removed \subseteq Removal /\ mem.published \subseteq Item /\ mem.placed \subseteq Move
        /\ \A i \in Item : Target[i] \in Path
        /\ \A m \in Move : Dst[m] \in Path /\ Src[m] \in Path
        /\ \A i \in Item, m \in Move : Target[i] # Dst[m]
        /\ Move \intersect Item = {} /\ Nothing \notin Move /\ Nothing \notin Item
    BY Plan DEF Checkpoint
  <1>2. CASE UNCHANGED at
    BY <1>2 DEF Holds
  <1>3. ASSUME NEW p \in Path, Appear(p)
        PROVE  Holds(mem, at')
    BY <1>1, <1>3, PlanOfRecords DEF Appear, Holds, Disk
  <1>4. ASSUME NEW p \in Removal, Removes(p)
        PROVE  Holds(mem, at')
    <2>1. /\ p \in Path /\ at' = [at EXCEPT ![p] = Nothing]
          /\ at[p] \notin Move \union Item /\ Before[p] # Nothing
      BY <1>1, <1>4, PlanOfRecords DEF Removes
    <2> QED  BY <1>1, <2>1 DEF Holds, Disk
  <1>5. ASSUME NEW m \in Move, Takes(m)
        PROVE  Holds(mem, at')
    <2>1. at[Src[m]] = m /\ at' = [at EXCEPT ![Src[m]] = Nothing]
      BY <1>1, <1>5, SizeTells DEF Takes
    <2>2. \A p \in mem.removed : at'[p] # Before[p]
      BY <1>1, <2>1, PlanOfRecords DEF Holds, Disk
    <2>3. \A i \in mem.published : at'[Target[i]] = i
      BY <1>1, <2>1 DEF Holds, Disk
    <2>4. \A n \in mem.placed : at'[Dst[n]] = n
      BY <1>1, <2>1, PlanOfRecords DEF Holds, Disk
    <2> QED  BY <2>2, <2>3, <2>4 DEF Holds
  <1>6. ASSUME NEW i \in Item, GivesWay(i)
        PROVE  Holds(mem, at')
    <2>1. /\ i \in Replace /\ i \notin mem.published /\ at' = [at EXCEPT ![Target[i]] = Nothing]
      BY <1>6 DEF GivesWay
    <2>2. \A p \in mem.removed : at'[p] # Before[p]
      BY <1>1, <2>1, PlanOfRecords DEF Holds, Disk
    <2>3. \A j \in mem.published : at'[Target[j]] = j
      BY <1>1, <2>1, PlanOfRecords DEF Holds, Disk
    <2>4. \A n \in mem.placed : at'[Dst[n]] = n
      BY <1>1, <2>1 DEF Holds, Disk
    <2> QED  BY <2>2, <2>3, <2>4 DEF Holds
  <1>7. ASSUME NEW p \in Path, NEW f \in Move \union Item \union {Nothing}, at[p] = Nothing,
               at' = [at EXCEPT ![p] = f]
        PROVE  Holds(mem, at')
    <2>1. \A q \in mem.removed : at'[q] # Before[q]
      BY <1>1, <1>7, PlanOfRecords DEF Holds, Disk
    <2>2. \A i \in mem.published : at'[Target[i]] = i
      BY <1>1, <1>7 DEF Holds, Disk
    <2>3. \A m \in mem.placed : at'[Dst[m]] = m
      BY <1>1, <1>7 DEF Holds, Disk
    <2> QED  BY <2>1, <2>2, <2>3 DEF Holds
  <1>8. ASSUME NEW i \in Item, Lands(i)
        PROVE  Holds(mem, at')
    BY <1>1, <1>7, <1>8 DEF Lands, OwnCopies
  <1>9. ASSUME NEW m \in Move, NEW p \in {Src[m], Dst[m]}, Returns(m, p)
        PROVE  Holds(mem, at')
    <2>1. lift[m] = m
      BY <1>9 DEF Returns, LiftsOwn
    <2> QED  BY <1>1, <1>7, <1>9, <2>1 DEF Returns
  <1>10. ASSUME NEW a \in Actor, Clear(a)
         PROVE  Holds(mem, at')
    BY <1>2, <1>10 DEF Clear
  <1> QED
    BY <1>2, <1>3, <1>4, <1>5, <1>6, <1>8, <1>9, <1>10, FolderSteps

\* The executor is at work: what it records is true.
LEMMA ClaimFields ==
    ASSUME NEW mem \in Checkpoint
    PROVE  /\ \A i \in Item : Claims([mem EXCEPT !.staged = @ \union {i}]) = Claims(mem)
           /\ \A i \in Item : Claims([mem EXCEPT !.published = @ \union {i}]) =
                                 <<mem.removed, mem.published \union {i}, mem.placed>>
           /\ \A p \in Removal : Claims([mem EXCEPT !.removed = @ \union {p}]) =
                                 <<mem.removed \union {p}, mem.published, mem.placed>>
           /\ \A m \in Move : Claims([mem EXCEPT !.lifted = @ \union {m}]) = Claims(mem)
           /\ \A m \in Move : Claims([mem EXCEPT !.placed = @ \union {m}]) =
                                 <<mem.removed, mem.published, mem.placed \union {m}>>
  BY DEF Checkpoint, Claims

\* What the executor records is true, and it skips nothing that is not recorded.
LEMMA WorkTells ==
    ASSUME SizesTell, Acts, Disk, OwnCopies, LiftsOwn, ExecutorRecorded, CollectedFirst,
           PhasesInOrder, Holds(me.mem, at), AtWork, Next
    PROVE  Holds(me'.mem, at') /\ PhasesInOrder'
  <1>1. /\ me \in Local /\ me.mem \in Checkpoint /\ "executor" \in Actor
        /\ me' = act'["executor"]
    BY DEF Acts, Actor, Local, me
  <1>2. Holds(me.mem, at')
    BY <1>1, TruthLasts
  <1>3. ASSUME Claims(me'.mem) = Claims(me.mem)
        PROVE  /\ Holds(me'.mem, at')
               /\ me'.mem.removed = me.mem.removed /\ me'.mem.published = me.mem.published
               /\ me'.mem.placed = me.mem.placed
    <2>1. /\ me'.mem.removed = me.mem.removed /\ me'.mem.published = me.mem.published
          /\ me'.mem.placed = me.mem.placed
      BY <1>3 DEF Claims
    <2> QED  BY <1>2, <2>1 DEF Holds
  <1>4. ASSUME NEW outcome \in {"queued", "failed"}, FailsAs(outcome)
        PROVE  Holds(me'.mem, at') /\ PhasesInOrder'
    BY <1>2, <1>4, FailsEffect DEF PhasesInOrder
  <1>5. CASE SaveCheckpoint
    <2>1. /\ me'.pc = me.pc /\ me'.mem = me.mem /\ me'.todo = me.todo
      BY <1>1, <1>5 DEF SaveCheckpoint, Acts, Local, me
    <2> QED  BY <1>2, <2>1 DEF PhasesInOrder
  <1>6. CASE SaveRefused
    BY <1>4, <1>6 DEF SaveRefused, Fails
  <1>7. ASSUME NEW phase \in Phase, NextPhase(phase)
        PROVE  Holds(me'.mem, at') /\ PhasesInOrder'
    <2>1. /\ me'.pc = After(phase) /\ me'.mem = me.mem /\ me'.todo = Loop(After(phase))
      BY <1>1, <1>7 DEF NextPhase, Acts, Local, me
    <2>2. me.pc = phase /\ me.todo = {}
      BY <1>7 DEF NextPhase, In
    <2>3. PhasesInOrder'
      BY <2>1, <2>2 DEF PhasesInOrder, After, Loop, Phase
    <2> QED  BY <1>2, <2>1, <2>3
  <1>8. ASSUME NEW phase \in Phase \union {"finish"}, PhaseRefused(phase) \/ StepFails(phase)
        PROVE  Holds(me'.mem, at') /\ PhasesInOrder'
    BY <1>4, <1>8 DEF PhaseRefused, StepFails, Fails
  <1>9. CASE Finish
    <2>1. me'.pc = "clearing" /\ me'.mem = me.mem
      BY <1>1, <1>9 DEF Finish, Acts, Local, me
    <2> QED  BY <1>2, <2>1 DEF PhasesInOrder
  <1>10. ASSUME NEW i \in Item, Stage(i)
         PROVE  Holds(me'.mem, at') /\ PhasesInOrder'
    <2>1. me.pc = "stage" /\ UNCHANGED at
      BY <1>10 DEF Stage, In
    <2>2. CASE Fails
      BY <1>4, <2>2 DEF Fails
    <2>3. CASE Skip(i)
      <3>1. me'.pc = "stage" /\ me'.mem = me.mem
        BY <2>1, <2>3, SkipEffect
      <3> QED  BY <1>2, <3>1 DEF PhasesInOrder
    <2>4. CASE Did(i, [me.mem EXCEPT !.staged = @ \union {i}])
      <3> DEFINE mem == [me.mem EXCEPT !.staged = @ \union {i}]
      <3>1. mem \in Checkpoint /\ Claims(mem) = Claims(me.mem)
        BY <1>1, CheckpointUpdates, ClaimFields
      <3> HIDE DEF mem
      <3>2. me'.pc = "stage" /\ Claims(me'.mem) = Claims(me.mem)
        BY <2>1, <2>4, <3>1, DidEffect DEF mem
      <3> QED  BY <1>3, <3>2 DEF PhasesInOrder
    <2>5. CASE Proven(i) /\ Did(i, [me.mem EXCEPT !.published = @ \union {i}])
      <3> DEFINE mem == [me.mem EXCEPT !.published = @ \union {i}]
      <3>1. /\ mem \in Checkpoint
            /\ Claims(mem) = <<me.mem.removed, me.mem.published \union {i}, me.mem.placed>>
        BY <1>1, CheckpointUpdates, ClaimFields
      <3> HIDE DEF mem
      <3>2. me'.pc = "stage" /\ me'.mem = mem
        BY <2>1, <2>5, <3>1, DidEffect DEF mem
      <3>3. Holds(me'.mem, at')
        BY <1>2, <2>1, <2>5, <3>1, <3>2 DEF Claims, Holds, Proven
      <3> QED  BY <3>2, <3>3 DEF PhasesInOrder
    <2> QED  BY <1>10, <2>2, <2>3, <2>4, <2>5 DEF Stage
  <1>11. ASSUME NEW p \in Removal, Remove(p)
         PROVE  Holds(me'.mem, at') /\ PhasesInOrder'
    <2>1. me.pc = "remove"
      BY <1>11 DEF Remove, In
    <2>2. CASE Fails
      BY <1>4, <2>2 DEF Fails
    <2>3. CASE p \in me.mem.removed /\ Skip(p)
      <3>1. me'.pc = "remove" /\ me'.mem = me.mem /\ me'.todo = me.todo \ {p}
        BY <2>1, <2>3, SkipEffect
      <3>2. PhasesInOrder'
        BY <2>1, <2>3, <3>1 DEF PhasesInOrder
      <3> QED  BY <1>2, <3>1, <3>2
    <2>4. CASE /\ at' = [at EXCEPT ![p] = Nothing]
               /\ Did(p, [me.mem EXCEPT !.removed = @ \union {p}])
      <3> DEFINE mem == [me.mem EXCEPT !.removed = @ \union {p}]
      <3>1. /\ mem \in Checkpoint
            /\ Claims(mem) = <<me.mem.removed \union {p}, me.mem.published, me.mem.placed>>
        BY <1>1, CheckpointUpdates, ClaimFields
      <3> HIDE DEF mem
      <3>2. /\ me'.pc = "remove" /\ me'.todo = me.todo \ {p}
            /\ me'.mem.removed = me.mem.removed \union {p}
            /\ me'.mem.published = me.mem.published /\ me'.mem.placed = me.mem.placed
        BY <2>1, <2>4, <3>1, DidEffect DEF mem, Claims
      <3>3. at'[p] # Before[p]
        BY <2>4, PlanOfRecords DEF Disk
      <3>4. Holds(me'.mem, at')
        BY <1>2, <3>2, <3>3 DEF Holds
      <3>5. PhasesInOrder'
        BY <2>1, <3>2 DEF PhasesInOrder
      <3> QED  BY <3>4, <3>5
    <2> QED  BY <1>11, <2>2, <2>3, <2>4 DEF Remove
  <1>12. ASSUME NEW m \in Move, Lift(m)
         PROVE  Holds(me'.mem, at') /\ PhasesInOrder'
    <2>1. me.pc = "lift"
      BY <1>12 DEF Lift, In
    <2>2. CASE Fails
      BY <1>4, <2>2 DEF Fails
    <2>3. CASE Skip(m) \/ Did(m, [me.mem EXCEPT !.lifted = @ \union {m}])
      <3> DEFINE mem == [me.mem EXCEPT !.lifted = @ \union {m}]
      <3>1. mem \in Checkpoint /\ Claims(mem) = Claims(me.mem)
        BY <1>1, CheckpointUpdates, ClaimFields
      <3> HIDE DEF mem
      <3>2. me'.pc = "lift" /\ Claims(me'.mem) = Claims(me.mem)
        BY <2>1, <2>3, <3>1, SkipEffect, DidEffect DEF mem
      <3>3. Holds(me'.mem, at') /\ me'.mem.removed = me.mem.removed
        BY <1>3, <3>2
      <3> QED  BY <2>1, <3>2, <3>3 DEF PhasesInOrder
    <2> QED  BY <1>12, <2>2, <2>3 DEF Lift
  <1>13. ASSUME NEW i \in Item, PublishRename(i), copy[i] = i,
                me.pc \in {"publish", "replacing"}
         PROVE  Holds(me'.mem, at') /\ PhasesInOrder'
    <2>1. CASE Fails
      BY <1>4, <2>1 DEF Fails
    <2>2. CASE at' = [at EXCEPT ![Target[i]] = copy[i]] /\ Renamed(i)
      <3>1. /\ me'.pc = "publish" /\ me'.todo = me.todo \ {i}
            /\ me'.mem.published = me.mem.published \union {i}
            /\ me'.mem.removed = me.mem.removed /\ me'.mem.placed = me.mem.placed
        BY <1>1, <2>2, ClaimFields DEF Renamed, Claims
      <3>2. at'[Target[i]] = i
        BY <1>13, <2>2, Plan DEF Disk
      <3>3. Holds(me'.mem, at')
        BY <1>2, <3>1, <3>2 DEF Holds
      <3>4. PhasesInOrder'
        BY <1>13, <3>1 DEF PhasesInOrder
      <3> QED  BY <3>3, <3>4
    <2> QED  BY <1>13, <2>1, <2>2, RenameEffect
  <1>14. ASSUME NEW i \in Item, Publish(i)
         PROVE  Holds(me'.mem, at') /\ PhasesInOrder'
    <2>1. me.pc = "publish" /\ i = First(me.todo)
      BY <1>14 DEF Publish, In
    <2>2. CASE Fails
      BY <1>4, <2>2 DEF Fails
    <2>3. CASE i \in me.mem.published /\ Skip(i)
      <3>1. me'.pc = "publish" /\ me'.mem = me.mem /\ me'.todo = me.todo \ {i}
        BY <2>1, <2>3, SkipEffect
      <3>2. PhasesInOrder'
        BY <2>1, <2>3, <3>1 DEF PhasesInOrder
      <3> QED  BY <1>2, <3>1, <3>2
    <2>4. CASE i \notin me.mem.published /\ act' = [act EXCEPT !["executor"].pc = "replacing"]
      <3>1. me'.pc = "replacing" /\ me'.mem = me.mem /\ me'.todo = me.todo
        BY <1>1, <2>4 DEF Acts, Local, me
      <3>2. PhasesInOrder'
        BY <2>1, <2>4, <3>1 DEF PhasesInOrder
      <3> QED  BY <1>2, <3>1, <3>2
    <2>5. CASE copy[i] = i /\ PublishRename(i)
      BY <1>13, <2>1, <2>5
    <2> QED  BY <1>14, <2>2, <2>3, <2>4, <2>5 DEF Publish
  <1>15. ASSUME NEW i \in Item, PublishReplacing(i)
         PROVE  Holds(me'.mem, at') /\ PhasesInOrder'
    <2>1. me.pc = "replacing" /\ i = First(me.todo) /\ PublishRename(i)
      BY <1>15 DEF PublishReplacing
    <2>2. i \notin me.mem.published
      BY <2>1 DEF PhasesInOrder
    <2>3. copy[i] = i
      BY <2>1, <2>2 DEF CollectedFirst, Collected, Later
    <2> QED  BY <1>13, <2>1, <2>3
  <1>16. ASSUME NEW m \in Move, Place(m)
         PROVE  Holds(me'.mem, at') /\ PhasesInOrder'
    <2>1. me.pc = "place"
      BY <1>16 DEF Place, In
    <2>2. CASE Fails
      BY <1>4, <2>2 DEF Fails
    <2>3. CASE m \in me.mem.placed /\ Skip(m)
      <3>1. me'.pc = "place" /\ me'.mem = me.mem /\ me'.todo = me.todo \ {m}
        BY <2>1, <2>3, SkipEffect
      <3>2. PhasesInOrder'
        BY <2>1, <2>3, <3>1 DEF PhasesInOrder
      <3> QED  BY <1>2, <3>1, <3>2
    <2>4. CASE /\ \/ Matches(at[Dst[m]], m) /\ UNCHANGED at
                  \/ lift[m] # Nothing /\ at' = [at EXCEPT ![Dst[m]] = lift[m]]
               /\ Did(m, [me.mem EXCEPT !.placed = @ \union {m}])
      <3> DEFINE mem == [me.mem EXCEPT !.placed = @ \union {m}]
      <3>1. /\ mem \in Checkpoint
            /\ Claims(mem) = <<me.mem.removed, me.mem.published, me.mem.placed \union {m}>>
        BY <1>1, CheckpointUpdates, ClaimFields
      <3> HIDE DEF mem
      <3>2. /\ me'.pc = "place" /\ me'.todo = me.todo \ {m}
            /\ me'.mem.placed = me.mem.placed \union {m}
            /\ me'.mem.published = me.mem.published /\ me'.mem.removed = me.mem.removed
        BY <2>1, <2>4, <3>1, DidEffect DEF mem, Claims
      <3>3. at'[Dst[m]] = m
        BY <2>4, SizeTells, Plan DEF Disk, LiftsOwn
      <3>4. Holds(me'.mem, at')
        BY <1>2, <3>2, <3>3 DEF Holds
      <3>5. PhasesInOrder'
        BY <2>1, <3>2 DEF PhasesInOrder
      <3> QED  BY <3>4, <3>5
    <2> QED  BY <1>16, <2>2, <2>3, <2>4 DEF Place
  <1> QED
    BY <1>5, <1>6, <1>7, <1>8, <1>9, <1>10, <1>11, <1>12, <1>14, <1>15, <1>16 DEF AtWork

\* Elsewhere a record is read, handed on or left, and claims nothing new.
LEMMA RecordsHanded ==
    ASSUME Acts, Run, Next, ~AtWork
    PROVE  /\ ckpt' = ckpt \/ \E a \in Actor : act[a].pc = "putting" /\ ckpt' = act[a].mem
           /\ me'.pc # "idle" => \/ me.pc # "idle" /\ Claims(me'.mem) = Claims(me.mem)
                                 \/ me'.mem = ckpt
           /\ act'["settler"].pc \in Ending =>
                 \/ act["settler"].pc \in Ending /\ Claims(act'["settler"].mem) = Claims(act["settler"].mem)
                 \/ act'["settler"].mem = ckpt
           /\ me'.pc \notin Phase \union {"replacing", "finish"} \/ me'.pc = "stage" \/ me' = me
  <1>1. /\ me = act["executor"] /\ me' = act'["executor"] /\ "executor" # "settler"
        /\ "executor" \in Actor /\ "settler" \in Actor
        /\ \A a \in Actor : a = "executor" \/ a = "settler"
        /\ me \in Local /\ act["settler"] \in Local
    BY DEF Acts, Actor, me
  <1>2. CASE Claim
    <2>1. me'.pc = "claimed" /\ me'.mem = ckpt /\ act'["settler"] = act["settler"] /\ UNCHANGED ckpt
      BY <1>1, <1>2, IdleLocal DEF Claim, Acts, Run, Local
    <2> QED  BY <2>1 DEF Phase
  <1>3. CASE Activate \/ EnterLibrary
    <2>1. /\ me'.pc \in {"waiting", "stage"} /\ me'.mem = me.mem /\ me.pc # "idle"
          /\ act'["settler"] = act["settler"] /\ UNCHANGED ckpt
      BY <1>1, <1>3 DEF Activate, EnterLibrary, Acts, Local
    <2> QED  BY <2>1 DEF Phase
  <1>4. CASE GiveUpLibrary
    <2>1. /\ act'["executor"] = Idle /\ act'["settler"] \in {Waiting, act["settler"]} /\ UNCHANGED ckpt
      BY <1>1, <1>4 DEF GiveUpLibrary, Acts
    <2> QED  BY <1>1, <2>1, IdleLocal DEF Phase, Ending
  <1>5. CASE Failing
    <2>1. /\ me.pc = "failing" /\ act'["settler"] = act["settler"] /\ UNCHANGED ckpt
      BY <1>1, <1>5 DEF Failing, Acts
    <2>2. \/ act'["executor"] = Idle
          \/ \E outcome \in {"none", "queued", "failed"} : act'["executor"] = PuttingBack(me, outcome)
      BY <1>1, <1>5 DEF Failing, Acts
    <2>3. me'.pc = "idle" \/ (me'.pc \in Ending /\ me'.mem = me.mem)
      BY <1>1, <2>2, IdleLocal, PuttingBackEffect
    <2> QED  BY <2>1, <2>3 DEF Ending, Phase, Claims
  <1>6. CASE SettlerEnters
    <2> DEFINE l == [Idle EXCEPT !.mem = ckpt]
    <2>1. l \in Local /\ l.mem = ckpt
      BY IdleLocal DEF Run, Local
    <2>2. /\ act'["settler"] = PuttingBack(l, "none") /\ act'["executor"] = act["executor"] /\ UNCHANGED ckpt
      BY <1>1, <1>6 DEF SettlerEnters, Acts
    <2> HIDE DEF l
    <2>3. act'["settler"].mem = ckpt
      BY <2>1, <2>2, PuttingBackEffect
    <2> QED  BY <1>1, <2>2, <2>3
  <1>7. ASSUME NEW a \in Actor, NEW m \in Move, PutBack(a, m)
        PROVE  /\ UNCHANGED ckpt /\ act[a].pc = "putting" /\ act'[a].pc = "putting"
               /\ Claims(act'[a].mem) = Claims(act[a].mem)
               /\ \A b \in Actor : b # a => act'[b] = act[b]
    <2>1. act[a] \in Local
      BY DEF Acts
    <2>2. ASSUME act' = [act EXCEPT ![a].todo = @ \ {m}, ![a].mem.lifted = @ \ {m}]
          PROVE  Claims(act'[a].mem) = Claims(act[a].mem)
      BY <2>1, <2>2 DEF Acts, Local, Checkpoint, Claims
    <2>3. ASSUME act' = [act EXCEPT ![a].todo = @ \ {m}, ![a].kept = @ \union {m}]
          PROVE  Claims(act'[a].mem) = Claims(act[a].mem)
      BY <2>1, <2>3 DEF Acts, Local, Claims
    <2>4. Claims(act'[a].mem) = Claims(act[a].mem)
      BY <1>7, <2>2, <2>3 DEF PutBack
    <2> QED  BY <1>7, <2>4, PutBackEffect
  <1>8. ASSUME NEW a \in Actor, NEW m \in Move, PutBack(a, m)
        PROVE  /\ UNCHANGED ckpt /\ (me.pc # "idle" \/ me' = me)
               /\ me'.pc = "putting" \/ me' = me
               /\ Claims(me'.mem) = Claims(me.mem) /\ Claims(act'["settler"].mem) = Claims(act["settler"].mem)
               /\ act["settler"].pc \in Ending \/ act'["settler"] = act["settler"]
    BY <1>1, <1>7, <1>8 DEF Ending
  <1>9. ASSUME NEW a \in Actor, SavePutBack(a) \/ Clear(a) \/ Close(a)
        PROVE  /\ ckpt' = ckpt \/ (act[a].pc = "putting" /\ ckpt' = act[a].mem)
               /\ act[a].pc \in Ending
               /\ act'[a] = Idle \/ (act'[a].pc \in Ending /\ act'[a].mem = act[a].mem)
               /\ \A b \in Actor : b # a => act'[b] = act[b]
    <2>1. act[a] \in Local
      BY DEF Acts
    <2> QED  BY <1>9, <2>1 DEF SavePutBack, Clear, Close, Acts, Local, Ending
  <1>10. ASSUME NEW a \in Actor, SavePutBack(a) \/ Clear(a) \/ Close(a)
         PROVE  /\ me' = me \/ me'.pc = "idle" \/ (me.pc \in Ending /\ me'.pc \in Ending /\ me'.mem = me.mem)
                /\ \/ act'["settler"] = act["settler"] \/ act'["settler"].pc = "idle"
                   \/ act["settler"].pc \in Ending /\ act'["settler"].mem = act["settler"].mem
    BY <1>1, <1>9, <1>10, IdleLocal
  <1>11. CASE Signal \/ Start \/ Stop
    <2>1. UNCHANGED ckpt /\ act'["executor"] = act["executor"]
          /\ act'["settler"] \in {Idle, Waiting, act["settler"]}
      BY <1>1, <1>11 DEF Signal, Start, Stop, Acts
    <2> QED  BY <1>1, <2>1, IdleLocal DEF Ending
  <1>12. CASE CancelRun \/ Retry \/ Exit \/ \E p \in Path : Appear(p)
    <2>1. UNCHANGED <<ckpt, act>>
      BY <1>12 DEF CancelRun, Retry, Exit, Appear
    <2> QED  BY <1>1, <2>1
  <1>13. CASE Crash
    <2>1. UNCHANGED ckpt /\ act'["executor"] = Idle /\ act'["settler"] = Idle
      BY <1>1, <1>13 DEF Crash
    <2> QED  BY <1>1, <2>1, IdleLocal DEF Ending, Phase
  <1>14. CASE \E a \in Actor, m \in Move : PutBack(a, m)
    <2>1. PICK a \in Actor, m \in Move : PutBack(a, m)
      BY <1>14
    <2>2. /\ UNCHANGED ckpt /\ (me.pc # "idle" \/ me' = me)
          /\ me'.pc = "putting" \/ me' = me
          /\ Claims(me'.mem) = Claims(me.mem) /\ Claims(act'["settler"].mem) = Claims(act["settler"].mem)
          /\ act["settler"].pc \in Ending \/ act'["settler"] = act["settler"]
      BY <1>8, <2>1
    <2> QED  BY <2>2 DEF Phase
  <1>15. CASE \E a \in Actor : SavePutBack(a) \/ Clear(a) \/ Close(a)
    BY <1>9, <1>10, <1>15 DEF Ending, Phase, Claims
  <1> QED
    BY <1>2, <1>3, <1>4, <1>5, <1>6, <1>11, <1>12, <1>13, <1>14, <1>15
    DEF Next, ExecutorStep, SettlementStep, Environment, AtWork

\* Every record stays true.
LEMMA RecordsTrueStep ==
    ASSUME SizesTell, IInv, LiftsOwn, RecordsTrue, PhasesInOrder, Next
    PROVE  RecordsTrue' /\ PhasesInOrder'
  <1>1. /\ Acts /\ Disk /\ Run /\ OwnCopies /\ Mutex /\ ExecutorRecorded /\ CollectedFirst
    BY TypesSplit DEF IInv
  <1>2. /\ me = act["executor"] /\ me' = act'["executor"] /\ me.mem \in Checkpoint /\ ckpt \in Checkpoint
        /\ act["settler"].mem \in Checkpoint /\ \A a \in Actor : a = "executor" \/ a = "settler"
    BY <1>1 DEF me, Actor, Acts, Local, Run
  <1>3. Holds(ckpt, at')
    <2>1. me.pc = "publish" => ckpt.published \subseteq me.mem.published
      BY <1>1 DEF ExecutorRecorded
    <2> QED  BY <1>1, <1>2, <2>1, TruthLasts DEF RecordsTrue
  <1>4. me.pc # "idle" => Holds(me.mem, at')
    BY <1>1, <1>2, TruthLasts DEF RecordsTrue
  <1>5. act["settler"].pc \in Ending => Holds(act["settler"].mem, at')
    <2>1. act["settler"].pc \in Ending => me.pc # "publish"
      BY <1>1, <1>2 DEF Mutex, Ending, Actor
    <2> QED  BY <1>1, <1>2, <2>1, TruthLasts DEF RecordsTrue
  <1>6. CASE AtWork
    <2>1. /\ me.pc # "idle" /\ act'["settler"] = act["settler"]
      BY <1>1, <1>6, AtWorkEffect DEF Phase
    <2>2. Holds(me.mem, at)
      BY <2>1 DEF RecordsTrue
    <2>3. Holds(me'.mem, at') /\ PhasesInOrder'
      BY <1>1, <1>6, <2>2, WorkTells
    <2>4. ckpt' = ckpt \/ ckpt' = me.mem
      BY <1>6 DEF AtWork, SaveCheckpoint, SaveRefused, Finish, NextPhase, PhaseRefused, StepFails,
                  Stage, Publish, PublishReplacing, Remove, Lift, Place
    <2>5. Holds(ckpt', at')
      BY <1>3, <1>4, <2>1, <2>4
    <2> QED  BY <1>5, <2>1, <2>3, <2>5 DEF RecordsTrue
  <1>7. CASE ~AtWork
    <2>1. /\ ckpt' = ckpt \/ \E a \in Actor : act[a].pc = "putting" /\ ckpt' = act[a].mem
          /\ me'.pc # "idle" => \/ me.pc # "idle" /\ Claims(me'.mem) = Claims(me.mem)
                                \/ me'.mem = ckpt
          /\ act'["settler"].pc \in Ending =>
                \/ act["settler"].pc \in Ending /\ Claims(act'["settler"].mem) = Claims(act["settler"].mem)
                \/ act'["settler"].mem = ckpt
          /\ me'.pc \notin Phase \union {"replacing", "finish"} \/ me'.pc = "stage" \/ me' = me
      BY <1>1, <1>7, RecordsHanded
    <2>2. ASSUME NEW mem1, NEW mem2, Claims(mem1) = Claims(mem2), Holds(mem2, at')
          PROVE  Holds(mem1, at')
      BY <2>2 DEF Claims, Holds
    <2>3. Holds(ckpt', at')
      BY <1>2, <1>3, <1>4, <1>5, <2>1 DEF Ending
    <2>4. me'.pc # "idle" => Holds(me'.mem, at')
      BY <1>3, <1>4, <2>1, <2>2
    <2>5. act'["settler"].pc \in Ending => Holds(act'["settler"].mem, at')
      BY <1>3, <1>5, <2>1, <2>2
    <2>6. PhasesInOrder'
      BY <2>1 DEF PhasesInOrder, Phase
    <2> QED  BY <2>3, <2>4, <2>5, <2>6 DEF RecordsTrue
  <1> QED  BY <1>6, <1>7

\* Only finish records a success, and nobody works on behind it.
LEMMA SuccessStep ==
    ASSUME Acts, Run, ExecutorRecorded, NothingAfterSuccess, Next, status' = "succeeded"
    PROVE  /\ status = "succeeded" \/ me.pc = "finish"
           /\ me'.pc \in {"idle", "clearing", "closing"}
  <1>1. /\ me = act["executor"] /\ me' = act'["executor"] /\ me \in Local /\ "executor" \in Actor
        /\ "settler" \in Actor /\ \A a \in Actor : a = "executor" \/ a = "settler"
    BY DEF Acts, Actor, me
  <1>2. CASE Finish
    <2>1. me.pc = "finish" /\ me'.pc = "clearing"
      BY <1>1, <1>2 DEF Finish, In, Acts, Local
    <2> QED  BY <2>1
  <1>3. CASE Claim \/ GiveUpLibrary \/ Failing \/ Start \/ CancelRun \/ Retry
    <2>1. ASSUME NEW spent, Release(spent), status' = "succeeded"
          PROVE  status = "succeeded"
      BY <2>1 DEF Release
    <2>2. status = "succeeded" /\ ~Claim /\ ~Failing /\ ~CancelRun /\ ~Retry /\ ~GiveUpLibrary
      BY <1>3, <2>1 DEF Claim, GiveUpLibrary, Failing, Start, CancelRun, Retry, NothingAfterSuccess, Open
    <2>3. me' = me
      BY <1>1, <1>3, <2>2 DEF Start, Acts
    <2> QED  BY <2>2, <2>3 DEF NothingAfterSuccess
  <1>4. ASSUME NEW a \in Actor, SavePutBack(a) \/ Clear(a) \/ Close(a)
        PROVE  status = "succeeded" /\ me'.pc \in {"idle", "clearing", "closing"}
    <2>1. act[a] \in Local
      BY DEF Acts
    <2>2. status = "succeeded"
      BY <1>4, <2>1 DEF SavePutBack, Clear, Close, Local
    <2>3. me'.pc = me.pc \/ me'.pc \in {"idle", "clearing", "closing"}
      BY <1>1, <1>4, <2>1, IdleLocal DEF SavePutBack, Clear, Close, Acts, Local
    <2> QED  BY <2>2, <2>3 DEF NothingAfterSuccess
  <1>5. CASE Activate \/ EnterLibrary \/ (AtWork /\ ~Finish)
    <2>1. UNCHANGED status
      BY <1>5 DEF Activate, EnterLibrary, AtWork, SaveCheckpoint, SaveRefused, NextPhase, PhaseRefused,
                  StepFails, Stage, Publish, PublishReplacing, Remove, Lift, Place
    <2>2. me.pc \in Phase \union {"claimed", "waiting", "replacing", "finish"}
      BY <1>5, AtWorkEffect DEF Activate, EnterLibrary
    <2> QED  BY <2>1, <2>2 DEF NothingAfterSuccess, Phase
  <1>6. CASE SettlerEnters \/ Signal \/ Stop \/ Crash \/ Exit \/ \E p \in Path : Appear(p)
    <2>1. UNCHANGED status /\ (me' = me \/ me'.pc = "idle")
      BY <1>1, <1>6, IdleLocal DEF SettlerEnters, Signal, Stop, Crash, Exit, Appear, Acts
    <2> QED  BY <2>1 DEF NothingAfterSuccess
  <1>7. ASSUME NEW a \in Actor, NEW m \in Move, PutBack(a, m)
        PROVE  status = "succeeded" /\ me'.pc \in {"idle", "clearing", "closing"}
    <2>1. UNCHANGED status
      BY <1>7 DEF PutBack
    <2>2. me' = me \/ me.pc = "putting"
      BY <1>1, <1>7, PutBackEffect
    <2> QED  BY <2>1, <2>2 DEF NothingAfterSuccess
  <1> QED
    BY <1>2, <1>3, <1>4, <1>5, <1>6, <1>7
    DEF Next, ExecutorStep, SettlementStep, Environment, AtWork

\* Every step keeps the invariant,
LEMMA TruthStep ==
    ASSUME SizesTell, TInv, Next
    PROVE  TInv'
  <1>1. /\ Acts /\ Disk /\ Run /\ OwnCopies /\ ExecutorRecorded
    BY TypesSplit DEF TInv, IInv
  <1>2. IInv'
    BY StepInvariant DEF TInv
  <1>3. LiftsOwn'
    BY <1>1, LiftsOwnStep DEF TInv
  <1>4. RecordsTrue' /\ PhasesInOrder'
    BY RecordsTrueStep DEF TInv
  <1>5. NothingAfterSuccess'
    BY <1>1, SuccessStep DEF TInv, NothingAfterSuccess
  <1>6. SuccessIsComplete'
    <2> DEFINE all == [staged |-> {}, removed |-> Removal, published |-> Item,
                       lifted |-> Move, placed |-> Move]
    <2>1. all \in Checkpoint /\ all.removed = Removal /\ all.published = Item /\ all.placed = Move
      BY DEF Checkpoint
    <2> HIDE DEF all
    <2>2. SUFFICES ASSUME status' = "succeeded"
                   PROVE  Holds(all, at')
      BY <2>1 DEF Holds, SuccessIsComplete
    <2>3. status = "succeeded" \/ me.pc = "finish"
      BY <1>1, <2>2, SuccessStep DEF TInv
    <2>4. Holds(all, at) /\ me.pc # "publish"
      <3>1. CASE me.pc = "finish"
        BY <2>1, <3>1 DEF TInv, RecordsTrue, PhasesInOrder, Holds
      <3>2. CASE status = "succeeded"
        BY <2>1, <3>2 DEF TInv, NothingAfterSuccess, SuccessIsComplete, Holds
      <3> QED  BY <2>3, <3>1, <3>2
    <2> QED  BY <1>1, <2>1, <2>4, TruthLasts DEF TInv
  <1> QED  BY <1>2, <1>3, <1>4, <1>5, <1>6 DEF TInv

\* which holds at first,
LEMMA TruthInit == Init => TInv
  <1> SUFFICES ASSUME Init PROVE TInv
    OBVIOUS
  <1>1. IInv
    BY InitInvariant
  <1>2. (\A m \in Move : lift[m] = Nothing) /\ ckpt = NoCheckpoint
        /\ me = Idle /\ act["settler"] = Idle /\ status = "queued"
    BY DEF Init, Actor, me
  <1>3. LiftsOwn /\ RecordsTrue /\ PhasesInOrder /\ NothingAfterSuccess /\ SuccessIsComplete
    BY <1>2, IdleLocal
    DEF LiftsOwn, RecordsTrue, Holds, NoCheckpoint, Ending, PhasesInOrder, NothingAfterSuccess,
        SuccessIsComplete
  <1> QED  BY <1>1, <1>3 DEF TInv

\* and so does a step that stutters.
LEMMA TruthInvariant ==
    ASSUME SizesTell, TInv, [Next]_vars
    PROVE  TInv'
  <1>1. IInv'
    BY StepInvariant DEF TInv
  <1>2. CASE UNCHANGED vars
    BY <1>1, <1>2
    DEF TInv, vars, disk, LiftsOwn, RecordsTrue, PhasesInOrder, NothingAfterSuccess, SuccessIsComplete, me
  <1> QED  BY <1>2, TruthStep

\* However often a run was cancelled, failed, stopped, crashed or retried on the way, a
\* success says that every moved file is at its new path, every added one at its path and every
\* removed one gone, where the sizes of the moved files tell them from all others.
THEOREM SuccessIsTrue == SizesTell => (Spec => []SuccessIsComplete)
  <1> SUFFICES ASSUME SizesTell PROVE Spec => []SuccessIsComplete
    OBVIOUS
  <1>1. TInv => SuccessIsComplete
    BY DEF TInv
  <1> QED  BY <1>1, TruthInit, TruthInvariant, PTL DEF Spec

\* Under the same hypothesis no file the plan found leaves its path while an added file is
\* neither collected nor at its own path, in any attempt (CollectingComesFirst says as much of
\* what is recorded; the records are true).
THEOREM LeavesWhenCollected == SizesTell => (Spec => LeavesAfterCollecting)
  <1> SUFFICES ASSUME SizesTell PROVE Spec => LeavesAfterCollecting
    OBVIOUS
  <1>1. TInv /\ [\A p \in Path : at[p] # Nothing /\ at'[p] # at[p] =>
                     \A i \in Item : copy[i] = i \/ i \in ckpt.published]_vars
        => [\A p \in Path : at[p] # Nothing /\ at[p] = Before[p] /\ at'[p] # at[p] =>
                \A i \in Item : i \in {copy[i], at[Target[i]]}]_vars
    BY DEF TInv, RecordsTrue, Holds
  <1> QED
    BY <1>1, TruthInit, TruthInvariant, CollectingComesFirst, PTL
    DEF Spec, FilesLeaveLast, LeavesAfterCollecting

-----------------------------------------------------------------------------
(* What a stopped edit leaves. *)

\* A file of the staging folder that cannot go back, and all of them.
Barred(m) == lift[m] # Nothing => at[Src[m]] # Nothing
AllBarred == \A m \in Move : Barred(m)

\* A run that waits in the queue, or failed, has no executor; a context ends
\* with the service, or for an executor that is registered; the settlement is
\* that of a cancelled run.
Control ==
    /\ status \in {"queued", "failed"} => me.pc = "idle"
    /\ ctx = "stopped" => mode # "up"
    /\ me.pc = "claimed" => ctx # "cancelled"
    /\ act["settler"].pc \in Ending => act["settler"].then = "none"

\* Whoever puts files back puts back, or will, every one that can go back.
ReturnsAll ==
    \A a \in Actor :
        /\ act[a].pc = "putting" => \A m \in Move : Barred(m) \/ m \in act[a].todo
        /\ act[a].pc \in {"clearing", "closing"} => AllBarred

\* So nothing is left to put back when a run has failed, or was cancelled and
\* nobody will see to it any more,
StoppedBarred ==
    /\ status = "failed" => AllBarred
    /\ /\ status = "cancelled" /\ mode = "up" /\ ~signal
       /\ me.pc = "idle" /\ act["settler"].pc = "idle"
       => AllBarred

\* or when a late signal of a cancellation can still end a new attempt before
\* it begins.
LateSignalBarred ==
    status # "cancelled" =>
        /\ signal /\ me.pc = "idle" /\ mode = "up" => AllBarred
        /\ signal /\ me.pc \in {"claimed", "waiting"} => AllBarred
        /\ ctx = "cancelled" /\ me.pc = "waiting" => AllBarred

\* A moved file is at its old or its new path only.
OwnPlaces == \A m \in Move, p \in Path : at[p] = m => p \in {Src[m], Dst[m]}

\* A stop or a start finds the run at work, with no resume left to queue it again.
OutOfResumes ==
    /\ Start \/ (ctx = "stopped" /\ (Failing \/ GiveUpLibrary))
    /\ status = "running" /\ left["resume"] = 0

\* No such step happens: the resumes of the run suffice.
ResumesSuffice == [][~OutOfResumes]_vars

\* The inductive invariant behind the settlement of stopped edits.
SInv ==
    /\ MInv
    /\ LiftsOwn
    /\ OwnPlaces
    /\ Control
    /\ ReturnsAll
    /\ StoppedBarred
    /\ LateSignalBarred

\* Only lifting takes a file from an old path, or into the staging folder.
LEMMA BarredLasts ==
    ASSUME Acts, Disk, Next, me.pc # "lift", NEW m \in Move, Barred(m)
    PROVE  Barred(m)'
  <1>1. /\ Src[m] \in Path /\ \A p \in Removal : p # Src[m]
        /\ \A i \in Replace : Target[i] # Src[m]
    <2>1. \A p \in Removal : p # Src[m]
      BY FolderEditAssumption
    <2> QED  BY <2>1, Plan
  <1>2. CASE UNCHANGED <<at, lift>>
    BY <1>2 DEF Barred
  <1>3. ASSUME NEW a \in Actor, Clear(a)
        PROVE  Barred(m)'
    BY <1>3 DEF Clear, Barred
  <1>4. ASSUME NEW p \in Path, NEW f, at' = [at EXCEPT ![p] = f], f # Nothing \/ p # Src[m],
               UNCHANGED lift
        PROVE  Barred(m)'
    BY <1>1, <1>4 DEF Barred, Disk
  <1>5. ASSUME NEW p \in Path, Appear(p)
        PROVE  Barred(m)'
    BY <1>4, <1>5, PlanOfRecords DEF Appear
  <1>6. ASSUME NEW p \in Removal, Removes(p)
        PROVE  Barred(m)'
    BY <1>1, <1>4, <1>6, Plan DEF Removes
  <1>7. ASSUME NEW i \in Item, GivesWay(i)
        PROVE  Barred(m)'
    BY <1>1, <1>4, <1>7, Plan DEF GivesWay
  <1>8. ASSUME NEW i \in Item, Lands(i)
        PROVE  Barred(m)'
    <2>1. CASE Target[i] = Src[m]
      BY <1>1, <1>8, <2>1 DEF Lands, Barred, Disk
    <2>2. CASE Target[i] # Src[m]
      BY <1>4, <1>8, <2>2, Plan DEF Lands
    <2> QED  BY <2>1, <2>2
  <1>9. ASSUME NEW n \in Move, NEW p \in {Src[n], Dst[n]}, Returns(n, p)
        PROVE  Barred(m)'
    BY <1>1, <1>9, Plan DEF Returns, Barred, Disk
  <1> QED
    BY <1>2, <1>3, <1>5, <1>6, <1>7, <1>8, <1>9, FolderSteps DEF Takes

\* An executor at work goes on, fails, or has finished.
LEMMA WorkGoesOn ==
    ASSUME Frame, KnownPaths, AtWork
    PROVE  me'.pc \in Phase \union {"replacing", "finish", "failing"} \/ Concludes
  <1>1. \/ Saves \/ Advances \/ Abandons \/ Concludes \/ WorksElsewhere
        \/ \E m \in Move : Lifts(m) \/ Places(m)
    BY WorkMoves DEF Frame
  <1>2. me.pc \in Phase \union {"replacing", "finish"}
    BY AtWorkEffect DEF Frame
  <1>3. Saves \/ Abandons \/ WorksElsewhere \/ (\E m \in Move : Lifts(m) \/ Places(m))
        => me'.pc \in Phase \union {"replacing", "finish", "failing"}
    BY <1>2 DEF Saves, Abandons, WorksElsewhere, Lifts, Places, Works, Phase
  <1>4. Advances => me'.pc \in Phase \union {"replacing", "finish", "failing"}
    BY DEF Advances, Works, After, Phase
  <1> QED  BY <1>1, <1>3, <1>4

\* An executor at work settles nothing but a success.
LEMMA WorkStatus ==
    ASSUME AtWork
    PROVE  UNCHANGED ctx /\ status' \in {status, "succeeded"}
  BY DEF AtWork, SaveCheckpoint, SaveRefused, Finish, NextPhase, PhaseRefused, StepFails,
         Stage, Publish, PublishReplacing, Remove, Lift, Place

\* A settlement that returns, saves, clears or leaves was that of a cancelled run.
LEMMA LeavesAs ==
    ASSUME Acts, Control, NEW a \in Actor, SavePutBack(a) \/ Clear(a) \/ Close(a)
    PROVE  /\ act[a].pc \in Ending /\ \A b \in Actor : b # a => act'[b] = act[b]
           /\ \/ /\ act'[a].pc \in Ending /\ act'[a].then = act[a].then /\ UNCHANGED status
              \/ act'[a] = Idle /\ act[a].pc = "closing" /\ (a = "settler" => UNCHANGED status)
           /\ status' # status => status' = act[a].then
           /\ UNCHANGED <<ctx, mode, signal>>
  <1>1. act[a] \in Local
    BY DEF Acts
  <1>2. CASE SavePutBack(a) \/ Clear(a)
    BY <1>1, <1>2 DEF SavePutBack, Clear, Acts, Local, Ending
  <1>3. CASE Close(a)
    BY <1>1, <1>3 DEF Close, Acts, Control, Ending
  <1> QED  BY <1>2, <1>3

\* Control is inductive by itself.
LEMMA ControlStep ==
    ASSUME Frame, KnownPaths, Control, Next
    PROVE  Control'
  <1>1. /\ me = act["executor"] /\ me' = act'["executor"] /\ me \in Local
        /\ "executor" \in Actor /\ "settler" \in Actor /\ \A a \in Actor : a = "executor" \/ a = "settler"
        /\ act["settler"] \in Local /\ Acts /\ Mutex /\ ExecutorRecorded
    BY DEF Frame, Acts, Actor, me
  <1>2. CASE AtWork
    <2>1. /\ act'["settler"] = act["settler"] /\ UNCHANGED mode
          /\ me.pc \in Phase \union {"replacing", "finish"}
      BY <1>1, <1>2, AtWorkEffect
    <2>2. UNCHANGED ctx /\ status' \in {status, "succeeded"}
      BY <1>2, WorkStatus
    <2>3. me'.pc # "claimed"
      BY <1>2, WorkGoesOn DEF Concludes, Works, Phase
    <2> QED  BY <2>1, <2>2, <2>3 DEF Control, Phase
  <1>3. CASE Claim
    <2>1. me'.pc = "claimed" /\ act'["settler"] = act["settler"]
      BY <1>1, <1>3, IdleLocal DEF Claim, Acts, Frame, Run, Local
    <2> QED  BY <1>3, <2>1 DEF Claim, Control
  <1>4. CASE Activate \/ EnterLibrary
    <2>1. me'.pc \in {"waiting", "stage"} /\ act'["settler"] = act["settler"] /\ me.pc # "idle"
      BY <1>1, <1>4 DEF Activate, EnterLibrary, Acts, Local
    <2> QED  BY <1>4, <2>1 DEF Activate, EnterLibrary, Control
  <1>5. CASE GiveUpLibrary
    <2>1. /\ act'["executor"] = Idle /\ act'["settler"] \in {Waiting, act["settler"]}
          /\ UNCHANGED <<ctx, mode>>
      BY <1>1, <1>5 DEF GiveUpLibrary, Acts
    <2> QED  BY <1>1, <2>1, IdleLocal DEF Control, Ending
  <1>6. CASE Failing
    <2>1. /\ me.pc = "failing" /\ act'["settler"] = act["settler"] /\ UNCHANGED <<ctx, mode>>
          /\ act'["executor"] = Idle \/ UNCHANGED status
      BY <1>1, <1>6 DEF Failing, Acts
    <2>2. \/ act'["executor"] = Idle
          \/ \E outcome \in {"none", "queued", "failed"} : act'["executor"] = PuttingBack(me, outcome)
      BY <1>1, <1>6 DEF Failing, Acts
    <2>3. me'.pc = "idle" \/ (me'.pc \in Ending /\ UNCHANGED status)
      BY <1>1, <2>1, <2>2, IdleLocal, PuttingBackEffect
    <2> QED  BY <2>1, <2>3 DEF Control, Ending
  <1>7. CASE SettlerEnters
    <2> DEFINE l == [Idle EXCEPT !.mem = ckpt]
    <2>1. l \in Local
      BY IdleLocal DEF Frame, Run, Local
    <2>2. /\ act'["settler"] = PuttingBack(l, "none") /\ act'["executor"] = act["executor"]
          /\ UNCHANGED <<ctx, mode, status>>
      BY <1>1, <1>7 DEF SettlerEnters, Acts
    <2> HIDE DEF l
    <2>3. act'["settler"].then = "none"
      BY <2>1, <2>2 DEF PuttingBack, Local
    <2> QED  BY <1>1, <2>2, <2>3 DEF Control
  <1>8. ASSUME NEW a \in Actor, NEW m \in Move, PutBack(a, m)
        PROVE  Control'
    <2>1. UNCHANGED <<ctx, mode, status>>
      BY <1>8 DEF PutBack
    <2>2. /\ act[a].pc = "putting" /\ act'[a].pc = "putting" /\ act'[a].then = act[a].then
          /\ \A b \in Actor : b # a => act'[b] = act[b]
      BY <1>1, <1>8, PutBackEffect
    <2>3. /\ me'.pc = me.pc /\ act'["settler"].pc = act["settler"].pc
          /\ act'["settler"].then = act["settler"].then
      BY <1>1, <2>2
    <2> QED  BY <2>1, <2>3 DEF Control
  <1>9. ASSUME NEW a \in Actor, SavePutBack(a) \/ Clear(a) \/ Close(a)
        PROVE  Control'
    <2>1. CASE a = "settler"
      BY <1>1, <1>9, <2>1, LeavesAs, IdleLocal DEF Control, Ending
    <2>2. CASE a = "executor"
      BY <1>1, <1>9, <2>2, LeavesAs, IdleLocal DEF Control, Ending
    <2> QED  BY <1>1, <2>1, <2>2
  <1>10. CASE Signal \/ Stop
    <2>1. /\ me' = me /\ act'["settler"] \in {Idle, Waiting, act["settler"]} /\ UNCHANGED status
      BY <1>1, <1>10 DEF Signal, Stop, Acts
    <2>2. /\ ctx' = "stopped" => mode' # "up"
          /\ me.pc = "claimed" => ctx' # "cancelled"
      BY <1>10 DEF Signal, Stop, Control
    <2> QED  BY <2>1, <2>2, IdleLocal DEF Control, Ending
  <1>11. CASE Start \/ Crash
    <2>1. me'.pc = "idle" /\ act'["settler"].pc \notin Ending
      BY <1>1, <1>11, IdleLocal DEF Start, Crash, Acts, Mutex, Ending
    <2>2. ctx' = "stopped" => mode' # "up"
      BY <1>11 DEF Start, Crash
    <2> QED  BY <2>1, <2>2 DEF Control
  <1>12. CASE CancelRun \/ Exit \/ \E p \in Path : Appear(p)
    <2>1. UNCHANGED <<act, ctx>> /\ me' = me /\ (mode' = mode \/ mode' # "up")
          /\ status' \in {status, "cancelled"}
      BY <1>1, <1>12 DEF CancelRun, Exit, Appear
    <2> QED  BY <2>1 DEF Control
  <1>13. CASE Retry
    <2>1. UNCHANGED <<act, ctx, mode>> /\ me' = me /\ status = "failed"
      BY <1>1, <1>13 DEF Retry
    <2> QED  BY <2>1 DEF Control
  <1> QED
    BY <1>2, <1>3, <1>4, <1>5, <1>6, <1>7, <1>8, <1>9, <1>10, <1>11, <1>12, <1>13
    DEF Next, ExecutorStep, SettlementStep, Environment, AtWork

\* Whoever starts to put files back starts with all that its record names.
LEMMA PuttingBackPlan ==
    ASSUME NEW l \in Local, NEW outcome \in {"none", "queued", "failed"}
    PROVE  /\ PuttingBack(l, outcome).todo = l.mem.lifted \ l.mem.placed
           /\ PuttingBack(l, outcome).pc \in {"clearing", "closing"} => l.mem.lifted = {}
  BY DEF PuttingBack, Local

\* Every step leaves the files that have to go back to somebody who will put them back.
LEMMA ReturnsStep ==
    ASSUME MInv, Control, ReturnsAll, StoppedBarred, LateSignalBarred, Next, ~OutOfResumes
    PROVE  ReturnsAll' /\ StoppedBarred' /\ LateSignalBarred'
  <1>1. Frame /\ MParts /\ Acts /\ Disk /\ Run /\ Mutex /\ ExecutorRecorded /\ KnownPaths
    BY TypesSplit DEF MInv, IInv, Frame, MParts
  <1>2. /\ me = act["executor"] /\ me' = act'["executor"] /\ me \in Local /\ act["settler"] \in Local
        /\ "executor" \in Actor /\ "settler" \in Actor /\ \A a \in Actor : a = "executor" \/ a = "settler"
    BY <1>1 DEF me, Actor, Acts
  <1>3. left["resume"] \in Nat
    BY <1>1 DEF Run, Occasion
  <1>4. ASSUME me.pc # "lift" \/ UNCHANGED <<at, lift>>
        PROVE  (\A m \in Move : Barred(m) => Barred(m)') /\ (AllBarred => AllBarred')
    <2>1. ASSUME NEW m \in Move, Barred(m)
          PROVE  Barred(m)'
      BY <1>1, <1>4, <2>1, BarredLasts DEF Barred
    <2> QED  BY <2>1 DEF AllBarred
  <1>5. AllBarred' => ReturnsAll' /\ StoppedBarred' /\ LateSignalBarred'
    BY DEF AllBarred, ReturnsAll, StoppedBarred, LateSignalBarred
  <1>6. ASSUME NEW a \in Actor, act'[a] = act[a] \/ act'[a] \in {Idle, Waiting},
               \A m \in Move : Barred(m) => Barred(m)'
        PROVE  /\ act'[a].pc = "putting" => \A m \in Move : Barred(m)' \/ m \in act'[a].todo
               /\ act'[a].pc \in {"clearing", "closing"} => AllBarred'
    BY <1>6, IdleLocal DEF ReturnsAll, AllBarred
  <1>7. CASE AtWork
    <2>1. /\ act'["settler"] = act["settler"] /\ act["settler"].pc \notin Ending
          /\ me.pc \in Phase \union {"replacing", "finish"} /\ lock = "executor"
      <3>1. /\ act'["settler"] = act["settler"] /\ me.pc \in Phase \union {"replacing", "finish"}
        BY <1>1, <1>7, AtWorkEffect
      <3>2. lock = "executor"
        BY <1>1, <1>2, <3>1 DEF Mutex, Phase
      <3> QED  BY <1>1, <1>2, <3>1, <3>2 DEF Mutex, Ending
    <2>2. status' \in {status, "succeeded"} /\ status \notin {"queued", "failed"}
      BY <1>7, <2>1, WorkStatus DEF Control, Phase
    <2>3. CASE Concludes
      <3>1. /\ me.pc = "finish" /\ UNCHANGED <<at, lift>>
        BY <2>3 DEF Concludes
      <3>2. \A m \in Move : lift[m] = Nothing
        BY <1>1, <3>1 DEF MParts, LiftsKnown, Knows, MovesInOrder
      <3> QED  BY <1>4, <1>5, <3>1, <3>2 DEF AllBarred, Barred
    <2>4. CASE me'.pc \in Phase \union {"replacing", "finish", "failing"}
      <3>1. ReturnsAll'
        BY <1>2, <2>1, <2>4 DEF ReturnsAll, Ending, Phase
      <3>2. StoppedBarred' /\ LateSignalBarred'
        BY <2>2, <2>4 DEF StoppedBarred, LateSignalBarred, Phase
      <3> QED  BY <3>1, <3>2
    <2> QED  BY <1>1, <1>7, <2>3, <2>4, WorkGoesOn
  <1>8. CASE Claim
    <2>1. /\ me'.pc = "claimed" /\ act'["settler"] = act["settler"] /\ me.pc = "idle" /\ mode = "up"
          /\ status = "queued" /\ status' = "running" /\ ctx' = "live" /\ UNCHANGED <<at, lift, signal>>
      BY <1>1, <1>2, <1>8, IdleLocal DEF Claim, Acts, Run, Local, disk
    <2>2. ReturnsAll'
      BY <1>2, <1>4, <1>6, <2>1 DEF ReturnsAll
    <2>3. StoppedBarred' /\ LateSignalBarred'
      BY <1>4, <2>1 DEF StoppedBarred, LateSignalBarred
    <2> QED  BY <2>2, <2>3
  <1>9. CASE Activate \/ EnterLibrary
    <2>1. /\ me.pc \in {"claimed", "waiting"} /\ me'.pc \in {"waiting", "stage"}
          /\ me'.pc = "waiting" => me.pc = "claimed"
          /\ act'["settler"] = act["settler"]
          /\ UNCHANGED <<at, lift, signal, status, ctx, mode>>
      BY <1>1, <1>2, <1>9 DEF Activate, EnterLibrary, Acts, Local, disk
    <2>2. ReturnsAll'
      BY <1>2, <1>4, <1>6, <2>1 DEF ReturnsAll
    <2>3. StoppedBarred' /\ LateSignalBarred'
      BY <1>4, <2>1 DEF StoppedBarred, LateSignalBarred, Control
    <2> QED  BY <2>2, <2>3
  <1>10. CASE GiveUpLibrary
    <2>1. /\ me.pc = "waiting" /\ ctx # "live" /\ act'["executor"] = Idle
          /\ act'["settler"] \in {Waiting, act["settler"]}
          /\ ctx = "cancelled" /\ status = "cancelled" /\ mode = "up" => act'["settler"] = Waiting
          /\ UNCHANGED <<at, lift, signal, ctx, mode>>
      BY <1>1, <1>2, <1>10 DEF GiveUpLibrary, Acts, disk
    <2>2. /\ status' = status \/ (status = "running" /\ (ctx = "stopped" => status' = "queued"))
          /\ status' = "cancelled" => status = "cancelled"
      BY <1>10, <1>3 DEF GiveUpLibrary, Release, OutOfResumes
    <2>3. ctx \in {"cancelled", "stopped"} /\ (ctx = "stopped" => mode # "up")
      BY <1>1, <2>1 DEF Run, Control
    <2>4. ReturnsAll'
      BY <1>2, <1>4, <1>6, <2>1 DEF ReturnsAll
    <2>5. StoppedBarred'
      <3>1. CASE status' = "failed"
        <4>1. status # "failed"
          BY <2>1 DEF Control
        <4>2. status = "running" /\ ctx = "cancelled"
          BY <2>2, <2>3, <3>1, <4>1
        <4> QED  BY <1>4, <1>5, <2>1, <4>2 DEF LateSignalBarred
      <3>2. CASE status' # "failed"
        <4>1. ~(status' = "cancelled" /\ mode' = "up" /\ act'["settler"].pc = "idle")
          BY <2>1, <2>2, <2>3, IdleLocal
        <4> QED  BY <3>2, <4>1 DEF StoppedBarred
      <3> QED  BY <3>1, <3>2
    <2>6. LateSignalBarred'
      BY <1>2, <1>4, <2>1, <2>2, IdleLocal DEF LateSignalBarred
    <2> QED  BY <2>4, <2>5, <2>6
  <1>11. CASE Failing
    <2>1. /\ me.pc = "failing" /\ act'["settler"] = act["settler"] /\ UNCHANGED <<at, lift, signal, mode>>
          /\ \/ /\ ctx = "stopped" /\ act'["executor"] = Idle
                /\ status' \in {status, "queued"}
             \/ /\ UNCHANGED status
                /\ \E outcome \in {"none", "queued", "failed"} : act'["executor"] = PuttingBack(me, outcome)
      BY <1>1, <1>2, <1>11, <1>3 DEF Failing, Release, Acts, disk, OutOfResumes
    <2>2. status \notin {"queued", "failed"} /\ (ctx = "stopped" => mode # "up")
      BY <2>1 DEF Control
    <2>3. CASE ctx = "stopped" /\ act'["executor"] = Idle /\ status' \in {status, "queued"}
      <3>1. ReturnsAll'
        BY <1>2, <1>4, <1>6, <2>1, <2>3 DEF ReturnsAll
      <3>2. StoppedBarred' /\ LateSignalBarred'
        BY <1>2, <2>1, <2>2, <2>3, IdleLocal DEF StoppedBarred, LateSignalBarred
      <3> QED  BY <3>1, <3>2
    <2>4. ASSUME NEW outcome \in {"none", "queued", "failed"}, UNCHANGED status,
                 act'["executor"] = PuttingBack(me, outcome)
          PROVE  ReturnsAll' /\ StoppedBarred' /\ LateSignalBarred'
      <3>1. me'.pc \in Ending
        BY <1>2, <2>4, PuttingBackEffect
      <3>2. /\ me'.todo = me.mem.lifted \ me.mem.placed
            /\ me'.pc \in {"clearing", "closing"} => me.mem.lifted = {}
        BY <1>2, <2>4, PuttingBackPlan
      <3>3. Knows(me.mem)
        BY <1>1, <2>1 DEF MParts, LiftsKnown
      <3>4. /\ me'.pc = "putting" => \A m \in Move : Barred(m)' \/ m \in me'.todo
            /\ me'.pc \in {"clearing", "closing"} => AllBarred'
        BY <1>4, <2>1, <3>2, <3>3 DEF Knows, Barred, AllBarred
      <3>5. ReturnsAll'
        BY <1>2, <1>4, <1>6, <2>1, <3>4 DEF ReturnsAll
      <3>6. StoppedBarred' /\ LateSignalBarred'
        BY <2>2, <2>4, <3>1 DEF StoppedBarred, LateSignalBarred, Ending
      <3> QED  BY <3>5, <3>6
    <2> QED  BY <2>1, <2>3, <2>4
  <1>12. CASE SettlerEnters
    <2> DEFINE l == [Idle EXCEPT !.mem = ckpt]
    <2>1. l \in Local /\ l.mem = ckpt
      BY <1>1, IdleLocal DEF Run, Local
    <2>2. /\ act'["settler"] = PuttingBack(l, "none") /\ act'["executor"] = act["executor"] /\ lock = "none"
          /\ act["settler"].pc = "waiting" /\ UNCHANGED <<at, lift, signal, mode, status, ctx>>
      BY <1>1, <1>2, <1>12 DEF SettlerEnters, Acts, disk
    <2> HIDE DEF l
    <2>3. /\ act'["settler"].pc \in Ending /\ act'["settler"].todo = ckpt.lifted \ ckpt.placed
          /\ act'["settler"].pc # "putting" => ckpt.lifted = {}
      <3>1. act'["settler"].pc \in Ending
        BY <2>1, <2>2, PuttingBackEffect
      <3> QED  BY <2>1, <2>2, <3>1 DEF PuttingBack, Local
    <2>4. Knows(ckpt)
      BY <1>1, <1>2, <2>2 DEF Mutex, MParts, LiftsKnown
    <2>5. /\ act'["settler"].pc = "putting" => \A m \in Move : Barred(m)' \/ m \in act'["settler"].todo
          /\ act'["settler"].pc \in {"clearing", "closing"} => AllBarred'
      BY <1>4, <2>2, <2>3, <2>4 DEF Knows, Barred, AllBarred
    <2>6. ReturnsAll'
      BY <1>2, <1>4, <1>6, <2>2, <2>5 DEF ReturnsAll
    <2>7. StoppedBarred' /\ LateSignalBarred'
      BY <1>2, <1>4, <2>2, <2>3 DEF StoppedBarred, LateSignalBarred, Ending
    <2> QED  BY <2>6, <2>7
  <1>13. ASSUME NEW a \in Actor, NEW m \in Move, PutBack(a, m)
         PROVE  ReturnsAll' /\ StoppedBarred' /\ LateSignalBarred'
    <2>1. /\ act[a].pc = "putting" /\ act'[a].pc = "putting" /\ act'[a].todo = act[a].todo \ {m}
          /\ \A b \in Actor : b # a => act'[b] = act[b]
          /\ \/ /\ at' = [at EXCEPT ![Src[m]] = lift[m]] /\ lift' = [lift EXCEPT ![m] = Nothing]
             \/ lift[m] = Nothing /\ UNCHANGED <<at, lift>>
             \/ (lift[m] # Nothing => at[Src[m]] # Nothing) /\ UNCHANGED <<at, lift>>
      BY <1>1, <1>13, PutBackEffect
    <2>2. UNCHANGED <<status, signal, mode, ctx>>
      BY <1>13 DEF PutBack
    <2>3. me.pc # "lift"
      BY <1>1, <1>2, <2>1 DEF Mutex
    <2>4. Barred(m)'
      BY <1>1, <2>1 DEF Barred, Disk
    <2>5. \A n \in Move : Barred(n) => Barred(n)'
      BY <1>4, <2>3
    <2>6. \A n \in Move : Barred(n)' \/ n \in act'[a].todo
      BY <2>1, <2>4, <2>5 DEF ReturnsAll
    <2>7. ReturnsAll'
      BY <1>6, <2>1, <2>5, <2>6 DEF ReturnsAll
    <2>8. me'.pc = me.pc /\ act'["settler"].pc = act["settler"].pc
      BY <1>2, <2>1
    <2>9. StoppedBarred' /\ LateSignalBarred'
      BY <1>4, <2>2, <2>3, <2>8 DEF StoppedBarred, LateSignalBarred
    <2> QED  BY <2>7, <2>9
  <1>14. ASSUME NEW a \in Actor, SavePutBack(a) \/ Clear(a) \/ Close(a)
         PROVE  ReturnsAll' /\ StoppedBarred' /\ LateSignalBarred'
    <2>1. AllBarred
      BY <1>14 DEF SavePutBack, Clear, Close, ReturnsAll, AllBarred
    <2>2. act[a].pc \in Ending
      BY <1>1, <1>14, LeavesAs
    <2>3. me.pc # "lift"
      BY <1>1, <1>2, <2>2 DEF Mutex, Ending
    <2> QED  BY <1>4, <1>5, <2>1, <2>3
  <1>15. CASE Signal \/ Stop
    <2>1. /\ me' = me /\ act'["settler"] \in {Idle, Waiting, act["settler"]}
          /\ UNCHANGED <<at, lift, status>>
      BY <1>1, <1>2, <1>15 DEF Signal, Stop, Acts, disk
    <2>2. ReturnsAll'
      BY <1>2, <1>4, <1>6, <2>1 DEF ReturnsAll
    <2>3. CASE Stop
      <3>1. mode' = "stopping" /\ ctx' \in {ctx, "stopped"} /\ UNCHANGED signal
        BY <2>3 DEF Stop
      <3> QED  BY <1>4, <2>1, <2>2, <3>1 DEF StoppedBarred, LateSignalBarred
    <2>4. CASE Signal
      <3>1. /\ signal /\ ~signal' /\ UNCHANGED mode
            /\ me.pc = "idle" /\ mode = "up" => act'["settler"] = Waiting
        BY <1>1, <1>2, <2>4 DEF Signal, Acts
      <3>2. StoppedBarred'
        BY <1>4, <2>1, <3>1, IdleLocal DEF StoppedBarred
      <3>3. LateSignalBarred'
        BY <1>4, <2>1, <3>1 DEF LateSignalBarred
      <3> QED  BY <2>2, <3>2, <3>3
    <2> QED  BY <1>15, <2>3, <2>4
  <1>16. CASE Exit \/ Crash
    <2>1. /\ mode' = "down" /\ ~signal' /\ UNCHANGED <<at, lift, status>>
          /\ me'.pc = "idle"
      BY <1>2, <1>16, IdleLocal DEF Exit, Crash, disk
    <2>2. \A a \in Actor : act'[a] = act[a] \/ act'[a] = Idle
      BY <1>1, <1>16 DEF Exit, Crash
    <2>3. ReturnsAll'
      BY <1>4, <1>6, <2>1, <2>2 DEF ReturnsAll
    <2>4. StoppedBarred' /\ LateSignalBarred'
      BY <1>4, <2>1 DEF StoppedBarred, LateSignalBarred
    <2> QED  BY <2>3, <2>4
  <1>17. CASE Start
    <2>1. /\ mode = "down" /\ ~signal /\ me.pc = "idle" /\ UNCHANGED <<at, lift, signal>> /\ ctx' = "live"
          /\ me' = me /\ act'["settler"] \in {Waiting, act["settler"]}
          /\ status = "cancelled" /\ StagingExists => act'["settler"] = Waiting
      BY <1>1, <1>2, <1>17 DEF Start, Mutex, Acts, disk
    <2>2. status' = status \/ status' = "queued"
      BY <1>17, <1>3 DEF Start, Release, OutOfResumes
    <2>3. ReturnsAll'
      BY <1>2, <1>4, <1>6, <2>1 DEF ReturnsAll
    <2>4. ~StagingExists => AllBarred
      BY DEF StagingExists, AllBarred, Barred
    <2>5. StoppedBarred' /\ LateSignalBarred'
      BY <1>4, <2>1, <2>2, <2>4, IdleLocal DEF StoppedBarred, LateSignalBarred
    <2> QED  BY <2>3, <2>5
  <1>18. CASE CancelRun
    <2>1. UNCHANGED <<at, lift, act>> /\ signal' /\ status' = "cancelled"
      BY <1>18 DEF CancelRun, disk
    <2>2. ReturnsAll'
      BY <1>4, <1>6, <2>1 DEF ReturnsAll
    <2> QED  BY <2>1, <2>2 DEF StoppedBarred, LateSignalBarred
  <1>19. CASE Retry
    <2>1. UNCHANGED <<at, lift>> /\ AllBarred
      BY <1>19 DEF Retry, disk, StoppedBarred
    <2> QED  BY <1>4, <1>5, <2>1
  <1>20. ASSUME NEW p \in Path, Appear(p)
         PROVE  ReturnsAll' /\ StoppedBarred' /\ LateSignalBarred'
    <2>1. /\ at' = [at EXCEPT ![p] = Foreign] /\ Foreign # Nothing
          /\ UNCHANGED <<lift, act, status, signal, mode, ctx>> /\ me' = me
      BY <1>2, <1>20, PlanOfRecords DEF Appear
    <2>2. (\A m \in Move : Barred(m) => Barred(m)') /\ (AllBarred => AllBarred')
      BY <1>1, <2>1 DEF Barred, AllBarred, Disk
    <2>3. ReturnsAll'
      BY <1>6, <2>1, <2>2 DEF ReturnsAll
    <2> QED  BY <2>1, <2>2, <2>3 DEF StoppedBarred, LateSignalBarred
  <1> QED
    BY <1>7, <1>8, <1>9, <1>10, <1>11, <1>12, <1>13, <1>14, <1>15, <1>16, <1>17, <1>18, <1>19, <1>20
    DEF Next, ExecutorStep, SettlementStep, Environment, AtWork

\* Only the moved file itself comes to its places.
LEMMA OwnPlacesStep ==
    ASSUME Acts, Disk, LiftsOwn, OwnPlaces, Next
    PROVE  OwnPlaces'
  <1>1. ASSUME NEW p \in Path, NEW f, at' = [at EXCEPT ![p] = f], f \notin Move
        PROVE  OwnPlaces'
    BY <1>1 DEF OwnPlaces, Disk
  <1>2. ASSUME NEW m \in Move, NEW p \in {Src[m], Dst[m]}, Returns(m, p)
        PROVE  OwnPlaces'
    <2>1. at' = [at EXCEPT ![p] = m]
      BY <1>2 DEF Returns, LiftsOwn
    <2>2. p \in Path
      BY Plan
    <2> QED  BY <2>1, <2>2 DEF OwnPlaces, Disk
  <1>3. CASE UNCHANGED at
    BY <1>3 DEF OwnPlaces
  <1>4. ASSUME NEW p \in Path, Appear(p)
        PROVE  OwnPlaces'
    <2>1. at' = [at EXCEPT ![p] = Foreign] /\ Foreign \notin Move
      BY <1>4, Plan DEF Appear
    <2> QED  BY <1>1, <2>1
  <1>5. ASSUME NEW p \in Path, at' = [at EXCEPT ![p] = Nothing]
        PROVE  OwnPlaces'
    <2>1. Nothing \notin Move
      BY Plan
    <2> QED  BY <1>1, <1>5, <2>1
  <1>6. ASSUME NEW i \in Item, Lands(i)
        PROVE  OwnPlaces'
    <2>1. copy[i] \notin Move
      BY Plan DEF Disk
    <2>2. at' = [at EXCEPT ![Target[i]] = copy[i]] /\ Target[i] \in Path
      BY <1>6, Plan DEF Lands
    <2> QED  BY <1>1, <2>1, <2>2
  <1>7. \/ UNCHANGED at
        \/ \E p \in Path : Appear(p) \/ at' = [at EXCEPT ![p] = Nothing]
        \/ \E m \in Move : Returns(m, Src[m]) \/ Returns(m, Dst[m])
        \/ \E i \in Item : Lands(i)
    BY FolderSteps, Plan DEF Clear, Removes, Takes, GivesWay
  <1> QED
    BY <1>2, <1>3, <1>4, <1>5, <1>6, <1>7

\* Nothing is lifted at first.
LEMMA StoppedInit == Init => SInv
  <1> SUFFICES ASSUME Init PROVE SInv
    OBVIOUS
  <1>1. /\ at = Before /\ (\A m \in Move : lift[m] = Nothing)
        /\ me = Idle /\ act["settler"] = Idle /\ (\A a \in Actor : act[a] = Idle)
        /\ status = "queued" /\ ctx = "live"
    BY DEF Init, Actor, me
  <1>2. LiftsOwn /\ AllBarred
    BY <1>1 DEF LiftsOwn, AllBarred, Barred
  <1>3. Control /\ ReturnsAll /\ StoppedBarred /\ LateSignalBarred
    BY <1>1, <1>2, IdleLocal DEF Control, ReturnsAll, StoppedBarred, LateSignalBarred, Ending
  <1>4. OwnPlaces
    BY <1>1, Plan DEF OwnPlaces
  <1> QED  BY <1>2, <1>3, <1>4, MovesInit DEF SInv

\* A cancelled or failed edit that nobody works on any more has put back every moved file
\* that can go back, however often it was stopped, failed, crashed or retried: under the same
\* hypotheses on crashes and sizes, and while the run may be resumed.  Neither ReleaseInterruptedJob
\* nor SettleOrphans puts a file back when it fails a run that has no resume left.
THEOREM StoppedPutsBack ==
    SizesTell => (Spec /\ CrashesSpareLifting /\ ResumesSuffice => []StoppedEditPutsBack)
  <1> SUFFICES ASSUME SizesTell
               PROVE  Spec /\ CrashesSpareLifting /\ ResumesSuffice => []StoppedEditPutsBack
    OBVIOUS
  <1>1. ASSUME SInv, [Next]_vars, [Crash => ~(me.dirty /\ me.pc = "lift")]_vars, [~OutOfResumes]_vars
        PROVE  SInv'
    <2>1. MInv'
      BY <1>1, MovesInvariant DEF SInv
    <2>2. Acts /\ Disk /\ Frame /\ KnownPaths
      BY <1>1, TypesSplit DEF SInv, MInv, IInv, Frame
    <2>3. CASE Next /\ vars' # vars
      <3>1. LiftsOwn' /\ OwnPlaces'
        BY <1>1, <2>2, <2>3, LiftsOwnStep, OwnPlacesStep DEF SInv
      <3>2. Control'
        BY <1>1, <2>2, <2>3, ControlStep DEF SInv
      <3>3. ReturnsAll' /\ StoppedBarred' /\ LateSignalBarred'
        BY <1>1, <2>3, ReturnsStep DEF SInv
      <3> QED  BY <2>1, <3>1, <3>2, <3>3 DEF SInv
    <2>4. CASE UNCHANGED vars
      BY <1>1, <2>1, <2>4
      DEF SInv, vars, disk, LiftsOwn, OwnPlaces, Control, ReturnsAll, StoppedBarred, LateSignalBarred,
          AllBarred, Barred, me
    <2> QED  BY <1>1, <2>3, <2>4
  <1>2. SInv => StoppedEditPutsBack
    <2> SUFFICES ASSUME SInv, mode = "up", ~signal, status \in {"cancelled", "failed"},
                        \A a \in Actor : act[a].pc = "idle", NEW m \in Move
                 PROVE  \/ m \in {at[Src[m]], at[Dst[m]]}
                        \/ lift[m] = m /\ at[Src[m]] # Nothing
      BY DEF StoppedEditPutsBack, FilesInPlace
    <2>1. AllBarred
      BY DEF SInv, StoppedBarred, Actor, me
    <2>2. \/ \E p \in Path : at[p] = m
          \/ \E n \in Move : lift[n] = m
      BY DEF SInv, MInv, MovedFileSurvives
    <2>3. \A n \in Move : lift[n] = m => n = m
      BY Plan DEF SInv, LiftsOwn
    <2> QED  BY <2>1, <2>2, <2>3, Plan DEF SInv, OwnPlaces, AllBarred, Barred
  <1> QED  BY <1>1, <1>2, StoppedInit, PTL DEF Spec, CrashesSpareLifting, ResumesSuffice
=============================================================================
