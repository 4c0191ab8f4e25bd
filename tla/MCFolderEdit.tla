---------------------------- MODULE MCFolderEdit ----------------------------
(* Instances of FolderEdit for TLC: two edits of a folder. *)
EXTENDS FolderEdit, TLC

CONSTANTS a, b, c, d, old, foreign, nothing

Times(once, twice) ==
    [o \in Occasion |-> CASE o \in once -> 1 [] o \in twice -> 2 [] OTHER -> 0]

Moves == {1, 2}
MoveSrc == 1 :> a @@ 2 :> b

\* A replaced file differs in size from the others; a file that appears has
\* the size of the moved ones.
Sizes == [f \in File |-> IF f = old THEN 2 ELSE 1]

\* Files 1 and 2 trade places, and the added file 3 replaces an old one.
TradePaths == {a, b, c}
TradeItems == {3}
TradeReplaced == {3}
TradeRemovals == {}
TradeDst == 1 :> b @@ 2 :> a
TradeTarget == 3 :> c
TradeBefore == a :> 1 @@ b :> 2 @@ c :> old

\* Files 1 and 2 move on by one path, file 2 onto a removed one; the added
\* file 3 takes the old path of file 1, and the added file 4 replaces one.
ShiftPaths == {a, b, c, d}
ShiftItems == {3, 4}
ShiftReplaced == {4}
ShiftRemovals == {c}
ShiftDst == 1 :> b @@ 2 :> c
ShiftTarget == 3 :> a @@ 4 :> d
ShiftBefore == a :> 1 @@ b :> 2 @@ c :> old @@ d :> old

\* The service crashes and is stopped; nobody else touches the run or folder.
RestartBudget == Times({"stop", "retry", "resume"}, {"crash"})

\* The run is cancelled, fails, and is stopped, in a folder others use too.
CancelBudget == Times({"cancel", "appear", "stop", "resume"}, {"retry", "fail"})

\* One crash, and one cancellation.
LostBudget == Times({"cancel", "crash", "resume"}, {})

=============================================================================
